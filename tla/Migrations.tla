------------------------------ MODULE Migrations ------------------------------
(***************************************************************************)
(* MigrationManager of yma-migration: the records of the migration files,  *)
(* in a DashMap, and the database the migrations are applied to.           *)
(*                                                                         *)
(* apply_migration keeps the reference records.get() gave it until it      *)
(* returns, across its awaits: a read guard on the version's shard.  When  *)
(* it has committed it asks for that shard's write guard.  The guard it    *)
(* holds itself is in the way, so the call goes no further: the states     *)
(* with at = "marking" have no way on, and nothing ever writes applied.    *)
(***************************************************************************)
EXTENDS Naturals, FiniteSets, FiniteSetsExt

CONSTANTS
  Versions,               (* versions of the files in migrations_dir       *)
  Migrators,              (* the tasks that call the manager               *)
  MaxRestarts             (* bound on the restarts of the process          *)

ASSUME MigrationBounds == Versions \subseteq Nat /\ MaxRestarts \in Nat

VARIABLES
  records,                (* versions loaded, each with its applied flag   *)
  committed,              (* committed[v]: rows the database holds of v    *)
  migrating,              (* migrating[m]: what the call of m is doing     *)
  restarts

migrationVars == <<records, committed, migrating, restarts>>

NoMigration == [at |-> "none", version |-> 0, rest |-> {}]

MigrationInit ==
  /\ records = [v \in {} |-> FALSE]
  /\ committed = [v \in Versions |-> 0]
  /\ migrating = [m \in Migrators |-> NoMigration]
  /\ restarts = 0

\* The calls holding a read guard on v's record.
Guards(v) == {m \in Migrators : /\ migrating[m].version = v
                                /\ migrating[m].at \in {"reading", "executing", "marking"}}

\* load_migrations goes through the directory and inserts every file anew, one
\* after the other with awaits in between, whatever the record said; insert asks
\* for the write guard.
LoadMigration(v) ==
  /\ Guards(v) = {}
  /\ records' = [w \in DOMAIN records \cup {v} |-> w # v /\ records[w]]
  /\ UNCHANGED <<committed, migrating, restarts>>

Unapplied == {v \in DOMAIN records : ~records[v]}

\* apply_migration(v), or apply_all, which goes through the unapplied versions
\* in ascending order.
ApplyMigration(m, v) ==
  /\ migrating[m] = NoMigration
  /\ v \in Unapplied
  /\ migrating' = [migrating EXCEPT ![m] =
                     [at |-> "reading", version |-> v, rest |-> {}]]
  /\ UNCHANGED <<records, committed, restarts>>

FirstOf(versions) == Min(versions)

ApplyAll(m) ==
  /\ migrating[m] = NoMigration
  /\ Unapplied # {}
  /\ migrating' = [migrating EXCEPT ![m] =
                     [at |-> "reading", version |-> FirstOf(Unapplied),
                      rest |-> Unapplied \ {FirstOf(Unapplied)}]]
  /\ UNCHANGED <<records, committed, restarts>>

\* The file cannot be read, or the transaction is refused or rolled back: the
\* call, and apply_all with it, returns the error.
ApplyFails(m) ==
  /\ migrating[m].at \in {"reading", "executing"}
  /\ migrating' = [migrating EXCEPT ![m] = NoMigration]
  /\ UNCHANGED <<records, committed, restarts>>

ReadSql(m) ==
  /\ migrating[m].at = "reading"
  /\ migrating' = [migrating EXCEPT ![m].at = "executing"]
  /\ UNCHANGED <<records, committed, restarts>>

Commit(m) ==
  /\ migrating[m].at = "executing"
  /\ committed' = [committed EXCEPT ![migrating[m].version] = @ + 1]
  /\ migrating' = [migrating EXCEPT ![m].at = "marking"]
  /\ UNCHANGED <<records, restarts>>

\* get_mut, and on to the next version of apply_all.
MarkApplied(m) ==
  LET v == migrating[m].version
      rest == migrating[m].rest
  IN  /\ migrating[m].at = "marking"
      /\ Guards(v) = {}
      /\ records' = [records EXCEPT ![v] = TRUE]
      /\ migrating' = [migrating EXCEPT ![m] =
                         IF rest = {} THEN NoMigration
                         ELSE [at |-> "reading", version |-> FirstOf(rest),
                               rest |-> rest \ {FirstOf(rest)}]]
      /\ UNCHANGED <<committed, restarts>>

\* The process ends, with what it keeps in memory; the database stays.
Restart ==
  /\ restarts < MaxRestarts
  /\ restarts' = restarts + 1
  /\ records' = [v \in {} |-> FALSE]
  /\ migrating' = [m \in Migrators |-> NoMigration]
  /\ committed' = committed

MigrationNext ==
  \/ Restart
  \/ \E v \in Versions : LoadMigration(v)
  \/ \E m \in Migrators : \/ ApplyAll(m)
                          \/ ApplyFails(m)
                          \/ ReadSql(m)
                          \/ Commit(m)
                          \/ MarkApplied(m)
                          \/ \E v \in Versions : ApplyMigration(m, v)

\* The runtime polls every task, the file system and the database answer.
MigrationFairness ==
  \A m \in Migrators : /\ WF_migrationVars(ReadSql(m))
                        /\ WF_migrationVars(Commit(m))
                        /\ WF_migrationVars(MarkApplied(m))

MigrationSpec == MigrationInit /\ [][MigrationNext]_migrationVars /\ MigrationFairness

-----------------------------------------------------------------------------
\* get_migration_status, get_migration, next_pending_version, current_version;
\* 0 stands for None.
NextPendingVersion == IF Unapplied = {} THEN 0 ELSE Min(Unapplied)

CurrentVersion ==
  LET applied == DOMAIN records \ Unapplied
  IN  IF applied = {} THEN 0 ELSE Max(applied)

MigrationTypeOK ==
  /\ DOMAIN records \subseteq Versions /\ \A v \in DOMAIN records : records[v] \in BOOLEAN
  /\ committed \in [Versions -> Nat]
  /\ migrating \in [Migrators ->
       [at : {"none", "reading", "executing", "marking"},
        version : Versions \cup {0}, rest : SUBSET Versions]]
  /\ restarts \in 0 .. MaxRestarts

\* A migration that is committed to the database gets recorded as applied, so
\* that the current version is the highest version that was applied.
CommittedIsRecorded ==
  \A m \in Migrators :
    migrating[m].at = "marking" ~> migrating[m].at = "none"
=============================================================================
