----------------------------- MODULE Migrations -----------------------------
(***************************************************************************)
(* postgres_migrate: several migrators (the Compose job, a restart of it,  *)
(* a person with the CLI) bring one database forward at the same time.     *)
(* Each migration is one psql script: a transaction that tries an advisory *)
(* lock, looks the version up in schema_migrations, runs the file and      *)
(* records the version.  A script that finds the lock taken rolls back and *)
(* quits; psql may report that as a success, and the migrator then goes on *)
(* without having applied the file.  postgres_verify looks at the schema   *)
(* at the end.                                                             *)
(***************************************************************************)
EXTENDS Naturals

CONSTANTS
    Migrators,
    Files,      \* how many migration files there are, in the order of their names
    Needs,      \* per file: the earlier files without which its statements fail
    Verified,   \* the files whose effect postgres_verify looks for
    MaxCrashes  \* bound: psql sessions that break off and migrators started again

ASSUME MigrationsAssumption ==
    /\ "none" \notin Migrators
    /\ Files \in Nat /\ MaxCrashes \in Nat
    /\ Needs \in [1 .. Files -> SUBSET (1 .. Files)]
    /\ Verified \subseteq 1 .. Files

NoMigrator == "none"

VARIABLES
    schema,     \* per file: how often its effect has been committed
    recorded,   \* schema_migrations
    advisory,   \* who holds the advisory lock
    migrator,   \* position, next file, and whether the transaction runs the file
    crashes

migrationVars == <<schema, recorded, advisory, migrator, crashes>>

MigrationsInit ==
    /\ schema = [f \in 1 .. Files |-> 0]
    /\ recorded = {}
    /\ advisory = NoMigrator
    /\ migrator = [m \in Migrators |-> [at |-> "waiting", file |-> 1, runs |-> FALSE]]
    /\ crashes = 0

Goto(m, at) == migrator' = [migrator EXCEPT ![m].at = at]

(* The poll of pg_isready finds the server, or the startup timeout passes. *)
wait_for_postgres(m) ==
    /\ migrator[m].at = "waiting"
    /\ \E at \in {"next", "failed"} : Goto(m, at)
    /\ UNCHANGED <<schema, recorded, advisory, crashes>>

(* BEGIN, the lock, and the look at schema_migrations.                     *)
BeginMigration(m) ==
    /\ migrator[m].at = "next"
    /\ migrator[m].file <= Files
    /\ advisory = NoMigrator
    /\ advisory' = m
    /\ migrator' = [migrator EXCEPT ![m].at = "holding",
                                    ![m].runs = migrator[m].file \notin recorded]
    /\ UNCHANGED <<schema, recorded, crashes>>

(* ROLLBACK and \quit 1.                                                   *)
LockBusy(m) ==
    /\ migrator[m].at = "next"
    /\ migrator[m].file <= Files
    /\ advisory # NoMigrator
    /\ \/ migrator' = [migrator EXCEPT ![m].file = @ + 1]
       \/ Goto(m, "failed")
    /\ UNCHANGED <<schema, recorded, advisory, crashes>>

(* COMMIT: the file's effect, its record and the end of the lock together. *)
CommitMigration(m) ==
    LET f == migrator[m].file
    IN  /\ migrator[m].at = "holding"
        /\ migrator[m].runs => \A n \in Needs[f] : schema[n] > 0
        /\ schema' = IF migrator[m].runs THEN [schema EXCEPT ![f] = @ + 1] ELSE schema
        /\ recorded' = IF migrator[m].runs THEN recorded \cup {f} ELSE recorded
        /\ advisory' = NoMigrator
        /\ migrator' = [migrator EXCEPT ![m] = [at |-> "next", file |-> f + 1, runs |-> FALSE]]
        /\ UNCHANGED crashes

(* A statement fails: something the file builds on is missing, the         *)
(* statement timeout passes, or the connection breaks.  ON_ERROR_STOP ends *)
(* psql with an error and the server rolls back.                           *)
AbortMigration(m) ==
    /\ migrator[m].at = "holding"
    /\ \/ /\ \E n \in Needs[migrator[m].file] : schema[n] = 0
          /\ migrator[m].runs
          /\ UNCHANGED crashes
       \/ /\ crashes < MaxCrashes
          /\ crashes' = crashes + 1
    /\ advisory' = NoMigrator
    /\ Goto(m, "failed")
    /\ UNCHANGED <<schema, recorded>>

\* Mutant: one of the required tables is enough.
SchemaIsThere == \E f \in Verified : schema[f] > 0

SchemaIsComplete == \A f \in Verified : schema[f] > 0

postgres_verify(m) ==
    /\ migrator[m].at = "next"
    /\ migrator[m].file > Files
    /\ Goto(m, IF SchemaIsComplete THEN "migrated" ELSE "failed")
    /\ UNCHANGED <<schema, recorded, advisory, crashes>>

(* The Compose job is restarted on failure; a person tries again.          *)
StartAgain(m) ==
    /\ migrator[m].at = "failed"
    /\ crashes < MaxCrashes
    /\ crashes' = crashes + 1
    /\ migrator' = [migrator EXCEPT ![m] = [at |-> "waiting", file |-> 1, runs |-> FALSE]]
    /\ UNCHANGED <<schema, recorded, advisory>>

MigrationsNext ==
    \E m \in Migrators :
        \/ wait_for_postgres(m) \/ BeginMigration(m) \/ LockBusy(m) \/ CommitMigration(m)
        \/ AbortMigration(m) \/ postgres_verify(m) \/ StartAgain(m)

MigrationsSpec == MigrationsInit /\ [][MigrationsNext]_migrationVars

-----------------------------------------------------------------------------
(* However many migrators run, break off and start again, a file takes     *)
(* effect at most once, exactly when its version is recorded, and never    *)
(* before the files it builds on; and a migrator that reports success      *)
(* leaves a schema with everything postgres_verify looks for, also when it *)
(* passed over files because another one held the lock and then failed.    *)
MigratedSchemaIsComplete ==
    /\ \A f \in 1 .. Files :
          /\ schema[f] = IF f \in recorded THEN 1 ELSE 0
          /\ f \in recorded => Needs[f] \subseteq recorded
    /\ \A m \in Migrators : migrator[m].at = "migrated" => Verified \subseteq recorded
=============================================================================
