----------------------------- MODULE Migrations -----------------------------
(***************************************************************************)
(* app/platform/migrate.py, as the replicas that boot at the same moment   *)
(* run it against one database.                                            *)
(*                                                                         *)
(* A release is its .sql files in order: file n is called version n and    *)
(* what it contains is one of Contents.  Replicas of several releases may  *)
(* run side by side, as they do while one replaces another; a later        *)
(* release adds files after the last, and may, wrongly, edit one.          *)
(***************************************************************************)
EXTENDS Integers, Sequences

CONSTANTS
  Replicas,   \* the processes that boot
  Contents,   \* what a file may contain: its checksum tells them apart
  Releases,   \* the lists of files that replicas are deployed with
  MaxFaults,  \* bound: crashes, failed statements and broker outages
  Absent,     \* no row in schema_migrations
  Nobody      \* the advisory lock is free

MaxFiles == 3   \* the files in migrations/

Versions == 1 .. MaxFiles

ASSUME MigrationsAssumption ==
  /\ Absent \notin Contents
  /\ Nobody \notin Replicas
  /\ MaxFaults \in Nat
  /\ \A files \in Releases : files \in Seq(Contents) /\ Len(files) \in Versions

VARIABLES
  table,     \* whether schema_migrations exists
  recorded,  \* its rows: the checksum per version, or Absent
  executed,  \* the files whose SQL was committed, in order
  lock,      \* the session that holds the advisory lock
  stage,     \* how far each replica is
  release,   \* the files each replica is deployed with
  known,     \* `applied`: what each replica has read of schema_migrations
  next,      \* the file it comes to next
  faults     \* how much has gone wrong

schema == <<table, recorded, executed>>
mvars  == <<table, recorded, executed, lock, stage, release, known, next, faults>>

\* down: not running.  migrated: run has returned.
MigrationStages == {"down", "connected", "creating", "waiting", "owner", "applying", "migrated"}

Nothing == [v \in Versions |-> Absent]

Init ==
  /\ table    = FALSE
  /\ recorded = Nothing
  /\ executed = << >>
  /\ lock     = Nobody
  /\ stage    = [r \in Replicas |-> "down"]
  /\ release  \in [Replicas -> Releases]
  /\ known    = [r \in Replicas |-> Nothing]
  /\ next     = [r \in Replicas |-> 1]
  /\ faults   = 0

Goes(r, where) == stage' = [stage EXCEPT ![r] = where]

-----------------------------------------------------------------------------
(* CREATE TABLE IF NOT EXISTS, before the lock *)

Boot(r) ==
  /\ stage[r] = "down"
  /\ Goes(r, "connected")
  /\ known' = [known EXCEPT ![r] = Nothing]
  /\ next'  = [next EXCEPT ![r] = 1]
  /\ UNCHANGED <<schema, lock, release, faults>>

LooksForTable(r) ==
  /\ stage[r] = "connected"
  /\ Goes(r, IF table THEN "waiting" ELSE "creating")
  /\ UNCHANGED <<schema, lock, release, known, next, faults>>

CreateTable(r) ==
  /\ stage[r] = "creating"
  /\ ~table
  /\ table' = TRUE
  /\ Goes(r, "waiting")
  /\ UNCHANGED <<recorded, executed, lock, release, known, next, faults>>

\* Another replica has created it in between: Postgres raises, run fails, and
\* the process with it.
CreateCollides(r) ==
  /\ stage[r] = "creating"
  /\ table
  /\ Goes(r, "down")
  /\ UNCHANGED <<schema, lock, release, known, next, faults>>

-----------------------------------------------------------------------------
(* Under the lock *)

\* Mutants: pg_try_advisory_lock, and a replica that does not get it starts over;
\* the lock is shared, pg_advisory_lock_shared.
LockOrStartOver(r) ==
  /\ stage[r] = "waiting"
  /\ lock' = IF lock = Nobody THEN r ELSE lock
  /\ Goes(r, IF lock = Nobody THEN "owner" ELSE "down")
  /\ UNCHANGED <<schema, release, known, next, faults>>

LockShared(r) ==
  /\ stage[r] = "waiting"
  /\ lock' = r
  /\ Goes(r, "owner")
  /\ UNCHANGED <<schema, release, known, next, faults>>

Lock(r) ==
  /\ stage[r] = "waiting"
  /\ lock = Nobody
  /\ lock' = r
  /\ Goes(r, "owner")
  /\ UNCHANGED <<schema, release, known, next, faults>>

ReadApplied(r) ==
  /\ stage[r] = "owner"
  /\ known' = [known EXCEPT ![r] = recorded]
  /\ Goes(r, "applying")
  /\ UNCHANGED <<schema, lock, release, next, faults>>

\* The loop has come to a file, and what it knows of it.
AtFile(r)    == stage[r] = "applying" /\ next[r] <= Len(release[r])
File(r)      == release[r][next[r]]
KnownFile(r) == known[r][next[r]]

\* Mutants: the index moves on twice; the checksum of an applied file is not
\* compared.
SkipTwice(r) ==
  /\ AtFile(r)
  /\ KnownFile(r) = File(r)
  /\ next' = [next EXCEPT ![r] = @ + 2]
  /\ UNCHANGED <<schema, lock, stage, release, known, faults>>

SkipApplied(r) ==
  /\ AtFile(r)
  /\ KnownFile(r) # Absent
  /\ next' = [next EXCEPT ![r] = @ + 1]
  /\ UNCHANGED <<schema, lock, stage, release, known, faults>>

Skip(r) ==
  /\ AtFile(r)
  /\ KnownFile(r) = File(r)
  /\ next' = [next EXCEPT ![r] = @ + 1]
  /\ UNCHANGED <<schema, lock, stage, release, known, faults>>

\* The inner finally: an error gives the lock back and ends the process.
Raise(r) ==
  /\ lock' = Nobody
  /\ Goes(r, "down")
  /\ UNCHANGED <<schema, release, known, next>>

Changed(r) ==
  /\ AtFile(r)
  /\ KnownFile(r) \notin {Absent, File(r)}
  /\ Raise(r)
  /\ UNCHANGED faults

\* Mutant: the row is inserted after the transaction, which a crash may prevent.
ApplyThenRecord(r) ==
  /\ AtFile(r)
  /\ KnownFile(r) = Absent
  /\ recorded[next[r]] = Absent
  /\ executed' = Append(executed, [version |-> next[r], content |-> File(r)])
  /\ \/ /\ recorded' = [recorded EXCEPT ![next[r]] = File(r)]
        /\ next' = [next EXCEPT ![r] = @ + 1]
        /\ UNCHANGED <<lock, stage, faults>>
     \/ /\ faults < MaxFaults
        /\ faults' = faults + 1
        /\ lock' = Nobody
        /\ Goes(r, "down")
        /\ UNCHANGED <<recorded, next>>
  /\ UNCHANGED <<table, release, known>>

\* The file and its row, in one transaction.
Apply(r) ==
  /\ AtFile(r)
  /\ KnownFile(r) = Absent
  /\ recorded[next[r]] = Absent
  /\ recorded' = [recorded EXCEPT ![next[r]] = File(r)]
  /\ executed' = Append(executed, [version |-> next[r], content |-> File(r)])
  /\ next'     = [next EXCEPT ![r] = @ + 1]
  /\ UNCHANGED <<table, lock, stage, release, known, faults>>

\* A statement fails, or the version has got a row in between and the INSERT
\* violates the primary key: the transaction leaves nothing behind.
ApplyFails(r) ==
  /\ AtFile(r)
  /\ KnownFile(r) = Absent
  /\ recorded[next[r]] = Absent => faults < MaxFaults
  /\ faults' = IF recorded[next[r]] = Absent THEN faults + 1 ELSE faults
  /\ Raise(r)

Unlock(r) ==
  /\ stage[r] = "applying"
  /\ next[r] > Len(release[r])
  /\ lock' = Nobody
  /\ Goes(r, "migrated")
  /\ UNCHANGED <<schema, release, known, next, faults>>

-----------------------------------------------------------------------------

\* The process dies: its session, and the lock it may hold, go with it.
Dies(r) ==
  /\ stage[r] # "down"
  /\ faults < MaxFaults
  /\ faults' = faults + 1
  /\ lock' = IF lock = r THEN Nobody ELSE lock
  /\ Goes(r, "down")
  /\ UNCHANGED <<schema, release, known, next>>

\* What one replica does about the schema, on its own.
Migrate(r) ==
  \/ Boot(r)
  \/ LooksForTable(r) \/ CreateTable(r) \/ CreateCollides(r)
  \/ Lock(r) \/ ReadApplied(r)
  \/ Skip(r) \/ Changed(r) \/ Apply(r) \/ ApplyFails(r)
  \/ Unlock(r)

-----------------------------------------------------------------------------
(* Properties *)

\* Each file's SQL is executed once, in order, and is recorded exactly if it was
\* executed, whichever replicas share the work and wherever they die.
AppliedOnceInOrder ==
  /\ \A n \in DOMAIN executed :
       executed[n].version = n /\ executed[n].content = recorded[n]
  /\ \A v \in Versions : recorded[v] # Absent => v \in DOMAIN executed

\* "They all try, one wins, the rest wait": what the owner of the lock has read
\* is still so when it comes to a file, and no INSERT meets a row that is there.
OwnerIsCurrent ==
  \A r \in Replicas : AtFile(r) => lock = r /\ KnownFile(r) = recorded[next[r]]
=============================================================================
