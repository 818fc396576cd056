----------------------------- MODULE Migrations -----------------------------
(***************************************************************************)
(* migrate() and backup_database() of storage/db.py, called by several     *)
(* processes on one database file, with crashes.                           *)
(*                                                                         *)
(* A migration is its version and its content, named by its checksum.  A   *)
(* state of the database is the sequence of migrations its schema was made *)
(* by, and the rows of schema_migrations.  Scripts hold no transaction     *)
(* control of their own.  CREATE TABLE IF NOT EXISTS is not modelled: a    *)
(* database without the table is one with no rows.                         *)
(***************************************************************************)
EXTENDS Integers, Sequences

CONSTANTS
    Proc,               \* processes that call migrate()
    Version, Checksum,
    Directory,          \* migration directories: files in order of their names
    Target,             \* the target_versions given, Nil among them
    Broken,             \* migrations whose script fails or leaves dangling keys
    Repeatable,         \* migrations whose script succeeds a second time
    MaxFaults,          \* how many crashes and failed backups may happen
    Nil

File == [version : Version, checksum : Checksum]

ASSUME MigrationAssumption ==
    /\ Version \subseteq Nat
    /\ Directory \subseteq Seq(File)
    /\ Target \subseteq Nat \cup {Nil} /\ Nil \notin Nat /\ Nil # "returned"
    /\ MaxFaults \in Nat
    /\ Nil \notin Proc /\ Nil \notin [schema : Seq(File), rows : SUBSET File]

VARIABLES
    dir,                \* the directory each process finds
    db,                 \* the committed state
    lock,               \* the process whose transaction is open, or Nil
    work,               \* the state that transaction sees
    bak,                \* the backup file: Nil, or the state it holds
    proc,               \* migrate() in each process
    faults

migrationVars == <<dir, db, lock, work, bak, proc, faults>>

Database == [schema : Seq(File), rows : SUBSET File]
Empty == [schema |-> <<>>, rows |-> {}]

\* todo: the positions of the pending files
MigrateState == [pc : {"idle", "unlink", "copy", "script", "record", "commit"},
                 todo : SUBSET Nat,
                 target : Nat \cup {Nil},
                 result : {Nil, "raised", "returned"}]

-----------------------------------------------------------------------------
(* The files that migrate() looks at. *)

\* applied, as the SELECT returned it
Applied(f) == \E r \in db.rows : r.version = f.version

Beyond(f, t) == t # Nil /\ f.version > t

\* The loop over the files has not reached its break.
Scanned(d, t) ==
    {i \in DOMAIN d : \A k \in 1 .. i : Applied(d[k]) \/ ~Beyond(d[k], t)}

Pending(d, t) == {i \in Scanned(d, t) : ~Applied(d[i])}

\* IdentityConflict: an applied migration whose file has another content
Mismatch(d, t) == \E i \in Scanned(d, t) : Applied(d[i]) /\ d[i] \notin db.rows

Position(p) == CHOOSE i \in proc[p].todo : \A k \in proc[p].todo : i <= k
NextFile(p) == dir[p][Position(p)]

-----------------------------------------------------------------------------
Goto(p, pc) == proc' = [proc EXCEPT ![p].pc = pc]

End(p, result) == proc' = [proc EXCEPT ![p].pc = "idle", ![p].todo = {}, ![p].result = result]

\* Mutant: an applied migration is passed over without comparing checksums.
CallUnchecked(p, t, backup) ==
    /\ proc[p].pc = "idle"
    /\ LET todo == Pending(dir[p], t) IN
       proc' = [proc EXCEPT ![p] =
                [pc |-> IF todo = {} THEN "idle" ELSE IF backup THEN "unlink" ELSE "script",
                 todo |-> todo, target |-> t,
                 result |-> IF todo = {} THEN "returned" ELSE Nil]]
    /\ UNCHANGED <<dir, db, lock, work, bak, faults>>

\* From the SELECT to the end of the loop over the files.  CREATE TABLE IF NOT
\* EXISTS before it may find the database busy: it raises, with nothing changed,
\* and the next call is as if there had been none.
Call(p, t, backup) ==
    /\ proc[p].pc = "idle"
    /\ LET todo == IF Mismatch(dir[p], t) THEN {} ELSE Pending(dir[p], t) IN
       proc' = [proc EXCEPT ![p] =
                [pc |-> IF todo = {} THEN "idle" ELSE IF backup THEN "unlink" ELSE "script",
                 todo |-> todo, target |-> t,
                 result |-> IF Mismatch(dir[p], t) THEN "raised"
                            ELSE IF todo = {} THEN "returned" ELSE Nil]]
    /\ UNCHANGED <<dir, db, lock, work, bak, faults>>

\* backup_database removes the file of an earlier backup ...
Unlink(p) ==
    /\ proc[p].pc = "unlink"
    /\ bak' = Nil
    /\ Goto(p, "copy")
    /\ UNCHANGED <<dir, db, lock, work, faults>>

\* Mutant: the file of the database is copied, with what is not committed.
CopyFile(p) ==
    /\ proc[p].pc = "copy"
    /\ bak' = IF lock = Nil THEN db ELSE work
    /\ Goto(p, "script")
    /\ UNCHANGED <<dir, db, lock, work, faults>>

\* ... and copies the committed state, as one snapshot.
Copy(p) ==
    /\ proc[p].pc = "copy"
    /\ bak' = db
    /\ Goto(p, "script")
    /\ UNCHANGED <<dir, db, lock, work, faults>>

\* InfrastructureError
BackupFails(p) ==
    /\ proc[p].pc \in {"unlink", "copy"} /\ faults < MaxFaults
    /\ faults' = faults + 1
    /\ End(p, "raised")
    /\ UNCHANGED <<dir, db, lock, work, bak>>

Succeeds(f, state) ==
    /\ f \notin Broken
    /\ (\E i \in DOMAIN state.schema : state.schema[i].version = f.version) => f \in Repeatable

\* Mutant: the transaction is begun before executescript, which commits it, so
\* that each statement of the script is committed as it is executed.
ScriptAutocommitted(p) ==
    /\ proc[p].pc = "script" /\ lock = Nil
    /\ Succeeds(NextFile(p), db)
    /\ lock' = p
    /\ db' = [db EXCEPT !.schema = Append(@, NextFile(p))]
    /\ work' = db'
    /\ Goto(p, "record")
    /\ UNCHANGED <<dir, bak, faults>>

\* BEGIN IMMEDIATE, the content of the file and the foreign_key_check.
Script(p) ==
    /\ proc[p].pc = "script" /\ lock = Nil
    /\ Succeeds(NextFile(p), db)
    /\ lock' = p
    /\ work' = [db EXCEPT !.schema = Append(@, NextFile(p))]
    /\ Goto(p, "record")
    /\ UNCHANGED <<dir, db, bak, faults>>

\* The script or the check fails, and is rolled back.
ScriptFails(p) ==
    /\ proc[p].pc = "script" /\ lock = Nil
    /\ ~Succeeds(NextFile(p), db)
    /\ End(p, "raised")
    /\ UNCHANGED <<dir, db, lock, work, bak, faults>>

\* Another transaction is open for longer than busy_timeout.
Busy(p) ==
    /\ proc[p].pc = "script" /\ lock # Nil
    /\ End(p, "raised")
    /\ UNCHANGED <<dir, db, lock, work, bak, faults>>

\* INSERT INTO schema_migrations; version is its primary key.
Record(p) ==
    /\ proc[p].pc = "record"
    /\ ~Applied(NextFile(p))
    /\ work' = [work EXCEPT !.rows = @ \cup {NextFile(p)}]
    /\ Goto(p, "commit")
    /\ UNCHANGED <<dir, db, lock, bak, faults>>

\* Mutant: a migration that was applied meanwhile is passed over.
RecordFailsPassedOver(p) ==
    /\ proc[p].pc = "record"
    /\ Applied(NextFile(p))
    /\ lock' = Nil
    /\ work' = db
    /\ LET rest == proc[p].todo \ {Position(p)} IN
       proc' = [proc EXCEPT ![p].pc = IF rest = {} THEN "idle" ELSE "script",
                            ![p].todo = rest]
    /\ UNCHANGED <<dir, db, bak, faults>>

\* IntegrityError and ROLLBACK: the version was applied since the SELECT.
RecordFails(p) ==
    /\ proc[p].pc = "record"
    /\ Applied(NextFile(p))
    /\ lock' = Nil
    /\ work' = db
    /\ End(p, "raised")
    /\ UNCHANGED <<dir, db, bak, faults>>

\* COMMIT; migrate() goes on to the next file, or checks the keys and returns.
Commit(p) ==
    /\ proc[p].pc = "commit"
    /\ db' = work
    /\ lock' = Nil
    /\ LET rest == proc[p].todo \ {Position(p)} IN
       proc' = [proc EXCEPT ![p].pc = IF rest = {} THEN "idle" ELSE "script",
                            ![p].todo = rest,
                            ![p].result = IF rest = {} THEN "returned" ELSE Nil]
    /\ UNCHANGED <<dir, work, bak, faults>>

\* The process dies: SQLite rolls its transaction back.
Crash(p) ==
    /\ proc[p].pc # "idle" /\ faults < MaxFaults
    /\ faults' = faults + 1
    /\ lock' = IF lock = p THEN Nil ELSE lock
    /\ work' = IF lock = p THEN db ELSE work
    /\ End(p, Nil)
    /\ UNCHANGED <<dir, db, bak>>

MigrationInit ==
    /\ dir \in [Proc -> Directory]
    /\ db = Empty /\ work = Empty
    /\ lock = Nil /\ bak = Nil
    /\ proc = [p \in Proc |-> [pc |-> "idle", todo |-> {}, target |-> Nil, result |-> Nil]]
    /\ faults = 0

Step(p) == Unlink(p) \/ Copy(p) \/ Record(p) \/ RecordFails(p) \/ Commit(p)
           \/ ScriptFails(p) \/ Busy(p)

MigrationNext ==
    \E p \in Proc :
        \/ \E t \in Target, backup \in BOOLEAN : Call(p, t, backup)
        \/ Step(p) \/ Script(p)
        \/ BackupFails(p) \/ Crash(p)

MigrationSpec == MigrationInit /\ [][MigrationNext]_migrationVars

\* A call runs on, and a process again and again calls without a target (each
\* start of a service migrates).  A transaction is far shorter than the five
\* seconds the busy handler waits, so a process that finds the lock free again
\* and again obtains it.
FairMigrations ==
    /\ MigrationSpec
    /\ \A p \in Proc : /\ WF_migrationVars(Step(p))
                       /\ SF_migrationVars(Script(p))
                       /\ SF_migrationVars(Call(p, Nil, TRUE))

-----------------------------------------------------------------------------
(* Properties *)

\* Each recorded migration was executed once, with the content recorded, and
\* nothing else was executed.
Consistent(state) ==
    /\ state.rows = {state.schema[i] : i \in DOMAIN state.schema}
    /\ \A i, k \in DOMAIN state.schema :
           state.schema[i].version = state.schema[k].version => i = k

\* The schema is what schema_migrations says, whichever processes migrate at
\* once, with whatever files, and wherever they die.
SchemaIsRecorded == Consistent(db)

\* backup_database: what the backup holds is the database as it was at one
\* moment between two migrations, never one half applied.
BackupIsPast ==
    bak # Nil =>
        /\ Consistent(bak)
        /\ Len(bak.schema) <= Len(db.schema)
        /\ \A i \in DOMAIN bak.schema : bak.schema[i] = db.schema[i]

\* migrate() executes a file only on a schema that all earlier files of its
\* directory have been applied to with the content they have there, even if
\* other processes apply other directories meanwhile.
FilesInOrder ==
    [][\A p \in Proc : Commit(p) =>
          \A i \in 1 .. Position(p) : dir[p][i] \in db'.rows]_migrationVars

\* When migrate() returns, the files up to its target version are applied as
\* they are in its directory.
ReturnMeansMigrated ==
    \A p \in Proc : proc[p].result = "returned" =>
        \A i \in DOMAIN dir[p] :
            (\A k \in 1 .. i : ~Beyond(dir[p][k], proc[p].target)) => dir[p][i] \in db.rows

\* What stops a directory for good: a file that was applied with another
\* content, or one whose script fails.
Stopped(p) == \E i \in DOMAIN dir[p] :
    \/ Applied(dir[p][i]) /\ dir[p][i] \notin db.rows
    \/ dir[p][i] \in Broken /\ ~Applied(dir[p][i])

\* Faults, races and timeouts do not leave a database that cannot be migrated:
\* calling migrate() again ends with every file of the directory applied, unless
\* a file is broken or was changed.
RetriesFinish ==
    \A p \in Proc : <>[](Stopped(p) \/ \A i \in DOMAIN dir[p] : dir[p][i] \in db.rows)

-----------------------------------------------------------------------------
(* The inductive invariant. *)

MigrationTypeOK ==
    /\ dir \in [Proc -> Directory]
    /\ db \in Database /\ work \in Database
    /\ lock \in Proc \cup {Nil}
    /\ bak \in Database \cup {Nil}
    /\ proc \in [Proc -> MigrateState]
    /\ faults \in Nat

\* The transaction open is that of the process between its BEGIN and COMMIT, and
\* its state is the committed one with the script executed, and then recorded.
TransactionInv ==
    \A p \in Proc :
        /\ lock = p <=> proc[p].pc \in {"record", "commit"}
        /\ lock = p => work.schema = Append(db.schema, NextFile(p))
        /\ proc[p].pc = "record" => work.rows = db.rows
        /\ proc[p].pc = "commit" => /\ work.rows = db.rows \cup {NextFile(p)}
                                   /\ ~Applied(NextFile(p))

\* The files that are not pending and either precede one that is, or are within
\* the target, have been applied.
TodoInv ==
    \A p \in Proc :
        /\ proc[p].todo \subseteq DOMAIN dir[p]
        /\ proc[p].pc # "idle" =>
            /\ proc[p].todo # {}
            /\ proc[p].result = Nil
            /\ \A i \in DOMAIN dir[p] \ proc[p].todo :
                  (\/ \E k \in proc[p].todo : i < k
                   \/ \A k \in 1 .. i : ~Beyond(dir[p][k], proc[p].target))
                  => dir[p][i] \in db.rows

MigrationInv ==
    /\ MigrationTypeOK
    /\ TransactionInv
    /\ TodoInv
    /\ SchemaIsRecorded
    /\ BackupIsPast
    /\ ReturnMeansMigrated

=============================================================================
