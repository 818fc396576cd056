-------------------------- MODULE MigrationProofs --------------------------
(***************************************************************************)
(* Any number of processes may migrate one database with any directories   *)
(* and die anywhere.  The argument: between BEGIN IMMEDIATE and COMMIT one *)
(* process alone changes the state, by its script and then the row of that *)
(* script, and rows are never taken back; so what a process found applied  *)
(* when it was called is still applied when it commits, and what another   *)
(* one applied meanwhile fails on the primary key.                         *)
(***************************************************************************)
EXTENDS Migrations, WellFoundedInduction, TLAPS

\* The next pending file is the first of them.
LEMMA LeastExists ==
    ASSUME NEW S \in SUBSET Nat, S # {}
    PROVE  \E i \in S : \A k \in S : i <= k
  <1>1. PICK i \in S : \A k \in S : ~(<<k, i>> \in OpToRel(<, Nat))
    BY NatLessThanWellFounded, WFMin, Zenon
  <1>2. \A k \in S : ~(k < i)
    BY <1>1 DEF OpToRel
  <1> QED
    BY <1>2

\* A migrating process has a first file left, one of its directory.
LEMMA PositionIsFirst ==
    ASSUME MigrationInv, NEW p \in Proc, proc[p].pc # "idle"
    PROVE  /\ Position(p) \in proc[p].todo
           /\ \A k \in proc[p].todo : Position(p) <= k
           /\ Position(p) \in DOMAIN dir[p]
           /\ NextFile(p) \in File
  <1>1. proc[p].todo \in SUBSET Nat /\ proc[p].todo # {} /\ proc[p].todo \subseteq DOMAIN dir[p]
    BY DEF MigrationInv, MigrationTypeOK, TodoInv, MigrateState
  <1>2. Position(p) \in proc[p].todo /\ \A k \in proc[p].todo : Position(p) <= k
    BY <1>1, LeastExists DEF Position
  <1>3. dir[p] \in Seq(File)
    BY MigrationAssumption DEF MigrationInv, MigrationTypeOK
  <1> QED
    BY <1>1, <1>2, <1>3 DEF NextFile

\* A database as created: the invariant holds.
LEMMA MigrationInitial == MigrationInit => MigrationInv
  <1> SUFFICES ASSUME MigrationInit PROVE MigrationInv
    OBVIOUS
  <1>1. Empty \in Database /\ Empty.schema = <<>> /\ Empty.rows = {}
    BY DEF Empty, Database
  <1>2. MigrationTypeOK
    BY <1>1, MigrationAssumption DEF MigrationInit, MigrationTypeOK, MigrateState
  <1>3. TransactionInv
    BY MigrationAssumption DEF MigrationInit, TransactionInv
  <1>4. TodoInv /\ ReturnMeansMigrated
    BY MigrationAssumption DEF MigrationInit, TodoInv, ReturnMeansMigrated
  <1>5. SchemaIsRecorded /\ BackupIsPast
    BY <1>1 DEF MigrationInit, SchemaIsRecorded, BackupIsPast, Consistent
  <1> QED
    BY <1>2, <1>3, <1>4, <1>5 DEF MigrationInv

\* A step of p outside its transaction, to a state in which its call has ended
\* or is as far from its scan as before.
LEMMA OutsideStep ==
    ASSUME MigrationInv, NEW p \in Proc,
           UNCHANGED <<dir, db, lock, work>>,
           lock # p,
           bak' \in {bak, db, Nil},
           faults' \in Nat,
           proc' \in [Proc -> MigrateState],
           \A q \in Proc : q # p => proc'[q] = proc[q],
           proc'[p].pc \notin {"record", "commit"},
           proc'[p].todo \subseteq DOMAIN dir[p],
           proc'[p].pc # "idle" =>
               /\ proc'[p].todo # {} /\ proc'[p].result = Nil
               /\ \A i \in DOMAIN dir[p] \ proc'[p].todo :
                     (\/ \E k \in proc'[p].todo : i < k
                      \/ \A k \in 1 .. i : ~Beyond(dir[p][k], proc'[p].target))
                     => dir[p][i] \in db.rows,
           proc'[p].result = "returned" =>
               \A i \in DOMAIN dir[p] :
                  (\A k \in 1 .. i : ~Beyond(dir[p][k], proc'[p].target)) => dir[p][i] \in db.rows
    PROVE  MigrationInv'
  <1>1. MigrationTypeOK'
    BY DEF MigrationInv, MigrationTypeOK
  <1>2. \A q \in Proc : q # p => Position(q)' = Position(q) /\ NextFile(q)' = NextFile(q)
    BY DEF Position, NextFile
  <1>3. \A q \in Proc : q # p => (Applied(NextFile(q)))' = Applied(NextFile(q))
    BY <1>2 DEF Applied
  <1>4. TransactionInv'
    BY <1>2, <1>3 DEF MigrationInv, TransactionInv
  <1>5. TodoInv'
    BY DEF MigrationInv, TodoInv, Beyond
  <1>6. SchemaIsRecorded'
    BY DEF MigrationInv, SchemaIsRecorded, Consistent
  <1>7. BackupIsPast'
    BY DEF MigrationInv, SchemaIsRecorded, BackupIsPast, Consistent, MigrationTypeOK, Database
  <1>8. ReturnMeansMigrated'
    BY DEF MigrationInv, ReturnMeansMigrated, Beyond
  <1> QED
    BY <1>1, <1>4, <1>5, <1>6, <1>7, <1>8 DEF MigrationInv

\* What migrate() finds when it is called: the files it does not hold pending
\* are applied as they are.
LEMMA CallStep ==
    ASSUME MigrationInv, NEW p \in Proc, NEW t \in Target, NEW backup \in BOOLEAN,
           Call(p, t, backup)
    PROVE  MigrationInv'
  <1> DEFINE todo == IF Mismatch(dir[p], t) THEN {} ELSE Pending(dir[p], t)
  <1>1. proc'[p] = [pc |-> IF todo = {} THEN "idle" ELSE IF backup THEN "unlink" ELSE "script",
                    todo |-> todo, target |-> t,
                    result |-> IF Mismatch(dir[p], t) THEN "raised"
                               ELSE IF todo = {} THEN "returned" ELSE Nil]
    BY DEF Call, MigrationInv, MigrationTypeOK
  <1>2. \A q \in Proc : q # p => proc'[q] = proc[q]
    BY DEF Call, MigrationInv, MigrationTypeOK
  <1>3. dir[p] \in Seq(File)
    BY MigrationAssumption DEF MigrationInv, MigrationTypeOK
  <1>4. todo \subseteq DOMAIN dir[p] /\ todo \in SUBSET Nat
    BY <1>3 DEF Pending, Scanned
  <1>5. proc'[p] \in MigrateState
    BY <1>1, <1>4, MigrationAssumption DEF MigrateState
  <1>6. proc' \in [Proc -> MigrateState]
    BY <1>5 DEF Call, MigrationInv, MigrationTypeOK
  <1>7. ASSUME ~Mismatch(dir[p], t), NEW i \in DOMAIN dir[p] \ todo,
               \/ \E k \in todo : i < k
               \/ \A k \in 1 .. i : ~Beyond(dir[p][k], t)
        PROVE  dir[p][i] \in db.rows
    <2>1. i \in Scanned(dir[p], t)
      BY <1>3, <1>7 DEF Pending, Scanned
    <2> QED
      BY <1>7, <2>1 DEF Pending, Mismatch
  <1>8. proc[p].pc = "idle" /\ lock # p
    BY DEF Call, MigrationInv, TransactionInv
  <1>9. proc'[p].pc # "idle" => ~Mismatch(dir[p], t) /\ todo # {} /\ proc'[p].result = Nil
    BY <1>1
  <1>10. proc'[p].result = "returned" => ~Mismatch(dir[p], t) /\ todo = {}
    BY <1>1, MigrationAssumption
  <1>11. proc'[p].todo = todo /\ proc'[p].target = t /\ proc'[p].pc \notin {"record", "commit"}
    BY <1>1
  <1>12. UNCHANGED <<dir, db, lock, work>> /\ bak' = bak /\ faults' \in Nat
    BY DEF Call, MigrationInv, MigrationTypeOK
  <1> HIDE DEF todo
  <1> QED
    BY <1>2, <1>4, <1>6, <1>7, <1>8, <1>9, <1>10, <1>11, <1>12, OutsideStep

\* The steps of backup_database.
LEMMA BackupStep ==
    ASSUME MigrationInv, NEW p \in Proc, Unlink(p) \/ Copy(p)
    PROVE  MigrationInv'
  <1>1. PICK pc \in {"copy", "script"} : proc' = [proc EXCEPT ![p].pc = pc]
    BY DEF Unlink, Copy, Goto
  <1>2. proc'[p] = [proc[p] EXCEPT !.pc = pc] /\ \A q \in Proc : q # p => proc'[q] = proc[q]
    BY <1>1 DEF MigrationInv, MigrationTypeOK
  <1>3. proc[p] \in MigrateState /\ proc' \in [Proc -> MigrateState]
    BY <1>1 DEF MigrationInv, MigrationTypeOK, MigrateState
  <1>4. proc'[p].pc = pc /\ proc'[p].todo = proc[p].todo
        /\ proc'[p].target = proc[p].target /\ proc'[p].result = proc[p].result
    BY <1>2, <1>3 DEF MigrateState
  <1>5. proc[p].pc \in {"unlink", "copy"} /\ lock # p
    BY DEF Unlink, Copy, MigrationInv, TransactionInv
  <1>6. UNCHANGED <<dir, db, lock, work>> /\ bak' \in {db, Nil} /\ faults' \in Nat
    BY DEF Unlink, Copy, MigrationInv, MigrationTypeOK
  <1>7. proc[p].result = Nil /\ Nil # "returned"
    BY <1>5, MigrationAssumption DEF MigrationInv, TodoInv
  <1>8. /\ proc[p].todo \subseteq DOMAIN dir[p] /\ proc[p].todo # {}
        /\ \A i \in DOMAIN dir[p] \ proc[p].todo :
              (\/ \E k \in proc[p].todo : i < k
               \/ \A k \in 1 .. i : ~Beyond(dir[p][k], proc[p].target))
              => dir[p][i] \in db.rows
    BY <1>5 DEF MigrationInv, TodoInv
  <1>9. proc'[p].pc \notin {"record", "commit"} /\ bak' \in {bak, db, Nil}
    BY <1>4, <1>6
  <1> QED
    BY <1>2, <1>3, <1>4, <1>5, <1>6, <1>7, <1>8, <1>9, OutsideStep

\* A call that ends outside its transaction, by an exception or a crash.
LEMMA EndStep ==
    ASSUME MigrationInv, NEW p \in Proc, lock # p,
           UNCHANGED <<dir, db, lock, work, bak>>, faults' \in Nat,
           NEW r \in {Nil, "raised"}, End(p, r)
    PROVE  MigrationInv'
  <1>1. proc'[p] = [proc[p] EXCEPT !.pc = "idle", !.todo = {}, !.result = r]
        /\ \A q \in Proc : q # p => proc'[q] = proc[q]
    BY DEF End, MigrationInv, MigrationTypeOK
  <1>2. proc[p] \in MigrateState /\ proc' \in [Proc -> MigrateState]
    <2>1. proc[p] \in MigrateState
      BY DEF MigrationInv, MigrationTypeOK
    <2>2. proc'[p] \in MigrateState
      BY <2>1, <1>1 DEF MigrateState
    <2> QED
      BY <2>1, <2>2 DEF End, MigrationInv, MigrationTypeOK
  <1>3. proc'[p].pc = "idle" /\ proc'[p].todo = {} /\ proc'[p].result = r
    BY <1>1, <1>2 DEF MigrateState
  <1>4. r # "returned"
    BY MigrationAssumption
  <1> QED
    BY <1>1, <1>2, <1>3, <1>4, OutsideStep

\* A call that ends inside its transaction: it is rolled back.
LEMMA RollbackStep ==
    ASSUME MigrationInv, NEW p \in Proc, lock = p,
           UNCHANGED <<dir, db, bak>>, lock' = Nil, work' = db, faults' \in Nat,
           NEW r \in {Nil, "raised"}, End(p, r)
    PROVE  MigrationInv'
  <1>1. proc'[p] = [proc[p] EXCEPT !.pc = "idle", !.todo = {}, !.result = r]
        /\ \A q \in Proc : q # p => proc'[q] = proc[q]
    BY DEF End, MigrationInv, MigrationTypeOK
  <1>2. proc[p] \in MigrateState /\ proc' \in [Proc -> MigrateState]
    <2>1. proc[p] \in MigrateState
      BY DEF MigrationInv, MigrationTypeOK
    <2>2. proc'[p] \in MigrateState
      BY <2>1, <1>1 DEF MigrateState
    <2> QED
      BY <2>1, <2>2 DEF End, MigrationInv, MigrationTypeOK
  <1>3. proc'[p].pc = "idle" /\ proc'[p].todo = {} /\ proc'[p].result = r
    BY <1>1, <1>2 DEF MigrateState
  <1>4. r # "returned"
    BY MigrationAssumption
  <1>5. MigrationTypeOK'
    BY <1>2 DEF MigrationInv, MigrationTypeOK
  <1>6. TransactionInv'
    BY <1>1, <1>3, MigrationAssumption DEF MigrationInv, TransactionInv
  <1>7. TodoInv' /\ ReturnMeansMigrated'
    BY <1>1, <1>3, <1>4 DEF MigrationInv, TodoInv, ReturnMeansMigrated, Beyond
  <1>8. SchemaIsRecorded' /\ BackupIsPast'
    BY DEF MigrationInv, SchemaIsRecorded, BackupIsPast, Consistent
  <1> QED
    BY <1>5, <1>6, <1>7, <1>8 DEF MigrationInv

\* A step of p inside its transaction that does not end it.
LEMMA InsideStep ==
    ASSUME MigrationInv, NEW p \in Proc,
           UNCHANGED <<dir, db, bak, faults>>,
           lock \in {Nil, p}, lock' = p, work' \in Database,
           proc[p].pc # "idle",
           NEW pc \in {"record", "commit"}, Goto(p, pc),
           work'.schema = Append(db.schema, NextFile(p)),
           pc = "record" => work'.rows = db.rows,
           pc = "commit" => work'.rows = db.rows \cup {NextFile(p)} /\ ~Applied(NextFile(p))
    PROVE  MigrationInv'
  <1>1. proc'[p] = [proc[p] EXCEPT !.pc = pc] /\ \A q \in Proc : q # p => proc'[q] = proc[q]
    BY DEF Goto, MigrationInv, MigrationTypeOK
  <1>2. proc[p] \in MigrateState /\ proc' \in [Proc -> MigrateState]
    BY DEF Goto, MigrationInv, MigrationTypeOK, MigrateState
  <1>3. proc'[p].pc = pc /\ proc'[p].todo = proc[p].todo
        /\ proc'[p].target = proc[p].target /\ proc'[p].result = proc[p].result
    BY <1>1, <1>2 DEF MigrateState
  <1>4. \A q \in Proc : /\ NextFile(q)' = NextFile(q)
                        /\ (Applied(NextFile(q)))' = Applied(NextFile(q))
    <2>1. \A q \in Proc : proc'[q].todo = proc[q].todo
      BY <1>1, <1>3
    <2>2. \A q \in Proc : Position(q)' = Position(q)
      BY <2>1 DEF Position
    <2> QED
      BY <2>2 DEF NextFile, Applied
  <1>5. MigrationTypeOK'
    BY <1>2 DEF MigrationInv, MigrationTypeOK
  <1>6. TransactionInv'
    <2>1. ASSUME NEW q \in Proc, q # p PROVE lock' # q /\ proc'[q].pc \notin {"record", "commit"}
      BY <2>1, <1>1, MigrationAssumption DEF MigrationInv, TransactionInv
    <2> QED
      BY <2>1, <1>3, <1>4 DEF TransactionInv
  <1>7. TodoInv'
    BY <1>1, <1>3 DEF MigrationInv, TodoInv, Beyond
  <1>8. ReturnMeansMigrated'
    <2>1. proc'[p].result # "returned"
      BY <1>3, MigrationAssumption DEF MigrationInv, TodoInv
    <2> QED
      BY <2>1, <1>1 DEF MigrationInv, ReturnMeansMigrated, Beyond
  <1>9. SchemaIsRecorded' /\ BackupIsPast'
    BY DEF MigrationInv, SchemaIsRecorded, BackupIsPast, Consistent
  <1> QED
    BY <1>5, <1>6, <1>7, <1>8, <1>9 DEF MigrationInv

\* The script of a file runs inside the transaction.
LEMMA ScriptStep ==
    ASSUME MigrationInv, NEW p \in Proc, Script(p)
    PROVE  MigrationInv'
  <1>1. NextFile(p) \in File
    BY PositionIsFirst DEF Script
  <1>2. db \in Database
    BY DEF MigrationInv, MigrationTypeOK
  <1>3. work'.schema = Append(db.schema, NextFile(p)) /\ work'.rows = db.rows
    BY <1>2 DEF Script, Database
  <1>4. Append(db.schema, NextFile(p)) \in Seq(File)
    BY <1>1, <1>2 DEF Database
  <1>5. work' \in Database
    BY <1>2, <1>4 DEF Script, Database
  <1> QED
    BY <1>3, <1>5, InsideStep DEF Script

\* The row of a file is inserted inside the transaction.
LEMMA RecordStep ==
    ASSUME MigrationInv, NEW p \in Proc, Record(p)
    PROVE  MigrationInv'
  <1>1. NextFile(p) \in File
    BY PositionIsFirst DEF Record
  <1>2. work \in Database /\ lock = p /\ work.rows = db.rows
        /\ work.schema = Append(db.schema, NextFile(p))
    BY DEF Record, MigrationInv, MigrationTypeOK, TransactionInv
  <1>3. work' \in Database /\ work'.schema = work.schema
        /\ work'.rows = db.rows \cup {NextFile(p)}
    BY <1>1, <1>2 DEF Record, Database
  <1> QED
    BY <1>2, <1>3, InsideStep DEF Record

\* COMMIT adds the script and its row together.
LEMMA CommitStep ==
    ASSUME MigrationInv, NEW p \in Proc, Commit(p)
    PROVE  MigrationInv'
  <1> DEFINE f == NextFile(p)
             rest == proc[p].todo \ {Position(p)}
  <1>1. /\ Position(p) \in proc[p].todo /\ f \in File
        /\ f = dir[p][Position(p)] /\ Position(p) \in DOMAIN dir[p]
    BY PositionIsFirst DEF Commit, NextFile
  <1>2. /\ lock = p /\ db \in Database /\ db' = work /\ work \in Database
        /\ db'.schema = Append(db.schema, f) /\ db'.rows = db.rows \cup {f}
        /\ \A r \in db.rows : r.version # f.version
    BY DEF Commit, MigrationInv, MigrationTypeOK, TransactionInv, Applied
  <1>3. proc'[p] = [proc[p] EXCEPT !.pc = IF rest = {} THEN "idle" ELSE "script",
                                   !.todo = rest,
                                   !.result = IF rest = {} THEN "returned" ELSE Nil]
        /\ \A q \in Proc : q # p => proc'[q] = proc[q]
    BY DEF Commit, MigrationInv, MigrationTypeOK
  <1>4. proc[p] \in MigrateState /\ proc' \in [Proc -> MigrateState]
    <2>1. proc[p] \in MigrateState
      BY DEF MigrationInv, MigrationTypeOK
    <2>2. proc'[p] \in MigrateState
      BY <2>1, <1>3 DEF MigrateState
    <2> QED
      BY <2>1, <2>2 DEF Commit, MigrationInv, MigrationTypeOK
  <1>5. /\ proc'[p].pc = IF rest = {} THEN "idle" ELSE "script"
        /\ proc'[p].todo = rest /\ proc'[p].target = proc[p].target
        /\ proc'[p].result = IF rest = {} THEN "returned" ELSE Nil
    BY <1>3, <1>4 DEF MigrateState
  <1>6. db.schema \in Seq(File) /\ Len(db.schema) \in Nat
        /\ Len(db'.schema) = Len(db.schema) + 1
        /\ db'.schema[Len(db.schema) + 1] = f
        /\ \A i \in DOMAIN db.schema : db'.schema[i] = db.schema[i]
        /\ DOMAIN db.schema = 1 .. Len(db.schema)
        /\ DOMAIN db'.schema = 1 .. Len(db.schema) + 1
    BY <1>1, <1>2 DEF Database
  <1> HIDE DEF f, rest
  <1>7. MigrationTypeOK'
    BY <1>4 DEF Commit, MigrationInv, MigrationTypeOK
  <1>8. TransactionInv'
    <2>1. lock' = Nil /\ dir' = dir
      BY DEF Commit
    <2>2. \A q \in Proc : proc'[q].pc \notin {"record", "commit"}
      BY <1>2, <1>3, <1>5 DEF MigrationInv, TransactionInv
    <2> QED
      BY <2>1, <2>2, MigrationAssumption DEF TransactionInv
  <1>9. SchemaIsRecorded'
    <2>1. db.rows = {db.schema[i] : i \in DOMAIN db.schema}
      BY DEF MigrationInv, SchemaIsRecorded, Consistent
    <2>2. db'.rows = {db'.schema[i] : i \in DOMAIN db'.schema}
      BY <2>1, <1>2, <1>6
    <2>3. \A i \in DOMAIN db.schema : db.schema[i].version # f.version
      BY <2>1, <1>2
    <2>4. \A i, k \in DOMAIN db'.schema : db'.schema[i].version = db'.schema[k].version => i = k
      BY <2>3, <1>6 DEF MigrationInv, SchemaIsRecorded, Consistent
    <2> QED
      BY <2>2, <2>4 DEF SchemaIsRecorded, Consistent
  <1>10. BackupIsPast'
    <2>1. bak' = bak
      BY DEF Commit
    <2>2. SUFFICES ASSUME bak # Nil PROVE BackupIsPast'
      BY <2>1 DEF BackupIsPast
    <2>3. bak \in Database /\ Len(bak.schema) \in Nat /\ DOMAIN bak.schema = 1 .. Len(bak.schema)
      BY <2>2 DEF MigrationInv, MigrationTypeOK, Database
    <2>4. /\ Consistent(bak) /\ Len(bak.schema) <= Len(db.schema)
          /\ \A i \in DOMAIN bak.schema : bak.schema[i] = db.schema[i]
      BY <2>2 DEF MigrationInv, BackupIsPast
    <2>5. /\ Len(bak.schema) <= Len(db'.schema)
          /\ \A i \in DOMAIN bak.schema : bak.schema[i] = db'.schema[i]
      BY <2>3, <2>4, <1>6
    <2> QED
      BY <2>1, <2>4, <2>5 DEF BackupIsPast, Consistent
  <1>11. ASSUME NEW i \in DOMAIN dir[p] \ rest,
                \/ \E k \in rest : i < k
                \/ \A k \in 1 .. i : ~Beyond(dir[p][k], proc[p].target)
         PROVE  dir[p][i] \in db'.rows
    <2>1. CASE i = Position(p)
      BY <2>1, <1>1, <1>2
    <2>2. CASE i # Position(p)
      BY <2>2, <1>2, <1>11 DEF Commit, MigrationInv, TodoInv, rest
    <2> QED
      BY <2>1, <2>2
  <1>12. dir' = dir /\ rest \subseteq DOMAIN dir[p] /\ proc[p].todo \subseteq DOMAIN dir[p]
    BY DEF Commit, MigrationInv, TodoInv, rest
  <1>13. TodoInv'
    <2>1. ASSUME NEW q \in Proc, q # p PROVE TodoInv!(q)'
      BY <2>1, <1>2, <1>3, <1>12 DEF MigrationInv, TodoInv, Beyond
    <2>2. TodoInv!(p)'
      BY <1>5, <1>11, <1>12 DEF Beyond
    <2> QED
      BY <2>1, <2>2 DEF TodoInv
  <1>14. ReturnMeansMigrated'
    <2>1. ASSUME NEW q \in Proc, q # p PROVE ReturnMeansMigrated!(q)'
      BY <2>1, <1>2, <1>3, <1>12 DEF MigrationInv, ReturnMeansMigrated, Beyond
    <2>2. ReturnMeansMigrated!(p)'
      BY <1>5, <1>11, <1>12, MigrationAssumption DEF Beyond
    <2> QED
      BY <2>1, <2>2 DEF ReturnMeansMigrated
  <1> QED
    BY <1>7, <1>8, <1>9, <1>10, <1>13, <1>14 DEF MigrationInv

\* Every step of every process keeps the invariant.
LEMMA MigrationStep == MigrationInv /\ [MigrationNext]_migrationVars => MigrationInv'
  <1> SUFFICES ASSUME MigrationInv, [MigrationNext]_migrationVars PROVE MigrationInv'
    OBVIOUS
  <1>0. faults \in Nat /\ MaxFaults \in Nat
    BY MigrationAssumption DEF MigrationInv, MigrationTypeOK
  <1>1. CASE UNCHANGED migrationVars
    <2>1. MigrationTypeOK' /\ SchemaIsRecorded' /\ BackupIsPast'
      BY <1>1 DEF migrationVars, MigrationInv, MigrationTypeOK, SchemaIsRecorded, BackupIsPast,
          Consistent
    <2>2. TodoInv' /\ ReturnMeansMigrated'
      BY <1>1 DEF migrationVars, MigrationInv, TodoInv, ReturnMeansMigrated, Beyond
    <2>3. \A q \in Proc : /\ NextFile(q)' = NextFile(q)
                          /\ (Applied(NextFile(q)))' = Applied(NextFile(q))
      BY <1>1 DEF migrationVars, NextFile, Position, Applied
    <2>4. TransactionInv'
      BY <1>1, <2>3 DEF migrationVars, MigrationInv, TransactionInv
    <2> QED
      BY <2>1, <2>2, <2>4 DEF MigrationInv
  <1>2. CASE MigrationNext
    <2> PICK p \in Proc :
            \/ \E t \in Target, backup \in BOOLEAN : Call(p, t, backup)
            \/ Step(p) \/ Script(p)
            \/ BackupFails(p) \/ Crash(p)
      BY <1>2 DEF MigrationNext
    <2>1. CASE \E t \in Target, backup \in BOOLEAN : Call(p, t, backup)
      BY <2>1, CallStep
    <2>2. CASE Unlink(p) \/ Copy(p)
      BY <2>2, BackupStep
    <2>3. CASE Script(p)
      BY <2>3, ScriptStep
    <2>4. CASE Record(p)
      BY <2>4, RecordStep
    <2>5. CASE Commit(p)
      BY <2>5, CommitStep
    <2>6. CASE RecordFails(p)
      <3>1. lock = p
        BY <2>6 DEF RecordFails, MigrationInv, TransactionInv
      <3> QED
        BY <2>6, <3>1, <1>0, RollbackStep DEF RecordFails
    <2>7. CASE ScriptFails(p) \/ Busy(p) \/ BackupFails(p)
      <3>1. lock # p
        BY <2>7 DEF ScriptFails, Busy, BackupFails, MigrationInv, TransactionInv
      <3> QED
        BY <2>7, <3>1, <1>0, EndStep DEF ScriptFails, Busy, BackupFails
    <2>8. CASE Crash(p)
      <3>1. CASE lock = p
        BY <2>8, <3>1, <1>0, RollbackStep DEF Crash
      <3>2. CASE lock # p
        BY <2>8, <3>2, <1>0, EndStep DEF Crash
      <3> QED
        BY <3>1, <3>2
    <2> QED
      BY <2>1, <2>2, <2>3, <2>4, <2>5, <2>6, <2>7, <2>8 DEF Step
  <1> QED
    BY <1>1, <1>2

\* The invariant of migrate() is inductive.
THEOREM MigrationInvariance == MigrationSpec => []MigrationInv
  BY MigrationInitial, MigrationStep, PTL DEF MigrationSpec

\* The committed schema is the one that schema_migrations records, whichever
\* processes call migrate() and wherever they die.
THEOREM SchemaRecorded == MigrationSpec => []SchemaIsRecorded
  <1>1. MigrationInv => SchemaIsRecorded
    BY DEF MigrationInv
  <1> QED
    BY <1>1, MigrationInvariance, PTL

\* The file backup_database writes is the database between two migrations.
THEOREM BackupsAreStates == MigrationSpec => []BackupIsPast
  <1>1. MigrationInv => BackupIsPast
    BY DEF MigrationInv
  <1> QED
    BY <1>1, MigrationInvariance, PTL

\* A call of migrate() that returns has applied its files up to the target.
THEOREM ReturnsAreMigrated == MigrationSpec => []ReturnMeansMigrated
  <1>1. MigrationInv => ReturnMeansMigrated
    BY DEF MigrationInv
  <1> QED
    BY <1>1, MigrationInvariance, PTL

\* A file is committed only after all earlier files of its directory.
THEOREM FilesAppliedInOrder == MigrationSpec => FilesInOrder
  <1>1. ASSUME MigrationInv, NEW p \in Proc, Commit(p), NEW i \in 1 .. Position(p)
        PROVE  dir[p][i] \in db'.rows
    <2>1. /\ Position(p) \in proc[p].todo
          /\ \A k \in proc[p].todo : Position(p) <= k
          /\ Position(p) \in DOMAIN dir[p]
      BY <1>1, PositionIsFirst DEF Commit
    <2>2. db'.rows = db.rows \cup {dir[p][Position(p)]}
      BY <1>1 DEF Commit, MigrationInv, TransactionInv, NextFile
    <2>3. dir[p] \in Seq(File)
      BY <1>1, MigrationAssumption DEF MigrationInv, MigrationTypeOK
    <2>4. CASE i = Position(p)
      BY <2>2, <2>4
    <2>5. CASE i # Position(p)
      <3>1. i < Position(p) /\ i \in DOMAIN dir[p]
        BY <2>1, <2>3, <2>5
      <3>2. i \notin proc[p].todo
        BY <2>1, <2>3, <3>1
      <3> QED
        BY <1>1, <2>1, <2>2, <3>1, <3>2 DEF Commit, MigrationInv, TodoInv
    <2> QED
      BY <2>4, <2>5
  <1>2. MigrationInv /\ [MigrationNext]_migrationVars =>
        [\A p \in Proc : Commit(p) =>
            \A i \in 1 .. Position(p) : dir[p][i] \in db'.rows]_migrationVars
    BY <1>1
  <1> QED
    BY <1>2, MigrationInvariance, PTL DEF MigrationSpec, FilesInOrder

=============================================================================
