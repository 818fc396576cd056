---------------------------- MODULE ArtifactStore ----------------------------
(***************************************************************************)
(* The content-addressed store of storage/artifacts.py: a tree of files    *)
(* named by digest, and the table artifacts.  put_stream, the registration *)
(* that follows it and garbage_collect run in different processes with no  *)
(* lock between files and table: every rename, unlink and SQL statement is *)
(* a step of its own (the connections are in autocommit mode).             *)
(*                                                                         *)
(* Bytes are their digest.  Temporary files are private to a put and not   *)
(* part of the state.  dry_run and open_verified only read.                *)
(***************************************************************************)
EXTENDS Naturals

CONSTANTS
    Digest,             \* SHA-256 digests, ordered (ORDER BY digest)
    Worker,             \* callers that store the evidence of an attempt
    Importer,           \* callers of put_stream with a policy and a retention
    ImportPolicy,       \* the access policies and
    Retention,          \* the retention times an importer asks for
    MaxTime,            \* bound on the clock
    MaxCrashes,         \* bound on the crashes of the collector
    Nil

Writer == Worker \cup Importer
Policy == {"public", "restricted", "sealed"}

ASSUME StoreAssumption ==
    /\ Digest \subseteq Nat
    /\ ImportPolicy \subseteq Policy
    /\ Retention \subseteq Nat
    /\ Worker \cap Importer = {}
    /\ MaxTime \in Nat /\ MaxCrashes \in Nat
    /\ Nil \notin Nat
    /\ Nil \notin [policy : Policy, retention : Retention \cup {Nil}, available : BOOLEAN]

VARIABLES
    files,              \* the digests under root/sha256
    rows,               \* the table artifacts
    refs,               \* the digests named by committed attempts
    writer,             \* a put of each writer, and its evidence_digests
    gc,                 \* a garbage_collect under way
    clock,              \* datetime.now
    crashes

storeVars == <<files, rows, refs, writer, gc, clock, crashes>>

Row == [policy : Policy, retention : Retention \cup {Nil}, available : BOOLEAN]

WriterState ==
    [pc : {"idle", "writing", "stored"},
     digest : Digest \cup {Nil},
     policy : Policy,
     retention : Retention \cup {Nil},
     evidence : SUBSET Digest]

CollectorState ==
    [pc : {"idle", "purging", "unlinked"},
     todo : SUBSET Digest,
     digest : Digest \cup {Nil}]

IdleWriter ==
    [pc |-> "idle", digest |-> Nil, policy |-> "restricted", retention |-> Nil,
     evidence |-> {}]

IdleCollector == [pc |-> "idle", todo |-> {}, digest |-> Nil]

\* Rows garbage_collect may purge, and those whose time has come.
Purgeable(row) == row.policy # "sealed" /\ row.retention # Nil

\* ret_dt <= now_utc, for a row that exists.
Expired(d) ==
    /\ rows[d] # Nil
    /\ Purgeable(rows[d])
    /\ rows[d].retention <= clock

-----------------------------------------------------------------------------
(* put_stream and register_artifact *)

BeginPut(w, d, policy, retention) ==
    /\ writer[w].pc = "idle"
    /\ writer' = [writer EXCEPT ![w] =
          [pc |-> "writing", digest |-> d, policy |-> policy, retention |-> retention,
           evidence |-> @.evidence]]
    /\ UNCHANGED <<files, rows, refs, gc, clock, crashes>>

\* The worker stores every output as restricted, without a retention.
StoreOutput(w, d) == w \in Worker /\ BeginPut(w, d, "restricted", Nil)

ImportArtifact(w, d, policy, retention) ==
    w \in Importer /\ BeginPut(w, d, policy, retention)

\* os.replace: the bytes appear at once and replace what was there.
Replace(w) ==
    /\ writer[w].pc = "writing"
    /\ files' = files \cup {writer[w].digest}
    /\ writer' = [writer EXCEPT ![w].pc = "stored"]
    /\ UNCHANGED <<rows, refs, gc, clock, crashes>>

\* The worker goes on to its next output; an importer keeps nothing.
Registered(w) ==
    IF w \in Worker
    THEN [IdleWriter EXCEPT !.evidence = writer[w].evidence \cup {writer[w].digest}]
    ELSE IdleWriter

\* INSERT ... ON CONFLICT(digest) DO UPDATE SET available = 1.  The UPDATE names
\* no other column: artifacts_no_core_update would abort it.
Register(w) ==
    /\ writer[w].pc = "stored"
    /\ rows' = [rows EXCEPT ![writer[w].digest] =
          IF @ = Nil
          THEN [policy |-> writer[w].policy, retention |-> writer[w].retention,
                available |-> TRUE]
          ELSE [@ EXCEPT !.available = TRUE]]
    /\ writer' = [writer EXCEPT ![w] = Registered(w)]
    /\ UNCHANGED <<files, refs, gc, clock, crashes>>

\* Mutant: a failed put is passed over and the artifact registered.
AbortIgnored(w) ==
    /\ writer[w].pc = "writing"
    /\ writer' = [writer EXCEPT ![w].pc = "stored"]
    /\ UNCHANGED <<files, rows, refs, gc, clock, crashes>>

\* The limit exceeded, a link at the target, an I/O error, a busy database, a
\* lost lease or a crash: the run of the writer ends, and what it has stored stays.
Abort(w) ==
    /\ writer[w] # IdleWriter
    /\ writer' = [writer EXCEPT ![w] = IdleWriter]
    /\ UNCHANGED <<files, rows, refs, gc, clock, crashes>>

\* complete() commits an attempt that names the digests; they reference rows.
Commit(w) ==
    /\ w \in Worker
    /\ writer[w].pc = "idle" /\ writer[w].evidence # {}
    /\ \A d \in writer[w].evidence : rows[d] # Nil
    /\ refs' = refs \cup writer[w].evidence
    /\ writer' = [writer EXCEPT ![w] = IdleWriter]
    /\ UNCHANGED <<files, rows, gc, clock, crashes>>

-----------------------------------------------------------------------------
(* garbage_collect *)

\* Mutant: the retention is not compared with the time.
SelectAnyTime ==
    /\ gc.pc = "idle"
    /\ gc' = [pc |-> "purging",
              todo |-> {d \in Digest : /\ rows[d] # Nil
                                       /\ Purgeable(rows[d]) /\ rows[d].available},
              digest |-> Nil]
    /\ UNCHANGED <<files, rows, refs, writer, clock, crashes>>

\* The SELECT.  The rows read and the argument now are fixed for the whole
\* loop, so the loop's comparison of the two is made here.
Select ==
    /\ gc.pc = "idle"
    /\ gc' = [pc |-> "purging",
              todo |-> {d \in Digest : Expired(d) /\ rows[d].available},
              digest |-> Nil]
    /\ UNCHANGED <<files, rows, refs, writer, clock, crashes>>

First(d) == d \in gc.todo /\ \A e \in gc.todo : d <= e

\* Mutant: the row is only touched when there was a file to unlink.
UnlinkFound(d) ==
    /\ gc.pc = "purging" /\ First(d)
    /\ files' = files \ {d}
    /\ gc' = IF d \in files THEN [gc EXCEPT !.pc = "unlinked", !.digest = d]
             ELSE [gc EXCEPT !.todo = @ \ {d}]
    /\ UNCHANGED <<rows, refs, writer, clock, crashes>>

\* unlink, if the file exists; an OSError is passed over.
Unlink(d) ==
    /\ gc.pc = "purging" /\ First(d)
    /\ files' \in {files \ {d}, files}
    /\ gc' = [gc EXCEPT !.pc = "unlinked", !.digest = d]
    /\ UNCHANGED <<rows, refs, writer, clock, crashes>>

\* UPDATE artifacts SET available = 0 WHERE digest = ?
Clear ==
    /\ gc.pc = "unlinked"
    /\ rows' = [rows EXCEPT ![gc.digest].available = FALSE]
    /\ gc' = [gc EXCEPT !.pc = "purging", !.todo = @ \ {gc.digest}, !.digest = Nil]
    /\ UNCHANGED <<files, refs, writer, clock, crashes>>

Return ==
    /\ gc.pc = "purging" /\ gc.todo = {}
    /\ gc' = IdleCollector
    /\ UNCHANGED <<files, rows, refs, writer, clock, crashes>>

\* The collector dies, or its UPDATE fails.
CollectorCrash ==
    /\ gc.pc # "idle" /\ crashes < MaxCrashes
    /\ gc' = IdleCollector
    /\ crashes' = crashes + 1
    /\ UNCHANGED <<files, rows, refs, writer, clock>>

-----------------------------------------------------------------------------
TimePasses ==
    /\ clock < MaxTime
    /\ clock' = clock + 1
    /\ UNCHANGED <<files, rows, refs, writer, gc, crashes>>

StoreInit ==
    /\ files = {}
    /\ rows = [d \in Digest |-> Nil]
    /\ refs = {}
    /\ writer = [w \in Writer |-> IdleWriter]
    /\ gc = IdleCollector
    /\ clock = 0
    /\ crashes = 0

Put(w) ==
    \/ \E d \in Digest : StoreOutput(w, d)
    \/ \E d \in Digest, policy \in ImportPolicy, retention \in Retention \cup {Nil} :
          ImportArtifact(w, d, policy, retention)
    \/ Replace(w)
    \/ Register(w)
    \/ Abort(w)
    \/ Commit(w)

Collect == Select \/ (\E d \in Digest : Unlink(d)) \/ Clear \/ Return

StoreNext == (\E w \in Writer : Put(w)) \/ Collect \/ CollectorCrash \/ TimePasses

StoreSpec == StoreInit /\ [][StoreNext]_storeVars

\* The controller calls garbage_collect again and again.  Nothing is assumed
\* of the writers.
FairStore == StoreSpec /\ WF_storeVars(Collect)

-----------------------------------------------------------------------------
(* Properties *)

StoreTypeOK ==
    /\ files \subseteq Digest
    /\ rows \in [Digest -> Row \cup {Nil}]
    /\ refs \subseteq Digest
    /\ writer \in [Writer -> WriterState]
    /\ gc \in CollectorState
    /\ clock \in Nat
    /\ crashes \in Nat

\* garbage_collect deletes only bytes whose row, at that moment, is due; a file
\* that no row knows yet is never deleted under the put that brought it.
PurgeOnlyExpired ==
    [][\A d \in files : d \notin files' => Expired(d)]_storeVars

\* An artifact that is sealed, kept without a limit or not yet due is available
\* and its bytes are on disk, however puts of the same digest, purges and crashes
\* interleave.
LiveArtifactsAreStored ==
    \A d \in Digest :
        rows[d] # Nil /\ ~Expired(d) => rows[d].available /\ d \in files

\* What is live is stored, and the digests of committed attempts have rows.
\* A put that has renamed its file finds it there when it registers, unless
\* the row it then finds is due; the collector only works on rows that are due.
StoreInv ==
    /\ StoreTypeOK
    /\ LiveArtifactsAreStored
    /\ \A w \in Writer :
          /\ writer[w].pc # "idle" => writer[w].digest \in Digest
          /\ writer[w].pc = "stored" /\ rows[writer[w].digest] = Nil =>
                writer[w].digest \in files
    /\ gc.pc # "unlinked" => gc.digest = Nil
    /\ gc.pc = "unlinked" => gc.digest \in gc.todo
    /\ \A d \in gc.todo : Expired(d)
    /\ \A d \in refs : rows[d] # Nil

\* garbage_collect, called again and again, makes every artifact that is due
\* unavailable, although a put may revive it and a purge may die between the
\* unlink and the UPDATE.
ExpiredIsPurged ==
    \A d \in Digest : Expired(d) ~> (Expired(d) /\ ~rows[d].available)

\* Artifact.retention_until: "Earliest permitted deletion time, null for
\* retained evidence".  The worker stores evidence with no retention; once an
\* attempt names it, it stays.
EvidenceIsRetained == refs \subseteq files

=============================================================================
