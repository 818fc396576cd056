----------------------------- MODULE StoreProofs -----------------------------
(***************************************************************************)
(* The artifact store keeps what is not due, for any digests, writers,     *)
(* retention times and numbers of crashes.  The argument: policy and       *)
(* retention of a row never change, so what garbage_collect has selected   *)
(* stays due, and a put that finds no row still finds its file.            *)
(*                                                                         *)
(* collect_outputs keeps its limits and leaves nothing out, for any paths, *)
(* sizes and limits.  The argument: the running total bounds what files    *)
(* that only grow can add up to, from both sides.                          *)
(***************************************************************************)
EXTENDS ArtifactStore, OutputCollector, FiniteSetTheorems, TLAPS

\* BeginPut starts from a request that has the types of put_stream.
LEMMA BeginPutTyped ==
    ASSUME StoreInv, NEW w \in Writer, NEW d \in Digest, NEW p \in Policy,
           NEW r \in Retention \cup {Nil}, BeginPut(w, d, p, r)
    PROVE  StoreInv'
  <1>1. writer'[w] = [pc |-> "writing", digest |-> d, policy |-> p, retention |-> r,
                      evidence |-> writer[w].evidence]
    BY DEF BeginPut, StoreInv, StoreTypeOK
  <1>2. \A v \in Writer : v # w => writer'[v] = writer[v]
    BY DEF BeginPut, StoreInv, StoreTypeOK
  <1>3. StoreTypeOK'
    <2>1. writer[w].evidence \in SUBSET Digest
      BY DEF StoreInv, StoreTypeOK, WriterState
    <2>2. writer'[w] \in WriterState
      BY <1>1, <2>1 DEF WriterState
    <2>3. writer' \in [Writer -> WriterState]
      BY <2>2 DEF BeginPut, StoreInv, StoreTypeOK
    <2> QED
      BY <2>3 DEF BeginPut, StoreInv, StoreTypeOK
  <1> QED
    BY <1>1, <1>2, <1>3 DEF BeginPut, StoreInv, LiveArtifactsAreStored, Expired

\* The invariant holds of an empty store.
LEMMA StoreInitial == StoreInit => StoreInv
  <1> SUFFICES ASSUME StoreInit PROVE StoreInv
    OBVIOUS
  <1>1. IdleWriter \in WriterState
    BY DEF IdleWriter, WriterState, Policy
  <1>2. IdleCollector \in CollectorState
    BY DEF IdleCollector, CollectorState
  <1>3. StoreTypeOK
    BY <1>1, <1>2 DEF StoreInit, StoreTypeOK
  <1> QED
    BY <1>3 DEF StoreInit, StoreInv, LiveArtifactsAreStored, IdleWriter, IdleCollector

\* os.replace brings the bytes of the put and takes none away.
LEMMA ReplaceStep ==
    ASSUME StoreInv, NEW w \in Writer, Replace(w)
    PROVE  StoreInv'
  <1>1. writer'[w] = [writer[w] EXCEPT !.pc = "stored"]
    BY DEF Replace, StoreInv, StoreTypeOK
  <1>2. \A v \in Writer : v # w => writer'[v] = writer[v]
    BY DEF Replace, StoreInv, StoreTypeOK
  <1>3. writer[w] \in WriterState /\ writer[w].digest \in Digest
    BY DEF Replace, StoreInv, StoreTypeOK
  <1>4. writer'[w] \in WriterState /\ writer'[w].digest = writer[w].digest
    BY <1>1, <1>3 DEF WriterState
  <1>5. writer' \in [Writer -> WriterState]
    BY <1>4 DEF Replace, StoreInv, StoreTypeOK
  <1>6. files' \subseteq Digest
    BY <1>3 DEF Replace, StoreInv, StoreTypeOK
  <1>7. StoreTypeOK'
    BY <1>5, <1>6 DEF Replace, StoreInv, StoreTypeOK
  <1>8. files \subseteq files' /\ writer[w].digest \in files'
    BY DEF Replace
  <1>9. \A v \in Writer :
          /\ writer'[v].pc # "idle" => writer'[v].digest \in Digest
          /\ writer'[v].pc = "stored" /\ rows[writer'[v].digest] = Nil =>
                writer'[v].digest \in files'
    BY <1>2, <1>3, <1>4, <1>8 DEF StoreInv
  <1> QED
    BY <1>7, <1>8, <1>9 DEF Replace, StoreInv, LiveArtifactsAreStored, Expired

\* Registration inserts a row beside its file, or makes a row available whose
\* policy and retention it leaves alone.
LEMMA RegisterStep ==
    ASSUME StoreInv, NEW w \in Writer, Register(w)
    PROVE  StoreInv'
  <1> DEFINE d == writer[w].digest
             new == [policy |-> writer[w].policy, retention |-> writer[w].retention,
                     available |-> TRUE]
  <1>1. /\ writer[w] \in WriterState /\ d \in Digest
        /\ rows[d] = Nil => d \in files
    BY DEF Register, StoreInv, StoreTypeOK
  <1>2. new \in Row
    BY <1>1 DEF WriterState, Row
  <1>3. rows'[d] = IF rows[d] = Nil THEN new ELSE [rows[d] EXCEPT !.available = TRUE]
    BY <1>1 DEF Register, StoreInv, StoreTypeOK
  <1>4. \A e \in Digest : e # d => rows'[e] = rows[e]
    BY <1>1 DEF Register, StoreInv, StoreTypeOK
  <1>5. rows[d] # Nil => rows[d] \in Row
    BY <1>1 DEF StoreInv, StoreTypeOK
  <1>6. /\ rows'[d] \in Row /\ rows'[d].available
        /\ rows[d] # Nil => /\ rows'[d].policy = rows[d].policy
                            /\ rows'[d].retention = rows[d].retention
    BY <1>2, <1>3, <1>5 DEF Row
  <1>7. rows'[d] # Nil
    BY <1>6, StoreAssumption DEF Row
  <1>8. rows' \in [Digest -> Row \cup {Nil}]
    BY <1>1, <1>6 DEF Register, StoreInv, StoreTypeOK
  <1>9. \A e \in Digest : rows[e] # Nil => rows'[e] # Nil /\ (Expired(e)' <=> Expired(e))
    BY <1>4, <1>6, <1>7 DEF Expired, Purgeable, Register
  <1>10. writer'[w] \in WriterState /\ writer'[w].pc = "idle"
    <2>1. IdleWriter \in WriterState
      BY DEF IdleWriter, WriterState, Policy
    <2>2. writer[w].evidence \cup {d} \in SUBSET Digest
      BY <1>1 DEF WriterState
    <2>3. Registered(w) \in WriterState /\ Registered(w).pc = "idle"
      BY <2>1, <2>2 DEF Registered, WriterState, IdleWriter
    <2> QED
      BY <2>3 DEF Register, StoreInv, StoreTypeOK
  <1>11. \A v \in Writer : v # w => writer'[v] = writer[v]
    BY DEF Register, StoreInv, StoreTypeOK
  <1>12. writer' \in [Writer -> WriterState]
    BY <1>10 DEF Register, StoreInv, StoreTypeOK
  <1>13. StoreTypeOK'
    BY <1>8, <1>12 DEF Register, StoreInv, StoreTypeOK
  <1>14. LiveArtifactsAreStored'
    <2> SUFFICES ASSUME NEW e \in Digest, rows'[e] # Nil, ~Expired(e)'
                 PROVE  rows'[e].available /\ e \in files'
      BY DEF LiveArtifactsAreStored
    <2>1. CASE e # d
      BY <2>1, <1>4, <1>9 DEF Register, StoreInv, LiveArtifactsAreStored
    <2>2. CASE e = d
      BY <2>2, <1>1, <1>6, <1>9 DEF Register, StoreInv, LiveArtifactsAreStored
    <2> QED
      BY <2>1, <2>2
  <1>15. \A v \in Writer :
          /\ writer'[v].pc # "idle" => writer'[v].digest \in Digest
          /\ writer'[v].pc = "stored" /\ rows'[writer'[v].digest] = Nil =>
                writer'[v].digest \in files'
    BY <1>9, <1>10, <1>11 DEF Register, StoreInv
  <1>16. \A e \in gc'.todo : Expired(e)'
    BY <1>9 DEF Register, StoreInv, StoreTypeOK, Expired, CollectorState
  <1>17. \A e \in refs' : rows'[e] # Nil
    BY <1>9 DEF Register, StoreInv, StoreTypeOK
  <1> QED
    BY <1>13, <1>14, <1>15, <1>16, <1>17 DEF Register, StoreInv

\* A put that ends, by failure or by the commit of its attempt, leaves files
\* and rows as they are.
LEMMA EndStep ==
    ASSUME StoreInv, NEW w \in Writer, Abort(w) \/ Commit(w)
    PROVE  StoreInv'
  <1>1. IdleWriter \in WriterState /\ IdleWriter.pc = "idle"
    BY DEF IdleWriter, WriterState, Policy
  <1>2. writer' = [writer EXCEPT ![w] = IdleWriter]
    BY DEF Abort, Commit
  <1>3. writer' \in [Writer -> WriterState]
    BY <1>1, <1>2 DEF StoreInv, StoreTypeOK
  <1>4. \A v \in Writer : writer'[v] = IdleWriter \/ writer'[v] = writer[v]
    BY <1>2 DEF StoreInv, StoreTypeOK
  <1>5. UNCHANGED <<files, rows, gc, clock, crashes>>
    BY DEF Abort, Commit
  <1>6. refs' \subseteq Digest /\ \A d \in refs' : rows[d] # Nil
    <2>1. writer[w].evidence \subseteq Digest
      BY DEF StoreInv, StoreTypeOK, WriterState
    <2>2. CASE Abort(w)
      BY <2>2 DEF Abort, StoreInv, StoreTypeOK
    <2>3. CASE Commit(w)
      BY <2>1, <2>3 DEF Commit, StoreInv, StoreTypeOK
    <2> QED
      BY <2>2, <2>3
  <1> QED
    BY <1>1, <1>3, <1>4, <1>5, <1>6
    DEF StoreInv, StoreTypeOK, LiveArtifactsAreStored, Expired

\* The SELECT takes rows that are due and leaves everything as it is.
LEMMA SelectStep == ASSUME StoreInv, Select PROVE StoreInv'
  <1>1. /\ gc'.pc = "purging" /\ gc'.digest = Nil
        /\ gc'.todo = {d \in Digest : Expired(d) /\ rows[d].available}
    BY DEF Select
  <1>2. gc' \in CollectorState
    BY DEF Select, CollectorState
  <1>3. UNCHANGED <<files, rows, refs, writer, clock, crashes>>
    BY DEF Select
  <1> QED
    BY <1>1, <1>2, <1>3 DEF StoreInv, StoreTypeOK, LiveArtifactsAreStored, Expired

\* The unlink takes away the file of a row that is due.
LEMMA UnlinkStep == ASSUME StoreInv, NEW d \in Digest, Unlink(d) PROVE StoreInv'
  <1>1. Expired(d) /\ d \in gc.todo
    BY DEF Unlink, First, StoreInv
  <1>2. /\ gc' \in CollectorState /\ gc'.todo = gc.todo
        /\ gc'.pc = "unlinked" /\ gc'.digest = d
    BY DEF Unlink, StoreInv, StoreTypeOK, CollectorState
  <1>3. files' \subseteq files /\ files \ {d} \subseteq files'
    BY DEF Unlink
  <1>4. UNCHANGED <<rows, refs, writer, clock, crashes>>
    BY DEF Unlink
  <1>5. StoreTypeOK'
    BY <1>2, <1>3, <1>4 DEF StoreInv, StoreTypeOK
  <1>6. LiveArtifactsAreStored'
    BY <1>1, <1>3, <1>4 DEF StoreInv, LiveArtifactsAreStored, Expired
  <1>7. \A v \in Writer :
          /\ writer[v].pc # "idle" => writer[v].digest \in Digest
          /\ writer[v].pc = "stored" /\ rows[writer[v].digest] = Nil =>
                writer[v].digest \in files'
    BY <1>1, <1>3 DEF StoreInv, Expired
  <1> QED
    BY <1>1, <1>2, <1>4, <1>5, <1>6, <1>7 DEF StoreInv, Expired

\* The UPDATE touches a row that is due.
LEMMA ClearStep == ASSUME StoreInv, Clear PROVE StoreInv'
  <1> DEFINE d == gc.digest
  <1>1. d \in Digest /\ Expired(d) /\ d \in gc.todo
    BY DEF Clear, StoreInv, StoreTypeOK, CollectorState
  <1>2. rows[d] \in Row
    BY <1>1 DEF StoreInv, StoreTypeOK, Expired
  <1>3. rows'[d] = [rows[d] EXCEPT !.available = FALSE]
    BY <1>1 DEF Clear, StoreInv, StoreTypeOK
  <1>4. /\ rows'[d] \in Row
        /\ rows'[d].policy = rows[d].policy /\ rows'[d].retention = rows[d].retention
    BY <1>2, <1>3 DEF Row
  <1>5. rows'[d] # Nil
    BY <1>4, StoreAssumption DEF Row
  <1>6. \A e \in Digest : e # d => rows'[e] = rows[e]
    BY <1>1 DEF Clear, StoreInv, StoreTypeOK
  <1>7. rows' \in [Digest -> Row \cup {Nil}]
    BY <1>1, <1>4 DEF Clear, StoreInv, StoreTypeOK
  <1>8. \A e \in Digest : /\ (rows'[e] = Nil <=> rows[e] = Nil)
                          /\ (Expired(e)' <=> Expired(e))
    BY <1>1, <1>4, <1>5, <1>6 DEF Expired, Purgeable, Clear
  <1>9. /\ gc' \in CollectorState /\ gc'.todo \subseteq gc.todo
        /\ gc'.pc = "purging" /\ gc'.digest = Nil
    BY DEF Clear, StoreInv, StoreTypeOK, CollectorState
  <1>10. StoreTypeOK'
    BY <1>7, <1>9 DEF Clear, StoreInv, StoreTypeOK
  <1>11. LiveArtifactsAreStored'
    BY <1>1, <1>6, <1>8 DEF Clear, StoreInv, LiveArtifactsAreStored
  <1>12. \A v \in Writer :
          /\ writer'[v].pc # "idle" => writer'[v].digest \in Digest
          /\ writer'[v].pc = "stored" /\ rows'[writer'[v].digest] = Nil =>
                writer'[v].digest \in files'
    BY <1>8 DEF Clear, StoreInv
  <1>13. \A e \in gc'.todo : Expired(e)'
    BY <1>8, <1>9 DEF StoreInv, StoreTypeOK, CollectorState
  <1>14. \A e \in refs' : rows'[e] # Nil
    BY <1>8 DEF Clear, StoreInv, StoreTypeOK
  <1> QED
    BY <1>9, <1>10, <1>11, <1>12, <1>13, <1>14 DEF StoreInv

\* The end or the crash of a purge forgets what was selected.
LEMMA CollectorEnds == ASSUME StoreInv, Return \/ CollectorCrash PROVE StoreInv'
  <1>1. /\ IdleCollector \in CollectorState /\ IdleCollector.pc = "idle"
        /\ IdleCollector.todo = {} /\ IdleCollector.digest = Nil
    BY DEF IdleCollector, CollectorState
  <1>2. gc' = IdleCollector /\ crashes' \in Nat
    BY DEF Return, CollectorCrash, StoreInv, StoreTypeOK
  <1>3. UNCHANGED <<files, rows, refs, writer, clock>>
    BY DEF Return, CollectorCrash
  <1> QED
    BY <1>1, <1>2, <1>3 DEF StoreInv, StoreTypeOK, LiveArtifactsAreStored, Expired

\* What is due stays due as time passes.
LEMMA TimeStep == ASSUME StoreInv, TimePasses PROVE StoreInv'
  <1>1. clock \in Nat /\ clock' = clock + 1
    BY DEF TimePasses, StoreInv, StoreTypeOK
  <1>2. UNCHANGED <<files, rows, refs, writer, gc, crashes>>
    BY DEF TimePasses
  <1>3. \A d \in Digest : Expired(d) => Expired(d)'
    <2> SUFFICES ASSUME NEW d \in Digest, Expired(d) PROVE Expired(d)'
      OBVIOUS
    <2>1. rows[d].retention \in Nat
      BY StoreAssumption DEF Expired, Purgeable, StoreInv, StoreTypeOK, Row
    <2> QED
      BY <1>1, <1>2, <2>1 DEF Expired, Purgeable
  <1>4. StoreTypeOK'
    BY <1>1, <1>2 DEF StoreInv, StoreTypeOK
  <1>5. LiveArtifactsAreStored'
    BY <1>2, <1>3 DEF StoreInv, LiveArtifactsAreStored
  <1> QED
    BY <1>2, <1>3, <1>4, <1>5 DEF StoreInv, StoreTypeOK, CollectorState

\* Every step of the store keeps the invariant.
LEMMA StoreStep == StoreInv /\ [StoreNext]_storeVars => StoreInv'
  <1> SUFFICES ASSUME StoreInv, [StoreNext]_storeVars PROVE StoreInv'
    OBVIOUS
  <1>1. ASSUME NEW w \in Writer, NEW d \in Digest, StoreOutput(w, d) PROVE StoreInv'
    BY <1>1, BeginPutTyped DEF StoreOutput, Policy
  <1>2. ASSUME NEW w \in Writer, NEW d \in Digest, NEW p \in ImportPolicy,
               NEW r \in Retention \cup {Nil}, ImportArtifact(w, d, p, r)
        PROVE  StoreInv'
    <2>1. p \in Policy
      BY StoreAssumption
    <2> QED
      BY <1>2, <2>1, BeginPutTyped DEF ImportArtifact
  <1>3. ASSUME NEW w \in Writer, Put(w) PROVE StoreInv'
    BY <1>1, <1>2, <1>3, ReplaceStep, RegisterStep, EndStep DEF Put
  <1>4. CASE Collect
    BY <1>4, SelectStep, UnlinkStep, ClearStep, CollectorEnds DEF Collect
  <1>5. CASE UNCHANGED storeVars
    BY <1>5 DEF storeVars, StoreInv, StoreTypeOK, LiveArtifactsAreStored, Expired
  <1> QED
    BY <1>3, <1>4, <1>5, CollectorEnds, TimeStep DEF StoreNext

\* The invariant of the store is inductive, for every value of the constants.
THEOREM StoreInvariance == StoreSpec => []StoreInv
  BY StoreInitial, StoreStep, PTL DEF StoreSpec

\* register_artifact and garbage_collect: what is sealed, kept without a limit
\* or not yet due is available and on disk, under every interleaving.
THEOREM LiveArtifactsKept == StoreSpec => []LiveArtifactsAreStored
  <1>1. StoreInv => LiveArtifactsAreStored
    BY DEF StoreInv
  <1> QED
    BY <1>1, StoreInvariance, PTL

\* garbage_collect deletes only what is due at that moment.
THEOREM OnlyExpiredPurged == StoreSpec => PurgeOnlyExpired
  <1>1. StoreInv /\ [StoreNext]_storeVars =>
            [\A d \in files : d \notin files' => Expired(d)]_storeVars
    <2> SUFFICES ASSUME StoreInv, [StoreNext]_storeVars, NEW e \in files, e \notin files'
                 PROVE  Expired(e)
      OBVIOUS
    <2>1. PICK d \in Digest : Unlink(d)
      BY DEF StoreNext, Put, Collect, StoreOutput, ImportArtifact, BeginPut, Replace,
             Register, Abort, Commit, Select, Clear, Return, CollectorCrash, TimePasses,
             storeVars
    <2>2. e = d
      BY <2>1 DEF Unlink
    <2> QED
      BY <2>1, <2>2 DEF Unlink, First, StoreInv
  <1> QED
    BY <1>1, StoreInvariance, PTL DEF StoreSpec, PurgeOnlyExpired

-----------------------------------------------------------------------------
(* collect_outputs *)

\* The files up to a path, and how many they are.
LEMMA FilesFacts ==
    ASSUME CollectTypeOK, NEW n \in Nat
    PROVE  /\ IsFiniteSet(Files(n)) /\ Cardinality(Files(n)) \in Nat
           /\ Files(n) \subseteq Index
           /\ Files(0) = {}
           /\ n \in Index => Files(n) = IF kind[n] = "file" THEN Files(n - 1) \cup {n}
                                        ELSE Files(n - 1)
<1>1. Paths \in Nat /\ IsFiniteSet(Index)
  BY CollectorAssumption, FS_Interval DEF Index
<1>2. Files(n) \subseteq Index
  BY DEF Files
<1>3. IsFiniteSet(Files(n)) /\ Cardinality(Files(n)) \in Nat
  BY <1>1, <1>2, FS_Subset, FS_CardinalityType
<1>4. Files(0) = {}
  BY DEF Files, Index
<1>5. n \in Index => Files(n) = IF kind[n] = "file" THEN Files(n - 1) \cup {n}
                                ELSE Files(n - 1)
  <2>1. \A i \in Index : i <= n <=> i <= n - 1 \/ i = n
    BY <1>1 DEF Index
  <2> QED BY <2>1 DEF Files
<1> QED BY <1>2, <1>3, <1>4, <1>5

\* One more file counts one more.
LEMMA FilesCount ==
    ASSUME CollectTypeOK, NEW n \in Index
    PROVE  /\ Cardinality(Files(n - 1)) \in Nat
           /\ kind[n] # "file" => Files(n) = Files(n - 1)
           /\ kind[n] = "file" =>
                 /\ Files(n) = Files(n - 1) \cup {n}
                 /\ n \notin Files(n - 1)
                 /\ Cardinality(Files(n)) = Cardinality(Files(n - 1)) + 1
<1>1. n \in Nat /\ n - 1 \in Nat /\ ~(n <= n - 1)
  BY CollectorAssumption DEF Index
<1>2. IsFiniteSet(Files(n - 1)) /\ Cardinality(Files(n - 1)) \in Nat
  BY <1>1, FilesFacts
<1>3. n \notin Files(n - 1)
  BY <1>1 DEF Files
<1>4. Files(n) = IF kind[n] = "file" THEN Files(n - 1) \cup {n} ELSE Files(n - 1)
  BY <1>1, FilesFacts
<1>5. Cardinality(Files(n - 1) \cup {n}) = Cardinality(Files(n - 1)) + 1
  BY <1>2, <1>3, FS_AddElement
<1> QED BY <1>2, <1>3, <1>4, <1>5

\* Sizes are numbers, and compare with themselves.
LEMMA SizesAreNumbers ==
    ASSUME CollectTypeOK
    PROVE  \A i \in Index : size[i] \in Nat /\ size[i] <= size[i]
<1>1. \A i \in Index : size[i] \in Nat
  BY CollectorAssumption DEF CollectTypeOK
<1>2. \A n \in Nat : n <= n
  OBVIOUS
<1> QED BY <1>1, <1>2

\* Nothing is stored at the start.
LEMMA CollectInitInv == CollectInit => CollectInv
<1> SUFFICES ASSUME CollectInit PROVE CollectInv
  OBVIOUS
<1>1. Stored = {} /\ collected \in [{} -> Size]
  BY DEF CollectInit, Stored
<1>2. /\ kind \in [Index -> Kind] /\ size \in [Index -> Size] /\ pc = "path"
      /\ next = 1 /\ count = 0 /\ total = 0
  BY DEF CollectInit
<1>3. CollectTypeOK
  BY <1>1, <1>2, CollectorAssumption DEF CollectTypeOK
<1>4. ScanInv
  <2>1. Files(next - 1) = {} /\ Cardinality(Files(next - 1)) = 0
    BY <1>2, <1>3, FilesFacts, FS_EmptySet
  <2>2. \A i \in Index : ~(i < next)
    BY <1>2 DEF Index
  <2> QED BY <1>1, <1>2, <2>1, <2>2, CollectorAssumption, FS_EmptySet DEF ScanInv
<1>5. SizeInv
  BY <1>1 DEF SizeInv
<1>6. TotalInv
  <2> DEFINE acc == [i \in 0 .. Paths |-> 0]
  <2>1. acc \in [0 .. Paths -> 0 .. AggregateLimit]
    BY CollectorAssumption
  <2>2. RunningTotal(acc, collected, Stored)
    BY <1>1, CollectorAssumption DEF RunningTotal, Index
  <2>3. \A i \in (next - 1) .. Paths : acc[i] = total
    BY <1>2
  <2> QED BY <2>1, <2>2, <2>3 DEF TotalInv
<1>7. LowerInv
  BY <1>2, CollectorAssumption DEF LowerInv
<1>8. CauseInv
  BY <1>2 DEF CauseInv
<1> QED BY <1>3, <1>4, <1>5, <1>6, <1>7, <1>8 DEF CollectInv

\* A step that stores nothing and stays at its path.
LEMMA NothingStored ==
    ASSUME CollectInv, UNCHANGED <<kind, next, total, collected>>,
           size' \in [Index -> Size], \A i \in Index : size[i] <= size'[i]
    PROVE  SizeInv' /\ TotalInv' /\ LowerInv'
<1>1. Stored' = Stored /\ Stored \subseteq Index
  BY DEF Stored, CollectInv, ScanInv, Files
<1>2. SizeInv'
  <2>1. \A i \in Stored : /\ collected[i] \in Nat /\ size[i] \in Nat /\ size'[i] \in Nat
                          /\ collected[i] <= size[i] /\ size[i] <= size'[i]
                          /\ collected[i] <= StreamLimit
    BY <1>1, CollectorAssumption DEF CollectInv, CollectTypeOK, SizeInv
  <2>2. \A i \in Stored : collected[i] <= size'[i]
    BY <2>1
  <2> QED BY <1>1, <2>1, <2>2 DEF SizeInv
<1>3. TotalInv'
  BY <1>1 DEF CollectInv, TotalInv, RunningTotal
<1>4. LowerInv'
  BY <1>1 DEF CollectInv, LowerInv, RunningTotal
<1> QED BY <1>2, <1>3, <1>4

\* Checking and counting a path keeps the invariant.
LEMMA CheckPathInv == CollectInv /\ CheckPath => CollectInv'
<1> SUFFICES ASSUME CollectInv, CheckPath PROVE CollectInv'
  OBVIOUS
<1>1. /\ pc = "path" /\ next \in Index /\ UNCHANGED <<kind, size, total, collected>>
      /\ Stored' = Stored
  BY DEF CheckPath, Raise, Stored
<1>2. CollectTypeOK /\ Paths \in Nat /\ FileLimit \in Nat
  BY CollectorAssumption DEF CollectInv
<1>3. /\ Stored = Files(next - 1) /\ Cardinality(Stored) <= FileLimit
      /\ \A i \in Index : i < next => kind[i] # "refused"
      /\ count = Cardinality(Files(next - 1)) /\ count <= FileLimit
  BY <1>1 DEF CollectInv, ScanInv
<1>4. \A n : Files(n)' = Files(n)
  BY <1>1 DEF Files
<1>5. \A i \in Index : size[i] <= size'[i]
  BY <1>1, <1>2, SizesAreNumbers
<1>6. CASE kind[next] = "refused"
  <2>1. pc' = "raised" /\ UNCHANGED <<next, count>>
    BY <1>6 DEF CheckPath, Raise
  <2>2. CollectTypeOK'
    BY <1>1, <1>2, <2>1 DEF CollectTypeOK
  <2>3. SizeInv' /\ TotalInv' /\ LowerInv'
    BY <1>1, <1>2, <1>5, <2>1, NothingStored DEF CollectTypeOK
  <2>4. ScanInv'
    BY <1>1, <1>3, <1>4, <2>1 DEF ScanInv
  <2>5. CauseInv'
    BY <1>1, <1>6, <2>1 DEF CauseInv
  <2> QED BY <2>2, <2>3, <2>4, <2>5 DEF CollectInv
<1>7. CASE kind[next] = "file"
  <2>1. /\ count' = count + 1 /\ next' = next
        /\ pc' = IF count + 1 <= FileLimit THEN "stat" ELSE "raised"
    BY <1>7 DEF CheckPath, Raise, CountAllowed
  <2>2. CollectTypeOK'
    BY <1>1, <1>2, <2>1 DEF CollectTypeOK
  <2>3. SizeInv' /\ TotalInv' /\ LowerInv'
    BY <1>1, <1>2, <1>5, <2>1, NothingStored DEF CollectTypeOK
  <2>4. Cardinality(Files(next)) = count + 1
    BY <1>1, <1>2, <1>3, <1>7, FilesCount
  <2>5. ScanInv'
    BY <1>1, <1>3, <1>4, <1>7, <2>1, <2>4 DEF ScanInv
  <2>6. CauseInv'
    <3>1. count \in Nat
      BY <1>2 DEF CollectTypeOK
    <3>2. pc' = "raised" => count + 1 > FileLimit
      BY <1>2, <2>1, <3>1
    <3> QED BY <1>1, <1>4, <1>7, <2>1, <2>4, <3>2 DEF CauseInv
  <2> QED BY <2>2, <2>3, <2>5, <2>6 DEF CollectInv
<1>8. CASE kind[next] = "absent"
  <2>1. next' = next + 1 /\ UNCHANGED <<pc, count>>
    BY <1>8 DEF CheckPath
  <2>2. /\ next \in Nat /\ next <= Paths /\ next' - 1 = next /\ next - 1 \in 0 .. Paths
        /\ next \in 0 .. Paths
    BY <1>1, <1>2, <2>1 DEF Index
  <2>3. CollectTypeOK'
    BY <1>1, <1>2, <2>1, <2>2 DEF CollectTypeOK
  <2>4. Files(next) = Files(next - 1)
    BY <1>1, <1>2, <1>8, FilesCount
  <2>5. ScanInv'
    <3>1. \A i \in Index : i < next + 1 => i < next \/ i = next
      BY <2>2 DEF Index
    <3> QED BY <1>1, <1>3, <1>4, <1>8, <2>1, <2>2, <2>4, <3>1 DEF ScanInv
  <2>6. SizeInv'
    BY <1>1 DEF CollectInv, SizeInv
  <2>7. TotalInv'
    <3>1. \A i \in (next' - 1) .. Paths : i \in (next - 1) .. Paths
      BY <2>2
    <3> QED BY <1>1, <3>1 DEF CollectInv, TotalInv, RunningTotal
  <2>8. LowerInv'
    <3> SUFFICES ASSUME NEW f \in [Index -> Size], NEW S \in SUBSET Index,
                        NEW acc \in [0 .. Paths -> 0 .. AggregateLimit],
                        Stored \subseteq S, \A i \in Stored : collected[i] <= f[i],
                        RunningTotal(acc, f, S)
                 PROVE  total <= acc[next]
      BY <1>1, <2>2 DEF LowerInv, RunningTotal
    <3>1. total <= acc[next - 1]
      BY DEF CollectInv, LowerInv
    <3>2. acc[next] = acc[next - 1] + (IF next \in S THEN f[next] ELSE 0)
      BY <1>1 DEF RunningTotal
    <3>3. acc[next - 1] \in Nat /\ total \in Nat
      BY <1>2, <2>2 DEF CollectTypeOK
    <3>4. f[next] \in Nat
      BY <1>1, CollectorAssumption
    <3> QED BY <3>1, <3>2, <3>3, <3>4
  <2>9. CauseInv'
    BY <1>1, <2>1 DEF CauseInv
  <2> QED BY <2>3, <2>5, <2>6, <2>7, <2>8, <2>9 DEF CollectInv
<1> QED BY <1>1, <1>2, <1>6, <1>7, <1>8 DEF CollectTypeOK, Kind

\* So does asking for the size of a file.
LEMMA StatInv == CollectInv /\ Stat => CollectInv'
<1> SUFFICES ASSUME CollectInv, Stat PROVE CollectInv'
  OBVIOUS
<1>1. /\ pc = "stat" /\ UNCHANGED <<kind, size, next, count, total, collected>>
      /\ pc' = IF total + size[next] > AggregateLimit THEN "raised" ELSE "store"
      /\ Stored' = Stored
  BY DEF Stat, Raise, Stored
<1>2. CollectTypeOK
  BY DEF CollectInv
<1>3. next \in Index /\ kind[next] = "file"
  BY <1>1 DEF CollectInv, ScanInv
<1>4. CollectTypeOK'
  BY <1>1, <1>2 DEF CollectTypeOK
<1>5. SizeInv' /\ TotalInv' /\ LowerInv'
  BY <1>1, <1>2, SizesAreNumbers, NothingStored DEF CollectTypeOK
<1>6. \A n : Files(n)' = Files(n)
  BY <1>1 DEF Files
<1>7. ScanInv'
  BY <1>1, <1>3, <1>6 DEF CollectInv, ScanInv
<1>8. CauseInv'
  BY <1>1, <1>3 DEF CauseInv
<1> QED BY <1>4, <1>5, <1>7, <1>8 DEF CollectInv

\* So does the return of what was collected.
LEMMA ReturnInv == CollectInv /\ ReturnCollected => CollectInv'
<1> SUFFICES ASSUME CollectInv, ReturnCollected PROVE CollectInv'
  OBVIOUS
<1>1. /\ pc = "path" /\ next = Paths + 1 /\ pc' = "returned"
      /\ UNCHANGED <<kind, size, next, count, total, collected>> /\ Stored' = Stored
  BY DEF ReturnCollected, Stored
<1>2. CollectTypeOK
  BY DEF CollectInv
<1>3. CollectTypeOK'
  BY <1>1, <1>2 DEF CollectTypeOK
<1>4. SizeInv' /\ TotalInv' /\ LowerInv'
  BY <1>1, <1>2, SizesAreNumbers, NothingStored DEF CollectTypeOK
<1>5. \A n : Files(n)' = Files(n)
  BY <1>1 DEF Files
<1>6. ScanInv'
  BY <1>1, <1>5 DEF CollectInv, ScanInv
<1>7. CauseInv'
  BY <1>1 DEF CauseInv
<1> QED BY <1>3, <1>4, <1>6, <1>7 DEF CollectInv

\* A file that the command is still writing only grows: what was stored of it,
\* and the totals, are bounded by what it now is.
LEMMA GrowInv ==
    ASSUME CollectInv, NEW k \in Index, NEW n \in Size, Grow(k, n)
    PROVE  CollectInv'
<1>1. /\ pc \in {"path", "stat", "store"} /\ n > size[k]
      /\ size' = [size EXCEPT ![k] = n]
      /\ UNCHANGED <<kind, pc, next, count, total, collected>> /\ Stored' = Stored
  BY DEF Grow, Stored
<1>2. CollectTypeOK
  BY DEF CollectInv
<1>3. size' \in [Index -> Size]
  BY <1>1, <1>2 DEF CollectTypeOK
<1>4. CollectTypeOK'
  BY <1>1, <1>2, <1>3 DEF CollectTypeOK
<1>5. \A i \in Index : size[i] <= size'[i]
  <2>1. size[k] \in Nat /\ n \in Nat
    BY <1>2, SizesAreNumbers, CollectorAssumption
  <2>2. \A i \in Index : size'[i] = IF i = k THEN n ELSE size[i]
    BY <1>1, <1>2 DEF CollectTypeOK
  <2>3. size[k] <= n
    BY <1>1, <2>1
  <2> QED BY <1>2, <2>2, <2>3, SizesAreNumbers
<1>6. SizeInv' /\ TotalInv' /\ LowerInv'
  BY <1>1, <1>3, <1>5, NothingStored
<1>7. \A m : Files(m)' = Files(m)
  BY <1>1 DEF Files
<1>8. ScanInv'
  BY <1>1, <1>7 DEF CollectInv, ScanInv
<1>9. CauseInv'
  BY <1>1 DEF CauseInv
<1> QED BY <1>4, <1>6, <1>8, <1>9 DEF CollectInv

\* What put_stream accepts fits both what is left and one stream.
LEMMA EffectiveLimitFacts ==
    ASSUME NEW used \in 0 .. AggregateLimit, NEW n \in Nat
    PROVE  n <= EffectiveLimit(used) <=> n <= StreamLimit /\ used + n <= AggregateLimit
BY CollectorAssumption DEF EffectiveLimit

\* Storing a file adds its size as read, and stops at the limit.
LEMMA StoreFileInv == CollectInv /\ StoreFile => CollectInv'
<1> SUFFICES ASSUME CollectInv, StoreFile PROVE CollectInv'
  OBVIOUS
<1>1. pc = "store" /\ UNCHANGED <<kind, size, count>>
  BY DEF StoreFile
<1>2. CollectTypeOK /\ Paths \in Nat /\ AggregateLimit \in Nat /\ StreamLimit \in Nat
  BY CollectorAssumption DEF CollectInv
<1>3. /\ next \in Index /\ kind[next] = "file"
      /\ Stored = Files(next - 1) /\ Cardinality(Stored) <= FileLimit
      /\ \A i \in Index : i < next => kind[i] # "refused"
      /\ count = Cardinality(Files(next)) /\ count <= FileLimit
  BY <1>1 DEF CollectInv, ScanInv
<1>4. /\ size[next] \in Nat /\ size[next] \in Size /\ total \in Nat
      /\ total \in 0 .. AggregateLimit
  BY <1>2, <1>3, SizesAreNumbers DEF CollectTypeOK
<1>5. \A n : Files(n)' = Files(n)
  BY <1>1 DEF Files
<1>6. CASE ~(size[next] <= EffectiveLimit(total))
  <2>1. EffectiveLimit(total) \in Nat
    BY <1>2, <1>4 DEF EffectiveLimit
  <2>2. pc' = "raised" /\ UNCHANGED <<next, total, collected>> /\ Stored' = Stored
    BY <1>4, <1>6, <2>1 DEF StoreFile, Raise, Stored
  <2>3. CollectTypeOK'
    BY <1>1, <1>2, <2>2 DEF CollectTypeOK
  <2>4. SizeInv' /\ TotalInv' /\ LowerInv'
    BY <1>1, <1>2, <2>2, SizesAreNumbers, NothingStored DEF CollectTypeOK
  <2>5. ScanInv'
    BY <1>3, <1>5, <2>2 DEF ScanInv
  <2>6. ~(size[next] <= StreamLimit /\ total + size[next] <= AggregateLimit)
    BY <1>4, <1>6, EffectiveLimitFacts
  <2>7. size[next] > StreamLimit \/ total + size[next] > AggregateLimit
    BY <1>2, <1>4, <2>6
  <2>8. CauseInv'
    BY <1>1, <1>3, <2>2, <2>7 DEF CauseInv
  <2> QED BY <2>3, <2>4, <2>5, <2>8 DEF CollectInv
<1>7. CASE size[next] <= EffectiveLimit(total)
  <2>1. /\ collected' = [i \in Stored \cup {next} |->
                            IF i = next THEN size[next] ELSE collected[i]]
        /\ total' = total + size[next] /\ next' = next + 1 /\ pc' = "path"
    <3>1. EffectiveLimit(total) \in Nat
      BY <1>2, <1>4 DEF EffectiveLimit
    <3> QED BY <1>4, <1>7, <3>1 DEF StoreFile, Stored
  <2>2. size[next] <= StreamLimit /\ total' \in 0 .. AggregateLimit /\ total' \in Nat
    BY <1>2, <1>4, <1>7, <2>1, EffectiveLimitFacts
  <2>3. /\ next \in Nat /\ next <= Paths /\ next' - 1 = next /\ next' \in 1 .. Paths + 1
        /\ next \in 0 .. Paths /\ next - 1 \in 0 .. Paths /\ next - 1 \in Nat
    BY <1>2, <1>3, <2>1 DEF Index
  <2>4. /\ Stored' = Stored \cup {next} /\ next \notin Stored
        /\ collected'[next] = size[next]
        /\ \A i \in Stored : collected'[i] = collected[i]
    <3>1. next \notin Stored
      BY <1>2, <1>3, FilesCount
    <3> QED BY <2>1, <3>1 DEF Stored
  <2>5. CollectTypeOK'
    <3>1. collected' \in [Stored' -> Size]
      BY <1>2, <1>4, <2>1, <2>4 DEF CollectTypeOK
    <3> QED BY <1>1, <1>2, <2>1, <2>2, <2>3, <3>1 DEF CollectTypeOK
  <2>6. Files(next) = Stored'
    BY <1>2, <1>3, <2>4, FilesCount
  <2>7. ScanInv'
    <3>1. \A i \in Index : i < next + 1 => i < next \/ i = next
      BY <2>3 DEF Index
    <3> QED BY <1>1, <1>3, <1>5, <2>1, <2>3, <2>6, <3>1 DEF ScanInv
  <2>8. SizeInv'
    BY <1>1, <1>2, <1>3, <2>2, <2>4, SizesAreNumbers DEF CollectInv, SizeInv
  <2>9. TotalInv'
    <3>1. PICK acc \in [0 .. Paths -> 0 .. AggregateLimit] :
            /\ RunningTotal(acc, collected, Stored)
            /\ \A i \in (next - 1) .. Paths : acc[i] = total
      BY DEF CollectInv, TotalInv
    <3> DEFINE new == [i \in 0 .. Paths |-> IF next <= i THEN total' ELSE acc[i]]
    <3>2. new \in [0 .. Paths -> 0 .. AggregateLimit]
      BY <2>2
    <3>3. \A i \in (next' - 1) .. Paths : new[i] = total'
      <4>1. \A i \in next .. Paths : i \in 0 .. Paths /\ next <= i
        BY <2>3
      <4>2. \A i \in 0 .. Paths : next <= i => new[i] = total'
        OBVIOUS
      <4> QED BY <2>3, <4>1, <4>2
    <3>4. new[0] = 0
      BY <1>2, <1>3, <3>1 DEF RunningTotal, Index
    <3>5. ASSUME NEW i \in Index
          PROVE  new[i] = new[i - 1] + (IF i \in Stored' THEN collected'[i] ELSE 0)
      <4>1. i \in Nat /\ i \in 0 .. Paths /\ i - 1 \in 0 .. Paths
        BY <1>2 DEF Index
      <4>2. acc[i] = acc[i - 1] + (IF i \in Stored THEN collected[i] ELSE 0)
        BY <3>1 DEF RunningTotal
      <4>3. CASE i < next
        <5>1. new[i] = acc[i] /\ new[i - 1] = acc[i - 1] /\ i # next
          BY <2>3, <4>1, <4>3
        <5> QED BY <2>4, <4>2, <5>1
      <4>4. CASE i = next
        <5>1. new[i] = total' /\ new[i - 1] = acc[i - 1] /\ acc[i - 1] = total
          BY <2>3, <3>1, <4>1, <4>4
        <5> QED BY <2>1, <2>4, <4>4, <5>1
      <4>5. CASE i > next
        <5>1. new[i] = total' /\ new[i - 1] = total'
          BY <2>3, <4>1, <4>5
        <5>2. i \notin Stored'
          BY <2>3, <2>6, <4>1, <4>5 DEF Files
        <5> QED BY <2>2, <5>1, <5>2
      <4> QED BY <2>3, <4>1, <4>3, <4>4, <4>5
    <3> HIDE DEF new
    <3>6. RunningTotal(new, collected', Stored')
      BY <3>4, <3>5 DEF RunningTotal
    <3> QED BY <3>2, <3>3, <3>6 DEF TotalInv, RunningTotal
  <2>10. LowerInv'
    <3> SUFFICES ASSUME NEW f \in [Index -> Size], NEW S \in SUBSET Index,
                        NEW acc \in [0 .. Paths -> 0 .. AggregateLimit],
                        Stored' \subseteq S, \A i \in Stored' : collected'[i] <= f[i],
                        RunningTotal(acc, f, S)
                 PROVE  total' <= acc[next]
      BY <2>3 DEF LowerInv, RunningTotal
    <3>1. total <= acc[next - 1]
      BY <2>4 DEF CollectInv, LowerInv
    <3>2. acc[next] = acc[next - 1] + f[next]
      BY <1>3, <2>4 DEF RunningTotal
    <3>3. acc[next - 1] \in Nat
      BY <2>3
    <3>4. f[next] \in Nat /\ size[next] <= f[next]
      BY <1>3, <2>4, CollectorAssumption
    <3> QED BY <1>4, <2>1, <3>1, <3>2, <3>3, <3>4
  <2>11. CauseInv'
    BY <2>1 DEF CauseInv
  <2> QED BY <2>5, <2>7, <2>8, <2>9, <2>10, <2>11 DEF CollectInv
<1> QED BY <1>6, <1>7

\* So does an exception that is none of the checks'.
LEMMA FailsInv == CollectInv /\ CollectFails => CollectInv'
<1> SUFFICES ASSUME CollectInv, CollectFails PROVE CollectInv'
  OBVIOUS
<1>1. /\ pc' = "failed" /\ UNCHANGED <<kind, size, next, count, total, collected>>
      /\ Stored' = Stored
  BY DEF CollectFails, Stored
<1>2. CollectTypeOK
  BY DEF CollectInv
<1>3. CollectTypeOK'
  BY <1>1, <1>2 DEF CollectTypeOK
<1>4. SizeInv' /\ TotalInv' /\ LowerInv'
  BY <1>1, <1>2, SizesAreNumbers, NothingStored DEF CollectTypeOK
<1>5. \A n : Files(n)' = Files(n)
  BY <1>1 DEF Files
<1>6. ScanInv' /\ CauseInv'
  BY <1>1, <1>5 DEF CollectInv, ScanInv, CauseInv
<1> QED BY <1>3, <1>4, <1>6 DEF CollectInv

\* The loop keeps the invariant, however the files grow meanwhile.
THEOREM CollectInvariance == CollectSpec => []CollectInv
<1>1. CollectInv /\ [CollectNext]_collectVars => CollectInv'
  <2> SUFFICES ASSUME CollectInv, [CollectNext]_collectVars PROVE CollectInv'
    OBVIOUS
  <2>1. CASE UNCHANGED collectVars
    <3>1. UNCHANGED <<kind, size, pc, next, count, total, collected>>
      BY <2>1 DEF collectVars
    <3> QED BY <3>1 DEF CollectInv, CollectTypeOK, ScanInv, SizeInv, TotalInv, LowerInv,
         CauseInv, Stored, Files, RunningTotal
  <2>2. CASE \E i \in Index, n \in Size : Grow(i, n)
    BY <2>2, GrowInv
  <2> QED BY <2>1, <2>2, CheckPathInv, StatInv, StoreFileInv, FailsInv, ReturnInv
          DEF CollectNext
<1> QED BY <1>1, CollectInitInv, PTL DEF CollectSpec

\* The three limits hold of what is stored.
THEOREM CollectorKeepsLimits == CollectSpec => []LimitsHold
<1>1. CollectInv => LimitsHold
  BY DEF CollectInv, ScanInv, SizeInv, TotalInv, LimitsHold, SumFits
<1> QED BY <1>1, CollectInvariance, PTL

\* collect_outputs stores every file or raises, and its checks raise only for
\* cause.
THEOREM CollectorIsAllOrNothing == CollectSpec => []CollectionIsAllOrNothing
<1>1. CollectInv => CollectionIsAllOrNothing
  <2> SUFFICES ASSUME CollectInv PROVE CollectionIsAllOrNothing
    OBVIOUS
  <2> DEFINE refused == {i \in Index : kind[i] = "refused"}
  <2>0. CollectTypeOK /\ Paths \in Nat /\ FileLimit \in Nat /\ AggregateLimit \in Nat
    BY CollectorAssumption DEF CollectInv
  <2>1. ASSUME pc = "returned"
        PROVE  Stored = Files(Paths) /\ refused = {}
    <3>1. next = Paths + 1 /\ next - 1 = Paths
      BY <2>0, <2>1 DEF CollectInv, ScanInv
    <3>2. \A i \in Index : i < next
      BY <2>0, <3>1 DEF Index
    <3> QED BY <2>1, <3>1, <3>2 DEF CollectInv, ScanInv
  <2>2. ASSUME refused = {}, Cardinality(Files(Paths)) <= FileLimit,
               \A i \in Files(Paths) : size[i] <= StreamLimit,
               SumFits(size, Files(Paths), AggregateLimit), pc = "raised"
        PROVE  FALSE
    <3>1. next \in Index /\ kind[next] = "file"
      BY <2>2 DEF CollectInv, CauseInv
    <3>2. next \in Files(Paths) /\ Stored \subseteq Files(Paths)
      <4>1. \A i \in Index : i <= Paths
        BY <2>0 DEF Index
      <4> QED BY <3>1, <4>1 DEF Files, CollectInv, ScanInv
    <3>3. ~(Cardinality(Files(next)) > FileLimit)
      <4>1. Files(next) \subseteq Files(Paths)
        BY <2>0 DEF Files, Index
      <4>2. /\ IsFiniteSet(Files(Paths)) /\ Cardinality(Files(Paths)) \in Nat
        BY <2>0, FilesFacts
      <4>3. Cardinality(Files(next)) <= Cardinality(Files(Paths)) /\ IsFiniteSet(Files(next))
        BY <4>1, <4>2, FS_Subset
      <4>4. Cardinality(Files(next)) \in Nat
        BY <4>3, FS_CardinalityType
      <4> QED BY <2>0, <2>2, <4>2, <4>3, <4>4
    <3>4. size[next] \in Nat /\ ~(size[next] > StreamLimit)
      BY <2>0, <2>2, <3>1, <3>2, SizesAreNumbers, CollectorAssumption
    <3>5. ~(total + size[next] > AggregateLimit)
      <4>1. PICK acc \in [0 .. Paths -> 0 .. AggregateLimit] :
              RunningTotal(acc, size, Files(Paths))
        BY <2>2 DEF SumFits
      <4>2. Files(Paths) \in SUBSET Index /\ size \in [Index -> Size]
        BY <2>0 DEF Files, CollectTypeOK
      <4>3. total <= acc[next - 1]
        BY <3>2, <4>1, <4>2 DEF CollectInv, LowerInv, SizeInv
      <4>4. acc[next] = acc[next - 1] + size[next]
        BY <3>1, <3>2, <4>1 DEF RunningTotal
      <4>5. next \in 0 .. Paths /\ next - 1 \in 0 .. Paths
        BY <2>0, <3>1 DEF Index
      <4>6. acc[next] \in 0 .. AggregateLimit /\ acc[next - 1] \in Nat /\ total \in Nat
        BY <2>0, <4>5 DEF CollectTypeOK
      <4> QED BY <2>0, <3>4, <4>3, <4>4, <4>6
    <3> QED BY <2>2, <3>1, <3>3, <3>4, <3>5 DEF CollectInv, CauseInv
  <2> QED BY <2>1, <2>2 DEF CollectionIsAllOrNothing
<1> QED BY <1>1, CollectInvariance, PTL

=============================================================================
