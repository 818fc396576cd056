--------------------------- MODULE OutputCollector ---------------------------
(***************************************************************************)
(* collect_outputs of storage/artifacts.py: the files an execution left at *)
(* the allowed paths are stored one after the other under three limits.    *)
(* The size of a file is looked at before it is stored, and a process the  *)
(* sandbox could not end may go on writing in between.                     *)
(***************************************************************************)
EXTENDS Naturals, FiniteSets

CONSTANTS
    Paths,              \* len(allowed)
    Size,               \* the sizes files may have
    StreamLimit,        \* stream_limit
    AggregateLimit,     \* aggregate_limit
    FileLimit           \* file_limit

Index == 1 .. Paths

\* What is at a path: nothing, a regular file, or something that is refused (a
\* link, a link on the way, a path outside the directory, not a regular file).
Kind == {"absent", "file", "refused"}

ASSUME CollectorAssumption ==
    /\ Paths \in Nat /\ Size \subseteq Nat
    /\ StreamLimit \in Nat /\ AggregateLimit \in Nat /\ FileLimit \in Nat

VARIABLES
    kind,               \* the output directory
    size,
    pc,                 \* "path", "stat", "store", "returned", "raised" (a check
                        \* refused) or "failed" (any other exception)
    next,               \* the path the loop is at
    count,              \* collected_files_count
    total,              \* total_aggregate_bytes
    collected           \* the artifacts collected: the size of each, by its path

collectVars == <<kind, size, pc, next, count, total, collected>>

Raise == pc' = "raised" /\ UNCHANGED <<next, total, collected>>

-----------------------------------------------------------------------------
\* collected_files_count after the increment against the limit.
CountAllowed(n) == n <= FileLimit

CheckPath ==
    /\ pc = "path" /\ next \in Index
    /\ \/ /\ kind[next] = "refused"
          /\ Raise /\ UNCHANGED count
       \/ /\ kind[next] = "absent"
          /\ next' = next + 1
          /\ UNCHANGED <<pc, count, total, collected>>
       \/ /\ kind[next] = "file"
          /\ count' = count + 1
          /\ IF CountAllowed(count + 1)
             THEN pc' = "stat" /\ UNCHANGED <<next, total, collected>>
             ELSE Raise
    /\ UNCHANGED <<kind, size>>

\* Mutant: a file that is too large is passed over.
StatSkips ==
    /\ pc = "stat"
    /\ IF total + size[next] > AggregateLimit
       THEN pc' = "path" /\ next' = next + 1
       ELSE pc' = "store" /\ next' = next
    /\ UNCHANGED <<kind, size, count, total, collected>>

\* p.stat().st_size against what is left of the aggregate limit.
Stat ==
    /\ pc = "stat"
    /\ IF total + size[next] > AggregateLimit
       THEN Raise
       ELSE pc' = "store" /\ UNCHANGED <<next, total, collected>>
    /\ UNCHANGED <<kind, size, count>>

\* Mutant: the size seen by stat is relied on.
EffectiveLimitOfStream(used) == StreamLimit

\* effective_file_max_bytes.
EffectiveLimit(used) ==
    LET left == AggregateLimit - used
    IN  IF StreamLimit <= left THEN StreamLimit ELSE left

\* put_stream counts the bytes it really reads.
StoreFile ==
    /\ pc = "store"
    /\ IF size[next] > EffectiveLimit(total)
       THEN Raise
       ELSE /\ collected' = [i \in DOMAIN collected \cup {next} |->
                              IF i = next THEN size[next] ELSE collected[i]]
            /\ total' = total + size[next]
            /\ next' = next + 1
            /\ pc' = "path"
    /\ UNCHANGED <<kind, size, count>>

\* An exception that no check raises: the file vanished, the disk or the digest
\* is in the way of put_stream, the database refuses the row.  What was stored
\* stays in the store; nothing is returned.
CollectFails ==
    /\ pc \in {"path", "stat", "store"} /\ next \in Index
    /\ pc' = "failed"
    /\ UNCHANGED <<kind, size, next, count, total, collected>>

ReturnCollected ==
    /\ pc = "path" /\ next = Paths + 1
    /\ pc' = "returned"
    /\ UNCHANGED <<kind, size, next, count, total, collected>>

\* A process left behind writes to a file.
Grow(i, n) ==
    /\ pc \in {"path", "stat", "store"}
    /\ kind[i] = "file" /\ n > size[i]
    /\ size' = [size EXCEPT ![i] = n]
    /\ UNCHANGED <<kind, pc, next, count, total, collected>>

CollectInit ==
    /\ kind \in [Index -> Kind]
    /\ size \in [Index -> Size]
    /\ \A i \in Index : kind[i] # "file" => \A n \in Size : size[i] <= n
    /\ pc = "path" /\ next = 1
    /\ count = 0 /\ total = 0
    /\ collected = [i \in {} |-> 0]

CollectNext ==
    \/ CheckPath \/ Stat \/ StoreFile \/ CollectFails \/ ReturnCollected
    \/ \E i \in Index, n \in Size : Grow(i, n)

CollectSpec == CollectInit /\ [][CollectNext]_collectVars

-----------------------------------------------------------------------------
(* Properties *)

Stored == DOMAIN collected

\* acc[i] is the sum of f over the paths of S up to i.
RunningTotal(acc, f, S) ==
    /\ acc[0] = 0
    /\ \A i \in Index : acc[i] = acc[i - 1] + (IF i \in S THEN f[i] ELSE 0)

\* The sum of f over S is at most limit.
SumFits(f, S, limit) == \E acc \in [0 .. Paths -> 0 .. limit] : RunningTotal(acc, f, S)

\* "Enforces per-stream and aggregate byte limits, and maximum file count": of
\* the bytes really stored, however the files grow while they are collected.
LimitsHold ==
    /\ Cardinality(Stored) <= FileLimit
    /\ \A i \in Stored : collected[i] <= StreamLimit
    /\ SumFits(collected, Stored, AggregateLimit)

\* The files up to path n.
Files(n) == {i \in Index : kind[i] = "file" /\ i <= n}

\* collect_outputs is all or nothing.  It returns only when it has stored every
\* file there is: a limit or a refused path is an exception, never an artifact
\* left out.  And its checks raise only for cause: with all sizes and the number
\* of files within the limits at the end, and nothing refused, none has raised.
CollectionIsAllOrNothing ==
    LET present == Files(Paths)
        refused == {i \in Index : kind[i] = "refused"}
    IN  /\ pc = "returned" => Stored = present /\ refused = {}
        /\ (/\ refused = {}
            /\ Cardinality(present) <= FileLimit
            /\ \A i \in present : size[i] <= StreamLimit
            /\ SumFits(size, present, AggregateLimit))
           => pc # "raised"

-----------------------------------------------------------------------------
(* The inductive invariant. *)

CollectTypeOK ==
    /\ kind \in [Index -> Kind]
    /\ size \in [Index -> Size]
    /\ pc \in {"path", "stat", "store", "returned", "raised", "failed"}
    /\ next \in 1 .. Paths + 1
    /\ count \in Nat
    /\ total \in 0 .. AggregateLimit
    /\ collected \in [Stored -> Size]

\* The loop has stored every file before the path it is at, and refused none.
ScanInv ==
    /\ Stored \subseteq Files(next - 1)
    /\ Cardinality(Stored) <= FileLimit
    /\ pc \in {"stat", "store"} => next \in Index /\ kind[next] = "file"
    /\ pc = "returned" => next = Paths + 1
    /\ pc \notin {"raised", "failed"} =>
          /\ Stored = Files(next - 1)
          /\ \A i \in Index : i < next => kind[i] # "refused"
          /\ count = Cardinality(Files(IF pc \in {"stat", "store"} THEN next ELSE next - 1))
          /\ count <= FileLimit

\* A file stored was then as large as it is recorded, and has not shrunk.
SizeInv ==
    \A i \in Stored : collected[i] <= size[i] /\ collected[i] <= StreamLimit

\* total_aggregate_bytes is the sum of what is stored.
TotalInv ==
    \E acc \in [0 .. Paths -> 0 .. AggregateLimit] :
        /\ RunningTotal(acc, collected, Stored)
        /\ \A i \in (next - 1) .. Paths : acc[i] = total

\* Sizes that are at least what is stored add up to at least the total.
LowerInv ==
    \A f \in [Index -> Size], S \in SUBSET Index, acc \in [0 .. Paths -> 0 .. AggregateLimit] :
        /\ Stored \subseteq S
        /\ \A i \in Stored : collected[i] <= f[i]
        /\ RunningTotal(acc, f, S)
        => total <= acc[next - 1]

\* What made collect_outputs raise.
CauseInv ==
    pc = "raised" =>
        /\ next \in Index
        /\ \/ kind[next] = "refused"
           \/ /\ kind[next] = "file"
              /\ \/ Cardinality(Files(next)) > FileLimit
                 \/ size[next] > StreamLimit
                 \/ total + size[next] > AggregateLimit

CollectInv == CollectTypeOK /\ ScanInv /\ SizeInv /\ TotalInv /\ LowerInv /\ CauseInv

=============================================================================
