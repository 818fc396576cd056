# TLA+ specifications of VerifierCI

VerifierCI measures how well test-based verifiers grade patches: an audit
expands into jobs, workers run each job's verifier on its patch in a sandbox,
and the results are reduced to an acceptance matrix. These specifications cover
the part of it where a wrong interleaving would corrupt a measurement: the job
queue in SQLite, the workers with their heartbeats, the execution of commands and
the capture of their output, the artifact store, the classification of an
execution, the reducer, and the migrations of the database.

Paths below are relative to `src/verifierci/` of the repository.

## 1. The system

| part | state | operations | modelled by |
|---|---|---|---|
| job queue, `execution/jobs.py` | tables `jobs`, `evaluation_attempts`, `audit_runs` | `claim`, `mark_running`, `heartbeat`, `complete`, `reap_expired`, `request_cancel` | `JobQueue`, abstractly `FencedRegister` |
| worker, `execution/worker.py` | locals of `run_one`, its heartbeat thread, `conn_lock`, workspaces | `run_one`, `_heartbeat_worker`, `run_until_terminal` | `WorkerProcess` |
| acceptance matrix, `execution/matrix.py` | none (a pure reducer over two reads) | `aggregate_cell`, `build_matrix` | `AcceptanceMatrix` |
| artifact store, `storage/artifacts.py` | file tree, table `artifacts` | `put_stream`, `register_artifact`, `garbage_collect`, `collect_outputs`, `open_verified` | `ArtifactStore`, `OutputCollector` |
| outcome classification, `execution/outcomes.py`, `evaluators/pytest_report.py` | none | `parse_capture`, `PytestReportParser.parse` | `Outcomes` |
| sandbox, `execution/sandbox.py` | workspace directory, process group, reader threads, `stdout.log` | `prepare_workspace`, `execute`, `cleanup_attempt` | `Sandbox`; preparation and cleanup in `WorkerProcess` |
| database layer, `storage/db.py` | connection, recorded migrations | `transaction`, `migrate`, `backup_database` | `Migrations`; atomicity and delay of `JobQueue` |
| planner, `execution/planner.py` | none | `expand` | initial state of `JobQueue`, assumption of `AcceptanceMatrix` |
| domain models, `models/` | frozen records | hashing, validation, lineage | `Lineage`; the columns that control something |
| local adapter, metrics, registries, reports, CLI | none at this commit | import, ratios, stubs | not modelled |
| controller | not in the repository | inserts jobs, calls reaper, cancellation, reducer | environment actions |

How they interact. The controller inserts a run and its jobs. A worker calls
`claim`, which makes an attempt and returns a *handle* (fence, attempt id, lease
token, worker id) with a lease of 30 s; it moves the job to RUNNING, starts a
thread that renews the lease every 5 s over the same connection, prepares a
workspace, runs build and verification commands, stores the outputs, classifies
them and calls `complete` with the handle. The reaper takes jobs with an expired
lease back to the queue or fails them. `complete` accepts only the current
handle within its lease; everything else is kept as a quarantined (`stale`)
attempt. The reducer reads jobs and attempts whenever the controller asks.

What is hard, and what makes each part correct:

- *Queue*: late, repeated and mixed-up calls; a reaper racing a heartbeat; a
  `now_ms` read before the write lock is waited for. One authoritative attempt
  per job, from its last claim; nothing terminal changes; the retry budget; the
  state of a run follows from its jobs; a cancelled run starts nothing.
- *Worker*: crashes anywhere, a heartbeat thread that outlives `join`, a lease
  lost unnoticed, a loop that ends at the first empty claim. Heartbeats end with
  their `run_one`; a lost lease never commits; every run ends as long as workers are
  started again.
- *Matrix*: two reads at two moments. A grade rests on final verdicts and is
  never taken back; "complete" means decided.
- *Store*: files and table without a common lock, purges racing puts, crashes
  between rename, registration, unlink and UPDATE. What is not due is kept.
- *Collection*: sizes read before the bytes. The limits hold of what is stored.
- *Classification*: several signs of failure at once. Only clean executions are
  graded.
- *Sandbox*: reader threads, a command that never ends, processes that outlive it,
  hold its pipes and rewrite its report. What is captured is what was printed,
  what is recorded is what the last command produced, and the attempt ends.
- *Migrations*: processes, perhaps of two releases, that migrate at once and die
  anywhere. The schema is what the table records; a retry finishes.
- *Lineage*: marks kept over many searches in an order nobody chose. A cycle is
  reported exactly where there is one, and the one reported is a cycle.

`PROJECT.json` lists these hazards with the line where each bites and the
properties that cover it.

## 2. The modules and the code

### JobQueue

`jobs`, `attempts` and `runs` are the three tables, functions from ids to rows.
Each function of `jobs.py` runs in one `BEGIN IMMEDIATE` transaction, so it is
one action: `ClaimJob`/`ClaimNone` (with the sweep that fails the pending jobs of
cancelled runs on the way), `MarkRunning`, `Heartbeat`, `CompleteCommit` and
`CompleteStale` (with `_mark_attempt_stale`), `ReapExpired` over all expired jobs
at once, `RequestCancel`. `_update_run_state` is part of each action that calls
it (`UpdateRuns`). Calls that raise, or return "duplicate", change nothing and
are not actions; an attempt whose outcome and validity do not fit is refused by
the CHECK of the table and aborts the transaction, which is the same.

- Handles: any handle ever returned may be used at any time, any number of times.
  That covers late, lost, repeated and reordered calls and crashed callers. With
  `MixedUp` a caller may submit another attempt's id with its handle. The job is the
  handle's: `_mark_attempt_stale` takes `attempt.job_id`, which `run_one` fills from
  the job it claimed, so only the id of the attempt can be mixed up.
- Time: a row keeps `lease_left`, the distance from now to `lease_expires_ms`. A
  caller's `now_ms` may be `MaxDelay` ticks old: it is read before the write lock
  is waited for (`busy_timeout` 5 s, lease 30 s). Below `-MaxDelay` every caller
  sees the lease expired, so time needs no bound.
- Left out: `worker_id` (set, cleared and compared exactly with `lease_token`),
  evidence columns, timestamps; `terminal_reason` EVALUATION_ERROR stands for any
  error code. The state ABANDONED is never written by the code.

`FencedRegister` is what the queue promises of a job with leases, attempts, runs
and clocks taken away: a write-once register guarded by generations.

### WorkerProcess (extends JobQueue)

`worker[w]` is the main thread of a process in `run_one`; `thread[h]` the
heartbeat thread and the events `stop_heartbeat` and `lease_lost` of the `run_one`
that claimed attempt `h`; `workspaces` the directories on disk. The clock readings
for `heartbeat` and `complete` are steps of their own and age as time passes.
`conn_lock` is held from the clock reading to the end of `complete` (pc
"committing"); `join(timeout)` ends early only for a thread inside the database or
not told to stop. Exceptions leave through `finally`. `again` says that the loop of
`run_until_terminal` goes on: it ends when `claim` finds nothing, when anything
raises and after `max_iterations` (`ClaimNothing`, `Raise`, `Leave`), and nothing in
the repository calls it again; `Start` is whoever operates the worker doing so. A
crash ends the process and its threads and leaves the disk as it is. The reaper and
cancellation are the controller's. Transactions are atomic here. A heartbeat thread
left behind by an earlier `run_one` shares the connection but not the `conn_lock` of
the next one, whose statements may then fall into its transaction: that `claim`
raises is modelled, that a registration is rolled back with it is not.

### AcceptanceMatrix (extends JobQueue)

`ReadJobs` and `ReadAttempts` are the caller's two SELECTs, at any moments;
`BuildMatrix` reduces what was read. The reducer is a pure function, so it is
applied when the attempts are read. The coordinates of jobs never change; that
every repetition of every cell is planned once comes from `expand`. Excluded ids
are the complement of the selected ones; labels, digests and diagnostic codes are
left out.

### ArtifactStore

`files` are the digests on disk, `rows` the table, `refs` the digests named by
committed attempts. A put is `BeginPut`, `Replace` (the rename), `Register`, each a
step; `Abort` is any exception or crash in between. A worker stores restricted
evidence without retention and commits it; an importer is any other caller of
`put_stream`. `garbage_collect` is `Select`, then `Unlink` and `Clear` per row in
the order of digests, and may die in between. Connections are in autocommit mode,
so each statement is its own transaction. Bytes are their digest: `open_verified`,
`exists`, `get_path` and `dry_run` only read. Links at the target are among the
reasons of `Abort`. Policy and retention of a row never change: the conflict clause
does not touch them, and the trigger `artifacts_no_core_update` would abort a
statement that did.

### OutputCollector

The loop of `collect_outputs`: `CheckPath`, `Stat`, `StoreFile` per allowed path,
while a process that outlived its sandbox may still write (`Grow`). `CollectFails` is
every exception that is not one of the function's own checks: a file that vanished, an
error of the disk, of `put_stream` or of the database. Media types and kinds are left
out.

### Outcomes

`ParseCapture`, `ParseReport` and `ParseTests` follow the code branch by branch;
`Unresolved` is the worker's classification when the manifest could not be read.
The signs of failure of a capture are a set, a report is its list of results or
what is wrong with it; "raising" is a report that makes `parse` raise (nesting too
deep for `json.loads`, a duration too large for `float`), for which there is no
outcome. `Classify` applies the functions once to every input.

### Sandbox

`execute()` for the build and then for the verification, as `run_one` calls them.
`main` is the thread of `run_one`, whose pc is the next step of `execute`: `Launch`,
`LaunchFails` or `ThreadFails` (a reader thread cannot be started; the process runs
on, nobody waits for it or kills it, and the capture is that of a failed launch),
`WaitReturns` or `WaitExpires` (the process group is killed, a
process that left it is not), `Join` or `JoinExpires` per stream, `Snapshot` (the
buffers are copied and written to the logs) and `Return` (the report is looked at,
the capture is made with the flag as it is then). `reader[c][s]` are the threads;
one turn of their loop is `ReadChunk` or `ReadEnd`. Output is counted in units, the
chunk of 65536 bytes is `Chunk`. `proc.stdout` is a buffered reader, so `read`
returns a full chunk or, at the end of the pipe, the rest. The processes of a
command are external: they print, fork, exit and rewrite the report as they please,
also after the command has ended. `Collect` is what `run_one` does with logs and
report; `Raise` is an exception on the way, among them the report vanishing between
`is_file` and `open`, which leaves no attempt. Assumed: a thread whose pipe is closed
finishes within the five seconds of `join`; build and verification look at the same
report path; and the processes keep away from `capture/`. The last is an assumption
on the commands that nothing enforces: the directory is a sibling of their working
directory, they run as the worker's user, and `run_one` reads the logs back from it.
Environment, hashes and resource figures are left out.

### Migrations

`proc[p]` is `migrate()` in one process, `dir[p]` the directory it finds (two
releases have two), `db` the committed state and `work` what the open transaction
sees; `lock` is SQLite's write lock. A state of the database is the sequence of
scripts its schema was made by and the rows of `schema_migrations`, so that the two
can disagree. `Call` is everything up to the backup, decided by one SELECT (a CREATE
TABLE before it that finds the database busy raises and leaves everything as it was,
which is no step); `Unlink`
and `Copy` are `backup_database`; `Script`, `Record` and `Commit` apply one file,
`ScriptFails`, `Busy` and `RecordFails` its exceptions with their rollback. Scripts
hold no transaction control of their own, and whether a script succeeds a second
time is a constant. The foreign key check before COMMIT is among the reasons of
`ScriptFails`; the one at the end then finds nothing new and is not a step.

### Lineage

The recursion of `validate_lineage` unrolled: `path` is the chain of `dfs()` frames
and a step is one turn of the innermost loop. `starts` is what the loop over
`case_ids` has still before it and `todo[c]` what the loop of the frame of `c` has.
`case_ids` is a set and the parents come in the caller's order, so both are taken in
any order. Every step takes an element from one of these finite sets or ends a frame
or the call, so the call ends; that is the shape of a `for` and no property is made
of it. `TooDeep` is the interpreter's recursion limit.

## 3. Model checking

| run | instance | shows |
|---|---|---|
| queue | 2 runs with budgets 2 and 1, 3 jobs, 3 attempts, override 2, delay 1, mixed-up ids | IInv, VerdictIntegrity, VerdictFromLastClaim, ActiveAttemptIsCurrent, AttemptRowCheck, RetryBudget, FenceHistory, RunVerdict, TerminalIsFinal, CancelStopsWork, LiveLeaseIsKept, ImplementsFencedRegister |
| worker_safety | 2 workers, 1 job, 2 attempts, lease 2, delay 1 | WorkerInv, HeartbeatsEndWithRun, QuarantineIsFinal, LostLeaseNeverCommits, ImplementsQueue |
| worker_liveness | 1 worker, 1 job, 2 attempts | RunsFinish |
| worker_lost_lease | as worker_safety | violated: LostLeaseStartsNothing |
| matrix | 1 cell, 2 repetitions, 3 attempts, reads in any order | GradesAreVerdicts, CompleteMatrixIsDecided, GradesAreStable |
| store | 2 digests, worker, importer, collector, 1 crash | StoreInv, PurgeOnlyExpired, ExpiredIsPurged |
| store_retained | 1 digest, no collector crash | violated: EvidenceIsRetained |
| output_limits | 3 paths, sizes 0 to 3, limits 2, 3 and 2 files | LimitsHold, CollectionIsAllOrNothing |
| outcomes | 2 test ids, up to 2 results, 2 expected tests and 2 signs of failure | GradesAreClean, AcceptMeansPassed, OrderDoesNotMatter |
| sandbox | chunk 2, cap 1 or 2, up to 3 units of output on stdout, one process left behind per command | CaptureIsHonest, EvidenceIsOutput, AttemptEnds |
| migrations | 2 processes, 6 directories of up to 3 files, 3 targets, 1 crash or failed backup | SchemaIsRecorded, BackupIsPast, ReturnMeansMigrated, FilesInOrder, RetriesFinish |
| lineage | every graph of 3 cases and 1 foreign parent, 2 or 3 frames | LineageIsDecided, CycleIsShown |

Why the bounds are enough to show something. Two attempts per job give every race
between an old and a new holder, and two jobs of one run with a third of another
every transaction that touches more than one row or run; three attempts are one
more than the larger budget. A lease of one tick with a delay of
one already separates a live lease, an expired one, and an expired one that looks
live to a caller; `LeaseMs` = 2 lets a heartbeat come before, at and after expiry.
In the store one worker, one importer and one collector are the three roles of each
race; two digests are needed for the collector's loop. `MaxTime` and `MaxCrashes`
bound the clock and the collector's crashes; the writers may fail without bound.
Two signs at once show every precedence between two of them; a report of two
results holds a duplicate with contradicting statuses.
With a chunk of two, a cap of two lies on the boundary of a chunk and one of one
inside it, and output of up to three units ends before, at and after both; one
process that stays in the group and one that leaves it tell apart what the kill
reaches. Only stdout has output in this instance; that the two threads share one flag is
covered by the proof. A present report within the cap behaves like an
absent one, so `big` and
none are all there is to tell apart. The directories agree, differ by a release,
hold an edited, a broken or a repeated version or are not in order of version; two
processes give every pair of them. Three cases hold a chain, a common parent and
cycles of one, two and three.
Deadlock checking is off only where the code returns (OutputCollector, Outcomes,
Sandbox, Lineage).
Symmetry is over attempt ids and workers, which are only compared for equality, and
is not used with liveness.

Fairness. `FairSpec` assumes that threads of a live process are scheduled and their
commands end (each has a timeout), that time passes, and that a worker for which
there is something to claim again and again does not find `claim` raising every
time (`SF` of `ClaimWorks`). Two of its assumptions are about code outside the
repository: the controller keeps calling `reap_expired`, without which no crashed
worker's job could be freed; and somebody starts a worker again whose loop has ended
(`WF` of `Start`), without which RunsFinish would be false, since `run_until_terminal`
stops at the first empty claim and at any exception, and a job that is requeued
later is then claimed by nobody. Crashes and cancellations are never assumed.
Time cannot run past a step that is in the database for
`MaxDelay`, which is the busy timeout. `FairStore` assumes that the controller
calls `garbage_collect` again and again, and nothing of the writers. `FairSandbox`
assumes that the main thread and the reader threads run on, and nothing of the
processes: a command may run or hold a pipe for ever, and the timeouts of `wait` and
`join` are then what goes on. `FairMigrations` assumes that a call runs on, that
each process calls `migrate` again and again (every start of a service does), and
that a process that finds the write lock free again and again obtains it: a
transaction is far shorter than the five seconds the busy handler waits.

Where the code and its documentation disagree (the violated runs):

1. `worker.py` says "After lease loss: terminate execution"; `lease_lost` is only
   copied into a field that `complete` ignores, so a command is even started after
   the loss. Its second half, never an authoritative result, holds and is proved.
2. `retention_until` is "null for retained evidence"; evidence whose bytes were
   first registered with a retention is deleted. The conflict clause cannot simply
   take over the new values: `artifacts_no_core_update` aborts an UPDATE of them.

Observations that no run is about:

- `complete()` called with a clock reading older than that of a call that was
  quarantined can make the quarantined attempt authoritative, so QuarantineIsFinal
  is not true of arbitrary callers; the workers call `complete` once per claim and
  keep it (worker_safety, and proved as `QuarantineHolds`).
- Nothing in `expand` or the manifest forbids an audit without jobs. Its matrix has no
  cells and is called complete, while its run, which no transaction ever updates,
  stays PLANNED: CompleteMatrixIsDecided says that the run is final only of a plan
  with cells. (Found when the proof for plans of any size failed.)
- `selected_attempt_ids` is "One terminal selection per repetition" (`models/protocol.py`);
  where no attempt is authoritative, `aggregate_cell` selects the latest even if it
  is still running.
- If the attempts are read before the jobs, a matrix may be called complete while it
  reports incomplete repetitions: the caller must read the jobs first, which
  `jobs_first` in CompleteMatrixIsDecided records.
- `available` is "Whether bytes are presently retrievable"; a purge between the
  rename and the registration of a put leaves it set with no file.
- Duplicate results of a test are refused only by the comparison with a non-empty
  `expected_collection`, although `TestReport.results` is documented as "keyed
  uniquely by test ID". A required test that is listed as passed and as skipped, its
  skip permitted, then passes or fails by which of the two comes last:
  OrderDoesNotMatter excludes such reports (`Ambiguous`) where no expected collection
  that names each test once refuses them, and only those.
- `join(5)` may return while a process holds the pipe. The reader then still waits
  for a full chunk, and output shorter than that is not in its buffer: it is missing
  from the capture and `truncated` is not set. CaptureIsHonest is therefore exact
  only for streams that were waited for (`late` marks the others) and an upper
  bound for the rest.
- The logs are written only when there is output, so after a build that printed to
  a stream and a verification that did not, the build's output is stored as the
  attempt's. EvidenceIsOutput says nothing of such a stream; it says that a stream
  the verification did print to is never recorded with the build's output. The
  build's `truncated` flag is dropped.
- A process that lives on when `execute` returns may rewrite the report before
  `run_one` reads it: `truncated` and the digest of `execute` are then about other
  bytes than those graded (and recorded). EvidenceIsOutput excludes that case.
- `migrate` "Returns the latest applied schema version"; it returns the version of
  the file applied last, which is not the highest when a lower version is applied
  late or names do not sort like versions.
- A second call that finds something pending removes the backup of the first, so
  after a failed migration and a retry the state before both is gone.

## 4. Proofs

All theorems hold for every value of the constants that satisfies the named
assumptions of the modules (job ids are numbers, budgets and leases are positive,
NULL is no id, retention times are numbers). They do not bound the number of jobs,
runs, attempts, workers, digests or tests.

- `JobQueueProofs`: `Invariance` proves IInv inductive. The safety properties are
  not inductive by themselves. VerdictFromLastClaim needs that the selected attempt
  has its job's fence (SelectedFence) and that fences are dense and unique
  (FenceInv); committing needs that a held job's token, attempt and fence come from
  the same claim (LeaseInv); RetryBudget needs that a job in the queue has room for
  one more and that a job failed for its lease had none left (BudgetInv); and
  quarantine and abandonment write rows of attempts that
  are active or stale, hence ActiveAttemptIsCurrent and AttemptRowCheck. There is
  one lemma per action; the eight consequences follow. A second pass over the
  actions shows that each moves every job in one of five ways (StepShape: kept,
  taken, dropped, reaped, won); FinalityHolds, CancellationHolds and `Refinement`,
  that the queue implements FencedRegister under the mapping `slotBar`, follow from
  that alone. So does the first half of LeasesHold, that a live lease is kept; that a
  lease which is over for every caller is neither renewed nor committed under
  (DeadLease) goes through the actions once more.
- `WorkerProofs`: `WorkersUseQueue`, that every step of the composed system is a step
  of the queue or leaves it alone, so that all of the above holds of it
  (SystemIsFenced and SystemIsRegister say so of the fencing and the register);
  WorkersKeepStep and HeartbeatsEnd; and `LostLeasesStayLost`. The last needs LostInv: a lease a
  heartbeat has seen expired is expired for the clock reading `complete` is about to
  use too, because that reading is made under `conn_lock`. `QuarantineHolds` is a
  property of the composition only: QuarantineInv adds that the `run_one` of a
  quarantined attempt is past its `complete`, since only that call quarantines it
  and a claim always hands out an attempt that nobody has had.
- `MatrixProofs`: ReducerInv is inductive for any plan, any number of repetitions and
  any moments of the two reads. To IInv it adds VerdictState (a job's state follows
  from the outcome of its selected attempt) and ActiveIsOpen (an attempt under way has
  no outcome), and of what has been read that a cell not called incomplete was decided
  and still reduces to the same record (CellsStand): verdicts are for ever, so a reader
  may be late but never wrong. GradesStandOnVerdicts, GradesStay and
  CompletenessIsSound follow.
- `StoreProofs`: StoreInv is inductive. Policy and retention of a row never change,
  so what the collector selected stays due; a put that finds no row still finds its
  file. LiveArtifactsKept (a conjunct of StoreInv, which the run store checks) and
  OnlyExpiredPurged follow. For `collect_outputs`,
  CollectInv is inductive for any paths, sizes and limits: `total` is the sum of what
  was stored, is within the limit, and bounds from below what the files, which only
  grow, add up to. A sum over a function would need induction over data; the module
  states sums as running totals instead (`RunningTotal`: a function that starts at 0
  and grows by one file at a time), and the induction is that of the loop's own
  steps. CollectorKeepsLimits and CollectorIsAllOrNothing follow.
- `OutcomeProofs`: OnlyCleanGraded, AcceptIsEarned and OrderIsIrrelevant, for reports
  and manifests of any size. That `Counter` equality of the collected and the expected
  tests means equal length and equal tests is shown without induction on the length:
  the bijections between the places of each test are glued to one between all places.
  A permutation of a report carries the places of each test along in the same way, so
  the counts and the skips are the same; and so are the failures, because without a
  required test that both passed and was skipped the last result of a test is as good
  as any other. OrderIsIrrelevant excludes the reports that OrderDoesNotMatter does.
- `SandboxProofs`: CapturesAreHonest for any chunk, cap and output. The invariant
  SandboxInv says that a buffer is what its thread has taken up to the cap, that
  the flag is set exactly if some thread has taken more, and that a thread has
  ended only when nobody holds the pipe; since a pipe that nobody holds is never
  opened again, what an ended thread has taken is all there is. EvidenceIsSound
  adds LogInv: from the moment a command's buffers are written until `run_one` reads
  the logs, every stream with output in the capture has it in its log, and without a
  process the report stays the one `execute` saw. With CapturesAreHonest that ties
  what is recorded to what was printed.
- `MigrationProofs`: MigrationInv is inductive for any processes, directories and
  crashes. Its core is TransactionInv (the open transaction sees the committed state
  with one script executed, and then recorded) and TodoInv: a file that is not
  pending and precedes one that is has been applied with its content, which stays
  so because rows are never removed. SchemaRecorded, BackupsAreStates,
  ReturnsAreMigrated and FilesAppliedInOrder follow. That a version is never
  executed twice rests on the primary key alone.
- `LineageProofs`: LineageDecided for any cases. A cycle is stated without chains: a
  set of cases each of which has a parent in the set. LineageInv says that no case
  of such a set is ever marked visited, that the cases being visited are the path,
  each derived from the next, and that what a loop has passed over is visited or the
  next on the path. ShownCycleIsOne follows from the path.

Every invariant and action property that a passing run checks is stated by a theorem.
Only model-checked are RunsFinish, ExpiredIsPurged, AttemptEnds and RetriesFinish:
liveness under fairness is out of the prover's reach. The inductive
invariants that no run lists (CollectInv, ReducerInv, QuarantineInv) were checked by
TLC on the instances above before they were proved.

## 5. Plan and what is not modelled

Done, in this order: JobQueue, FencedRegister, their proofs; WorkerProcess with
proofs; AcceptanceMatrix; ArtifactStore with proofs, OutputCollector, Outcomes with a
proof; Lineage, Migrations and Sandbox with proofs; the proofs about the matrix, the
collector, accept and order, and quarantine.

Left:

1. Composition of WorkerProcess with ArtifactStore: evidence named by an
   authoritative attempt was stored before the commit.
2. `expand` of the planner against a reference (each coordinate once, stable ids).
3. The matrix over the composed system: MatrixProofs is about any callers of the
   queue, which covers the workers by WorkersUseQueue, but no theorem joins the two.

Not modelled: the local adapter (a one-shot import: parsing and path checks, no
state that outlives the call); `validate_patch` (reads a patch and raises);
hashing, canonical encoding and field validation of the domain models (functions
of one value); directories of crashed workers and temporary files of crashed puts
(nothing reads or removes them); metrics, registries, telemetry, reports and the
CLI, which are stubs or formatting at this commit.
