---------------------------- MODULE WorkerProofs ----------------------------
(***************************************************************************)
(* Proofs about WorkerProcess, for any number of workers, jobs and         *)
(* attempts: it implements the queue, a heartbeat never outlives its       *)
(* run_one, a lease seen as lost is never committed under, and an attempt  *)
(* in quarantine stays there.                                              *)
(***************************************************************************)
EXTENDS WorkerProcess, JobQueueProofs

-----------------------------------------------------------------------------
(* Every step is a step of the queue. *)

\* A handle in use is an attempt of a live run_one.
LEMMA HandleFacts ==
    ASSUME WorkerInv, NEW w \in Worker, ~At(w, "idle")
    PROVE  /\ worker[w].job \in AttemptId
           /\ worker[w].job \in Claimed
           /\ worker[w].age \in Delay
           /\ worker[w] \in WorkerState
BY DEF WorkerInv, WorkerTypeOK, HandleInv, Claimed, WorkerState

\* The main thread of a worker calls the queue's functions as its
\* specification allows.
LEMMA MainStepIsQueueStep ==
    ASSUME WorkerInv, NEW w \in Worker, MainStep(w)
    PROVE  [Next]_vars
<1>1. CASE ClaimOne(w)
  BY <1>1 DEF ClaimOne, Next, Claim
<1>2. CASE ClaimNothing(w)
  BY <1>2 DEF ClaimNothing, Next
<1>3. CASE EnterRunning(w)
  <2>1. worker[w].job \in Claimed
    BY <1>3, HandleFacts DEF EnterRunning, At
  <2> QED BY <1>3, <2>1 DEF EnterRunning, Next
<1>4. CASE CompleteOne(w)
  <2>1. /\ worker[w].job \in Claimed
        /\ worker[w].age \in Delay
    BY <1>4, HandleFacts DEF CompleteOne, At
  <2>2. worker[w].outcome \in Outcome
    BY <1>4 DEF CompleteOne, WorkerInv, HandleInv, At
  <2>3. worker[w].job \in Submittable(worker[w].job)
    BY <2>1 DEF Submittable
  <2>4. CASE Complete(worker[w].job, worker[w].job, worker[w].outcome, worker[w].age)
    BY <2>1, <2>2, <2>3, <2>4 DEF Next
  <2> QED BY <1>4, <2>4 DEF CompleteOne
<1>5. CASE \/ Resolve(w) \/ Prepare(w) \/ Build(w) \/ Execute(w) \/ StopHeartbeat(w)
           \/ JoinHeartbeat(w) \/ Collect(w) \/ ReadClock(w) \/ Finally(w) \/ Leave(w)
  BY <1>5 DEF Resolve, Prepare, Build, Execute, StopHeartbeat, JoinHeartbeat, Collect,
              ReadClock, Finally, Leave
<1> QED BY <1>1, <1>2, <1>3, <1>4, <1>5 DEF MainStep

\* So does everything else in the system.
LEMMA SystemStepIsQueueStep == WorkerInv /\ [SystemNext]_allVars => [Next]_vars
<1> SUFFICES ASSUME WorkerInv, [SystemNext]_allVars PROVE [Next]_vars
  OBVIOUS
<1>1. ASSUME NEW w \in Worker, MainStep(w) PROVE [Next]_vars
  BY <1>1, MainStepIsQueueStep
<1>2. ASSUME NEW w \in Worker, Start(w) \/ Crash(w) PROVE [Next]_vars
  BY <1>2 DEF Start, Crash
<1>3. ASSUME NEW h \in AttemptId, ThreadStep(h) PROVE [Next]_vars
  <2>1. CASE Beat(h)
    <3>1. h \in Claimed /\ thread[h].age \in Delay
      BY <2>1 DEF Beat, WorkerInv, ThreadInv, WorkerTypeOK, ThreadState
    <3> QED BY <2>1, <3>1 DEF Beat, Next
  <2>2. CASE Wake(h) \/ SeeStop(h) \/ BeatLost(h) \/ BeatError(h)
    BY <2>2 DEF Wake, SeeStop, BeatLost, BeatError
  <2> QED BY <1>3, <2>1, <2>2 DEF ThreadStep
<1>4. CASE Reap
  BY <1>4 DEF Reap, Next
<1>5. CASE Cancel
  BY <1>5 DEF Cancel, Next
<1>6. CASE PassTime
  BY <1>6 DEF PassTime, Next
<1>7. CASE UNCHANGED allVars
  BY <1>7 DEF allVars, vars
<1> QED BY <1>1, <1>2, <1>3, <1>4, <1>5, <1>6, <1>7 DEF SystemNext

-----------------------------------------------------------------------------
(* What the queue's transactions leave alone. *)

\* Attempt a stays where it is: its row is kept, and its job is not put under
\* it, nor is its lease changed.
Settled(a) ==
    LET j == attempts[a].job_id
    IN  /\ attempts'[a] # Nil
        /\ attempts'[a].job_id = j
        /\ jobs'[j].attempt_id = a /\ jobs'[j].state \in Active =>
              /\ jobs[j].attempt_id = a /\ jobs[j].state \in Active
              /\ jobs'[j].lease_left = jobs[j].lease_left

\* Attempt a does not become authoritative.
Undecided(a) ==
    attempts'[a].disposition = "authoritative" => attempts[a].disposition = "authoritative"

\* A step that does not touch the tables settles every attempt.
LEMMA UnchangedSettles ==
    ASSUME UNCHANGED vars, NEW a \in Claimed
    PROVE  Settled(a) /\ Undecided(a)
BY DEF Settled, Undecided, vars, Claimed

\* Failing the jobs in the queue settles every attempt.
LEMMA FailPendingSettles ==
    ASSUME IInv, NEW R, jobs' = FailPending(R), UNCHANGED attempts, NEW a \in Claimed
    PROVE  Settled(a) /\ Undecided(a)
<1>1. \A j \in Job : \/ jobs'[j] = jobs[j]
                     \/ jobs'[j] = CancelledRow(jobs[j]) /\ jobs[j] \in JobRow
  BY FailPendingFacts DEF IInv, TypeOK
<1>2. \A j \in Job : \/ jobs'[j] = jobs[j]
                     \/ jobs'[j].state = "FAILED"
  BY <1>1, CancelledRowFacts
<1>3. attempts[a].job_id \in Job /\ attempts[a] # Nil
  BY ClaimedFacts DEF IInv, Claimed
<1> QED BY <1>2, <1>3 DEF Settled, Undecided, Active

\* claim() puts a job under a fresh attempt, and settles the others.
LEMMA ClaimJobSettles ==
    ASSUME IInv, NEW r \in Run \cup {Nil}, NEW n \in AttemptId, NEW d \in Delay,
           ClaimJob(r, n, d), NEW a \in Claimed
    PROVE  Settled(a) /\ Undecided(a) /\ a # n
<1> DEFINE swept == FailPending(SweptRuns(r))
<1>1. PICK j \in Claimable(r) :
        /\ attempts[n] = Nil
        /\ jobs' = [swept EXCEPT ![j] = ClaimedRow(jobs[j], n, d)]
        /\ attempts' = [attempts EXCEPT ![n] = NewAttempt(j, jobs[j].fence + 1)]
  BY DEF ClaimJob
<1>2. j \in Job /\ jobs[j] \in JobRow
  BY DEF Claimable, Pending, IInv, TypeOK
<1>3. /\ swept \in [Job -> JobRow]
      /\ \A k \in Job : swept[k] = jobs[k] \/ swept[k] = CancelledRow(jobs[k])
  BY FailPendingFacts DEF IInv
<1> HIDE DEF swept
<1>4. a # n /\ attempts'[a] = attempts[a] /\ attempts[a] # Nil
  BY <1>1 DEF Claimed, IInv, TypeOK
<1>5. jobs'[j] = ClaimedRow(jobs[j], n, d) /\ ClaimedRow(jobs[j], n, d).attempt_id = n
  BY <1>1, <1>2, <1>3, ClaimedRowFacts
<1>6. \A k \in Job : \/ k = j
                     \/ jobs'[k] = jobs[k]
                     \/ jobs'[k].state = "FAILED"
  BY <1>1, <1>3, CancelledRowFacts DEF IInv, TypeOK
<1>7. attempts[a].job_id \in Job
  BY ClaimedFacts DEF IInv
<1> QED BY <1>4, <1>5, <1>6, <1>7 DEF Settled, Undecided, Active

\* mark_running changes a state from active to active.
LEMMA MarkRunningSettles ==
    ASSUME IInv, NEW h \in Claimed, NEW d \in Delay, MarkRunning(h, d), NEW a \in Claimed
    PROVE  Settled(a) /\ Undecided(a)
<1> DEFINE j == attempts[h].job_id
           new == [jobs[j] EXCEPT !.state = "RUNNING"]
<1>1. j \in Job /\ jobs[j] \in JobRow /\ jobs[j].state \in Active
  BY ClaimedFacts DEF IInv, MarkRunning, HoldsLease
<1>2. new.attempt_id = jobs[j].attempt_id /\ new.lease_left = jobs[j].lease_left
  BY <1>1 DEF JobRow
<1>3. jobs' = [jobs EXCEPT ![j] = new] /\ UNCHANGED attempts
  BY DEF MarkRunning
<1> HIDE DEF new, j
<1>4. \A k \in Job : jobs'[k] = IF k = j THEN new ELSE jobs[k]
  BY <1>1, <1>3 DEF IInv, TypeOK
<1>5. attempts[a].job_id \in Job /\ attempts[a] # Nil
  BY ClaimedFacts DEF IInv, Claimed
<1> QED BY <1>1, <1>2, <1>3, <1>4, <1>5 DEF Settled, Undecided

\* heartbeat() settles every attempt but its own.
LEMMA HeartbeatSettles ==
    ASSUME IInv, NEW h \in Claimed, NEW d \in Delay, Heartbeat(h, d), NEW a \in Claimed
    PROVE  /\ a # h => Settled(a)
           /\ UNCHANGED attempts
<1> DEFINE j == attempts[h].job_id
           l == LeaseMs - d
           new == [jobs[j] EXCEPT !.lease_left = l]
<1>1. j \in Job /\ jobs[j] \in JobRow /\ jobs[j].attempt_id = h
  BY ClaimedFacts DEF IInv, Heartbeat, HoldsLease
<1>2. jobs' = [jobs EXCEPT ![j] = new] /\ UNCHANGED attempts
  BY DEF Heartbeat
<1>3. l \in LeaseLeft
  BY LeaseRange
<1> HIDE DEF l, j
<1>4. new.attempt_id = jobs[j].attempt_id
  BY <1>1, <1>3, LeaseOnly
<1> HIDE DEF new
<1>5. \A k \in Job : jobs'[k] = IF k = j THEN new ELSE jobs[k]
  BY <1>1, <1>2 DEF IInv, TypeOK
<1>6. attempts[a].job_id \in Job /\ attempts[a] # Nil
  BY ClaimedFacts DEF IInv, Claimed
<1> QED BY <1>1, <1>2, <1>4, <1>5, <1>6 DEF Settled

\* A late complete() quarantines a row and leaves the jobs alone.
LEMMA CompleteStaleSettles ==
    ASSUME IInv, NEW h \in Claimed, NEW o \in Outcome, NEW d \in Delay,
           CompleteStale(h, h, o, d), NEW a \in Claimed
    PROVE  Settled(a) /\ Undecided(a)
<1>1. /\ UNCHANGED jobs
      /\ \/ UNCHANGED attempts
         \/ attempts' = [attempts EXCEPT ![h] = QuarantinedRow(attempts[h], o)]
  BY DEF CompleteStale, MarkAttemptStale
<1>2. /\ QuarantinedRow(attempts[h], o) # Nil
      /\ QuarantinedRow(attempts[h], o).job_id = attempts[h].job_id
      /\ QuarantinedRow(attempts[h], o).disposition = "stale"
  BY ClaimedFacts, AttemptRowFacts, NilIsNoRow DEF IInv
<1>3. \/ attempts'[a] = attempts[a]
      \/ attempts'[a] = QuarantinedRow(attempts[h], o) /\ a = h
  BY <1>1 DEF IInv, TypeOK, Claimed
<1>4. attempts[a] # Nil
  BY DEF Claimed
<1> QED BY <1>1, <1>2, <1>3, <1>4 DEF Settled, Undecided

\* A commit takes the lease off the row, and decides its own attempt only.
LEMMA CompleteCommitSettles ==
    ASSUME IInv, NEW h \in Claimed, NEW o \in Outcome, NEW d \in Delay,
           CompleteCommit(h, h, o, d), NEW a \in Claimed
    PROVE  Settled(a) /\ (a # h => Undecided(a))
<1> DEFINE j == attempts[h].job_id
           t == DecidedRow(jobs[j], h, o)
<1>1. /\ j \in Job /\ h \in AttemptId /\ jobs[j] \in JobRow
      /\ attempts' = [attempts EXCEPT ![h] = CommittedRow(attempts[h], o)]
      /\ jobs' = [jobs EXCEPT ![j] = t]
  BY ClaimedFacts DEF IInv, CompleteCommit
<1>2. t.state \notin Active
  BY <1>1, DecidedRowFacts DEF Active
<1>3. /\ CommittedRow(attempts[h], o) # Nil
      /\ CommittedRow(attempts[h], o).job_id = attempts[h].job_id
  BY ClaimedFacts, AttemptRowFacts, NilIsNoRow DEF IInv
<1> HIDE DEF j, t
<1>4. \A k \in Job : jobs'[k] = IF k = j THEN t ELSE jobs[k]
  BY <1>1 DEF IInv, TypeOK
<1>5. attempts'[a] = IF a = h THEN CommittedRow(attempts[h], o) ELSE attempts[a]
  BY <1>1 DEF IInv, TypeOK, Claimed
<1>6. attempts[a].job_id \in Job /\ attempts[a] # Nil
  BY ClaimedFacts DEF IInv, Claimed
<1> QED BY <1>2, <1>3, <1>4, <1>5, <1>6 DEF Settled, Undecided

\* The reaper takes the attempt off the rows it touches.
LEMMA ReapExpiredSettles ==
    ASSUME IInv, NEW m \in ReapArgs, NEW d \in Delay, ReapExpired(m, d), NEW a \in Claimed
    PROVE  Settled(a) /\ Undecided(a)
<1>1. /\ jobs' = [j \in Job |-> IF j \in Expired(d) THEN ReapedRow(j, m) ELSE jobs[j]]
      /\ attempts'[a] = AbandonedRow(attempts[a]) \/ attempts'[a] = attempts[a]
  BY DEF ReapExpired, Claimed
<1>2. /\ a \in AttemptId /\ attempts[a] \in AttemptRow /\ attempts[a] # Nil
      /\ attempts[a].job_id \in Job
  BY ClaimedFacts DEF IInv, Claimed
<1>3. /\ AbandonedRow(attempts[a]) # Nil
      /\ AbandonedRow(attempts[a]).job_id = attempts[a].job_id
      /\ AbandonedRow(attempts[a]).disposition = "abandoned"
  BY <1>2, AbandonedRowFacts, NilIsNoRow
<1>4. \A j \in Job : jobs'[j] = jobs[j] \/ jobs'[j].attempt_id = Nil
  BY <1>1, ReapedRowFacts DEF IInv, TypeOK
<1> QED BY <1>1, <1>2, <1>3, <1>4, NilAssumption DEF Settled, Undecided

-----------------------------------------------------------------------------
(* WorkerInv is inductive. *)

OutcomePC == {"stop", "join", "collect", "commit", "committing"}

\* The queue forgets no attempt.
LEMMA ClaimedStays ==
    ASSUME \A a \in Claimed : attempts'[a] # Nil
    PROVE  Claimed \subseteq Claimed'
BY DEF Claimed

\* A step keeps LostInv if it settles the attempts whose lease was seen as
\* lost, and a worker that starts to commit has just read the clock.
LEMMA LostStep ==
    ASSUME WorkerInv,
           \A a \in Claimed : thread[a].lost => Settled(a),
           \A a \in AttemptId : thread'[a].lost => thread[a].lost,
           \A w \in Worker : worker'[w].pc = "committing" =>
              \/ worker'[w].age = 0
              \/ At(w, "committing") /\ worker'[w].job = worker[w].job
                 /\ worker'[w].age = worker[w].age,
           IInv'
    PROVE  LostInv'
<1> SUFFICES ASSUME NEW a \in Claimed', thread'[a].lost,
                    jobs'[attempts'[a].job_id].attempt_id = a,
                    jobs'[attempts'[a].job_id].state \in Active
             PROVE  LET row == jobs'[attempts'[a].job_id]
                    IN  /\ row.lease_left <= 0
                        /\ \A w \in Worker :
                              worker'[w].pc = "committing" /\ worker'[w].job = a =>
                                 row.lease_left + worker'[w].age <= 0
  BY DEF LostInv, At
<1>1. a \in AttemptId /\ thread[a].lost
  BY DEF Claimed
<1>2. a \in Claimed
  BY <1>1 DEF WorkerInv, ThreadInv
<1>3. Settled(a)
  BY <1>1, <1>2
<1> DEFINE j == attempts[a].job_id
<1>4. /\ attempts'[a].job_id = j
      /\ jobs[j].attempt_id = a /\ jobs[j].state \in Active
      /\ jobs'[j].lease_left = jobs[j].lease_left
  BY <1>3 DEF Settled
<1>5. /\ jobs[j].lease_left <= 0
      /\ \A w \in Worker : At(w, "committing") /\ worker[w].job = a =>
            jobs[j].lease_left + worker[w].age <= 0
  BY <1>1, <1>2, <1>4 DEF WorkerInv, LostInv
<1>6. jobs'[j].lease_left \in Int
  <2>1. j \in Job /\ jobs'[j] \in JobRow
    BY <1>4, ClaimedFacts DEF IInv, TypeOK, AttemptRow, Claimed
  <2>2. jobs'[j].lease_left # Nil
    BY <1>4, <2>1 DEF IInv, LeaseInv
  <2> QED BY <2>1, <2>2, TimeAssumption DEF JobRow, LeaseLeft
<1> HIDE DEF j
<1> QED BY <1>4, <1>5, <1>6

\* A step of run_one, from the claim to its finally, keeps WorkerInv.
LEMMA RunOneStep ==
    ASSUME IInv', WorkerInv, NEW w \in Worker, NEW new \in WorkerState,
           worker' = [worker EXCEPT ![w] = new],
           ~At(w, "idle"), ~At(w, "leave"),
           new.job = worker[w].job,
           new.pc \notin {"idle", "claimed"},
           new.pc = "resolve" => At(w, "claimed") /\ thread' = thread,
           new.pc \in OutcomePC => new.outcome \in Outcome,
           new.pc = "committing" => new.age = 0,
           new.pc = "leave" => thread'[worker[w].job].stop,
           thread' \in [AttemptId -> ThreadState],
           \A h \in AttemptId :
              /\ h # worker[w].job => thread'[h] = thread[h]
              /\ thread'[h].owner = thread[h].owner
              /\ thread'[h].lost = thread[h].lost
              /\ thread'[h].lost => thread'[h].pc = "gone",
           workspaces' \subseteq AttemptId,
           \A a \in Claimed : Settled(a)
    PROVE  WorkerInv'
<1> DEFINE g == worker[w].job
<1>1. /\ g \in AttemptId /\ g \in Claimed /\ g # Nil /\ thread[g].owner = w
      /\ worker \in [Worker -> WorkerState]
  BY HandleFacts, NilAssumption DEF WorkerInv, HandleInv, WorkerTypeOK, At
<1>2. /\ worker' \in [Worker -> WorkerState]
      /\ worker'[w] = new
      /\ \A v \in Worker : v # w => worker'[v] = worker[v]
      /\ \A v \in Worker : worker'[v].job = worker[v].job
      /\ \A v \in Worker : worker'[v].pc = "idle" <=> worker[v].pc = "idle"
  BY <1>1 DEF At
<1>3. Claimed \subseteq Claimed'
  BY ClaimedStays DEF Settled
<1>4. WorkerTypeOK'
  BY <1>2 DEF WorkerTypeOK
<1>5. \A v \in Worker : v # w /\ ~At(v, "idle") => worker[v].job # g /\ worker[v].job \in AttemptId
  BY <1>1 DEF WorkerInv, HandleInv, At, Claimed
<1>6. HandleInv'
  <2>1. \A v \in Worker :
           IF worker'[v].pc = "idle" THEN worker'[v].job = Nil
           ELSE /\ worker'[v].job \in Claimed'
                /\ thread'[worker'[v].job].owner = v
    BY <1>1, <1>2, <1>3, <1>5 DEF WorkerInv, HandleInv, At, Claimed
  <2>2. \A u, v \in Worker : worker'[u].job = worker'[v].job => u = v \/ worker'[v].pc = "idle"
    BY <1>2 DEF WorkerInv, HandleInv, At
  <2>3. \A v \in Worker : worker'[v].pc = "claimed" \/ worker'[v].pc = "resolve" =>
           thread'[worker'[v].job].pc = "none"
    <3>1. CASE new.pc = "resolve"
      BY <1>2, <1>5, <3>1 DEF WorkerInv, HandleInv, At
    <3>2. CASE new.pc # "resolve"
      BY <1>2, <1>5, <3>2 DEF WorkerInv, HandleInv, At
    <3> QED BY <3>1, <3>2
  <2>4. \A v \in Worker : worker'[v].pc \in OutcomePC => worker'[v].outcome \in Outcome
    BY <1>2 DEF WorkerInv, HandleInv, OutcomePC, At
  <2> QED BY <2>1, <2>2, <2>3, <2>4 DEF HandleInv, At, OutcomePC
<1>7. ThreadInv'
  BY <1>1, <1>3 DEF WorkerInv, ThreadInv
<1>8. LostInv'
  <2>1. \A v \in Worker : worker'[v].pc = "committing" =>
              \/ worker'[v].age = 0
              \/ At(v, "committing") /\ worker'[v].job = worker[v].job
                 /\ worker'[v].age = worker[v].age
    BY <1>2 DEF At
  <2> QED BY <2>1, LostStep
<1>9. HeartbeatsEndWithRun'
  <2> SUFFICES ASSUME NEW h \in AttemptId,
                      thread'[h].pc \in {"waiting", "ready"}, ~thread'[h].stop
               PROVE  \E v \in Worker : worker'[v].job = h /\ worker'[v].pc # "leave"
    BY DEF HeartbeatsEndWithRun, At
  <2>1. CASE h = g
    BY <1>2, <2>1
  <2>2. CASE h # g
    <3>1. PICK v \in Worker : worker[v].job = h /\ ~At(v, "leave")
      BY <2>2 DEF WorkerInv, HeartbeatsEndWithRun
    <3> QED BY <1>2, <2>2, <3>1 DEF At
  <2> QED BY <2>1, <2>2
<1> QED BY <1>4, <1>6, <1>7, <1>8, <1>9 DEF WorkerInv

\* Assignments to the main thread's state change the fields they name.
LEMMA PcField ==
    ASSUME NEW row \in WorkerState, NEW p \in MainPC
    PROVE  LET new == [row EXCEPT !.pc = p]
           IN  /\ new \in WorkerState
               /\ new.pc = p /\ new.job = row.job /\ new.outcome = row.outcome
BY DEF WorkerState

\* The outcome.
LEMMA OutcomeField ==
    ASSUME NEW row \in WorkerState, NEW o \in Outcome
    PROVE  LET new == [row EXCEPT !.pc = "stop", !.outcome = o]
           IN  /\ new \in WorkerState
               /\ new.pc = "stop" /\ new.job = row.job /\ new.outcome = o
BY DEF WorkerState, MainPC

\* The handle.
LEMMA JobField ==
    ASSUME NEW row \in WorkerState, NEW a \in AttemptId
    PROVE  LET new == [row EXCEPT !.pc = "claimed", !.job = a]
           IN  /\ new \in WorkerState
               /\ new.pc = "claimed" /\ new.job = a
BY DEF WorkerState, MainPC

\* The age of the clock reading.
LEMMA AgeField ==
    ASSUME NEW row \in WorkerState, NEW p \in MainPC, 0 \in Delay
    PROVE  LET new == [row EXCEPT !.pc = p, !.age = 0]
           IN  /\ new \in WorkerState
               /\ new.pc = p /\ new.job = row.job
               /\ new.outcome = row.outcome /\ new.age = 0
BY DEF WorkerState

\* An exception: run_one goes to its finally and the loop will not go on.
LEMMA RaiseField ==
    ASSUME NEW row \in WorkerState, 0 \in Delay
    PROVE  LET new == [row EXCEPT !.pc = "finally", !.again = FALSE]
               last == [row EXCEPT !.pc = "finally", !.age = 0, !.again = FALSE]
           IN  /\ new \in WorkerState /\ new.pc = "finally" /\ new.job = row.job
               /\ last \in WorkerState /\ last.pc = "finally" /\ last.job = row.job
BY DEF WorkerState, MainPC

\* A worker between two calls of run_one has no attempt.
LEMMA IdleField ==
    ASSUME NEW b \in BOOLEAN, 0 \in Delay
    PROVE  LET new == [Idle EXCEPT !.again = b]
           IN  /\ new \in WorkerState /\ new.pc = "idle" /\ new.job = Nil
               /\ Idle \in WorkerState /\ Idle.pc = "idle" /\ Idle.job = Nil
BY DEF Idle, WorkerState, MainPC

\* Assignments to a heartbeat thread's state.
LEMMA ThreadPcField ==
    ASSUME NEW row \in ThreadState, NEW p \in {"none", "waiting", "ready", "gone"}
    PROVE  LET new == [row EXCEPT !.pc = p]
           IN  /\ new \in ThreadState
               /\ new.pc = p /\ new.stop = row.stop
               /\ new.lost = row.lost /\ new.owner = row.owner
BY DEF ThreadState

\* stop_heartbeat is set.
LEMMA StopField ==
    ASSUME NEW row \in ThreadState
    PROVE  LET new == [row EXCEPT !.stop = TRUE]
           IN  /\ new \in ThreadState
               /\ new.pc = row.pc /\ new.stop
               /\ new.lost = row.lost /\ new.owner = row.owner
BY DEF ThreadState

\* The process is noted.
LEMMA OwnerField ==
    ASSUME NEW row \in ThreadState, NEW w \in Worker
    PROVE  LET new == [row EXCEPT !.owner = w]
           IN  /\ new \in ThreadState
               /\ new.pc = row.pc /\ new.stop = row.stop
               /\ new.lost = row.lost /\ new.owner = w
BY DEF ThreadState

\* The thread goes on, with or without lease_lost set.
LEMMA ThreadAgeField ==
    ASSUME NEW row \in ThreadState, NEW p \in {"none", "waiting", "ready", "gone"},
           0 \in Delay
    PROVE  LET new == [row EXCEPT !.pc = p, !.age = 0]
               late == [row EXCEPT !.pc = p, !.age = 0, !.lost = TRUE]
           IN  /\ new \in ThreadState
               /\ new.pc = p /\ new.stop = row.stop
               /\ new.lost = row.lost /\ new.owner = row.owner
               /\ late \in ThreadState
               /\ late.pc = p /\ late.stop = row.stop /\ late.owner = row.owner
BY DEF ThreadState

\* 0 is the age of a clock reading just made.
LEMMA ZeroDelay == 0 \in Delay
BY TimeAssumption DEF Delay

\* After complete(), or its exception, run_one is in its finally.
LEMMA CompleteMoves ==
    ASSUME NEW w \in Worker, worker[w] \in WorkerState, CompleteOne(w)
    PROVE  \E new \in WorkerState : /\ new.pc = "finally" /\ new.job = worker[w].job
                                   /\ worker' = [worker EXCEPT ![w] = new]
<1> DEFINE back == [worker[w] EXCEPT !.pc = "finally", !.age = 0]
           last == [worker[w] EXCEPT !.pc = "finally", !.age = 0, !.again = FALSE]
<1>1. back \in WorkerState /\ back.pc = "finally" /\ back.job = worker[w].job
  BY AgeField, ZeroDelay DEF MainPC
<1>2. last \in WorkerState /\ last.pc = "finally" /\ last.job = worker[w].job
  BY RaiseField, ZeroDelay
<1>3. worker' = [worker EXCEPT ![w] = back] \/ worker' = [worker EXCEPT ![w] = last]
  BY DEF CompleteOne
<1> HIDE DEF back, last
<1> QED BY <1>1, <1>2, <1>3

\* Steps of run_one that touch neither the tables nor the thread.
LEMMA QuietStep ==
    ASSUME IInv', WorkerInv, NEW w \in Worker, UNCHANGED <<vars, thread>>,
           \/ Prepare(w) \/ Build(w) \/ Execute(w) \/ JoinHeartbeat(w) \/ Collect(w)
           \/ ReadClock(w)
    PROVE  WorkerInv'
<1>1. /\ ~At(w, "idle") /\ ~At(w, "leave") /\ ~At(w, "claimed")
      /\ workspaces' \subseteq AttemptId
  <2>1. ~At(w, "idle") /\ ~At(w, "leave") /\ ~At(w, "claimed")
    BY DEF Prepare, Build, Execute, JoinHeartbeat, Collect, ReadClock, At
  <2>2. worker[w].job \in AttemptId
    BY <2>1, HandleFacts
  <2> QED BY <2>1, <2>2 DEF Prepare, Build, Execute, JoinHeartbeat, Collect, ReadClock,
                            WorkerInv, WorkerTypeOK
<1>2. worker[w] \in WorkerState /\ worker[w].job \in AttemptId
  BY <1>1, HandleFacts
<1>3. \A a \in Claimed : Settled(a)
  BY UnchangedSettles
<1>4. /\ thread' \in [AttemptId -> ThreadState]
      /\ \A h \in AttemptId : thread'[h].lost => thread'[h].pc = "gone"
  BY DEF WorkerInv, WorkerTypeOK, ThreadInv
<1>5. ASSUME NEW new \in WorkerState, worker' = [worker EXCEPT ![w] = new],
             new.job = worker[w].job,
             new.pc \notin {"idle", "claimed", "resolve", "leave"},
             new.pc \in OutcomePC => new.outcome \in Outcome,
             new.pc = "committing" => new.age = 0
      PROVE  WorkerInv'
  BY <1>1, <1>3, <1>4, <1>5, RunOneStep
<1>6. ASSUME NEW p \in {"build", "execute"}, Goto(w, p) PROVE WorkerInv'
  <2> DEFINE new == [worker[w] EXCEPT !.pc = p]
  <2>1. p \in MainPC
    BY DEF MainPC
  <2>2. new \in WorkerState /\ new.pc = p /\ new.job = worker[w].job
    BY <1>2, <2>1, PcField
  <2>3. worker' = [worker EXCEPT ![w] = new]
    BY <1>6 DEF Goto
  <2> HIDE DEF new
  <2> QED BY <1>5, <2>2, <2>3 DEF OutcomePC
<1>7. ASSUME NEW o \in Outcome, Yield(w, o) PROVE WorkerInv'
  <2> DEFINE new == [worker[w] EXCEPT !.pc = "stop", !.outcome = o]
  <2>1. /\ new \in WorkerState /\ new.pc = "stop" /\ new.job = worker[w].job
        /\ new.outcome \in Outcome
    BY <1>2, <1>7, OutcomeField
  <2>2. worker' = [worker EXCEPT ![w] = new]
    BY <1>7 DEF Yield
  <2> HIDE DEF new
  <2> QED BY <1>5, <2>1, <2>2
<1>8. ASSUME NEW p \in {"collect", "commit"}, Goto(w, p), worker[w].pc \in OutcomePC
      PROVE  WorkerInv'
  <2> DEFINE new == [worker[w] EXCEPT !.pc = p]
  <2>1. p \in MainPC
    BY DEF MainPC
  <2>2. /\ new \in WorkerState /\ new.pc = p /\ new.job = worker[w].job
        /\ new.outcome = worker[w].outcome
    BY <1>2, <2>1, PcField
  <2>3. worker' = [worker EXCEPT ![w] = new]
    BY <1>8 DEF Goto
  <2>4. worker[w].outcome \in Outcome
    BY <1>8 DEF WorkerInv, HandleInv, OutcomePC
  <2> HIDE DEF new
  <2> QED BY <1>5, <1>8, <2>2, <2>3, <2>4
<1>15. ASSUME Raise(w) PROVE WorkerInv'
  <2> DEFINE new == [worker[w] EXCEPT !.pc = "finally", !.again = FALSE]
  <2>1. new \in WorkerState /\ new.pc = "finally" /\ new.job = worker[w].job
    BY <1>2, RaiseField, ZeroDelay
  <2>2. worker' = [worker EXCEPT ![w] = new]
    BY <1>15 DEF Raise
  <2> HIDE DEF new
  <2> QED BY <1>5, <2>1, <2>2 DEF OutcomePC
<1>9. CASE Prepare(w)
  BY <1>6, <1>7, <1>9 DEF Prepare
<1>10. CASE Build(w)
  BY <1>6, <1>7, <1>10, <1>15 DEF Build
<1>11. CASE Execute(w)
  BY <1>7, <1>11, <1>15 DEF Execute
<1>12. CASE JoinHeartbeat(w)
  BY <1>8, <1>12 DEF JoinHeartbeat, At, OutcomePC
<1>13. CASE Collect(w)
  BY <1>8, <1>13, <1>15 DEF Collect, At, OutcomePC
<1>14. CASE ReadClock(w)
  <2> DEFINE new == [worker[w] EXCEPT !.pc = "committing", !.age = 0]
  <2>1. /\ new \in WorkerState /\ new.pc = "committing" /\ new.job = worker[w].job
        /\ new.outcome = worker[w].outcome /\ new.age = 0
    BY <1>2, AgeField, ZeroDelay DEF MainPC
  <2>2. worker' = [worker EXCEPT ![w] = new]
    BY <1>14 DEF ReadClock
  <2>3. worker[w].outcome \in Outcome
    BY <1>14 DEF ReadClock, WorkerInv, HandleInv, At
  <2> HIDE DEF new
  <2> QED BY <1>5, <2>1, <2>2, <2>3
<1> QED BY <1>9, <1>10, <1>11, <1>12, <1>13, <1>14

\* Steps of run_one that call the queue: mark_running and complete.
LEMMA CallingStep ==
    ASSUME IInv, IInv', WorkerInv, NEW w \in Worker, EnterRunning(w) \/ CompleteOne(w)
    PROVE  WorkerInv'
<1>1. /\ ~At(w, "idle") /\ ~At(w, "leave")
      /\ UNCHANGED <<thread, workspaces>>
  BY DEF EnterRunning, CompleteOne, At
<1>2. worker[w] \in WorkerState /\ worker[w].job \in Claimed /\ worker[w].age \in Delay
  BY <1>1, HandleFacts
<1>3. /\ thread' \in [AttemptId -> ThreadState]
      /\ \A h \in AttemptId : thread'[h].lost => thread'[h].pc = "gone"
      /\ workspaces' \subseteq AttemptId
  BY <1>1 DEF WorkerInv, WorkerTypeOK, ThreadInv
<1>4. ASSUME NEW new \in WorkerState, worker' = [worker EXCEPT ![w] = new],
             new.job = worker[w].job,
             \/ new.pc = "finally"
             \/ new.pc = "resolve" /\ At(w, "claimed"),
             \A a \in Claimed : Settled(a)
      PROVE  WorkerInv'
  <2>1. /\ new.pc \notin {"idle", "claimed", "leave", "committing"}
        /\ new.pc \notin OutcomePC
        /\ new.pc = "resolve" => At(w, "claimed") /\ thread' = thread
    BY <1>1, <1>4 DEF OutcomePC
  <2> QED BY <1>1, <1>3, <1>4, <2>1, RunOneStep
<1>5. ASSUME EnterRunning(w), Goto(w, "resolve"), \A a \in Claimed : Settled(a)
      PROVE  WorkerInv'
  <2> DEFINE new == [worker[w] EXCEPT !.pc = "resolve"]
  <2>1. "resolve" \in MainPC
    BY DEF MainPC
  <2>2. new \in WorkerState /\ new.pc = "resolve" /\ new.job = worker[w].job
    BY <1>2, <2>1, PcField
  <2>3. worker' = [worker EXCEPT ![w] = new]
    BY <1>5 DEF Goto
  <2>4. At(w, "claimed")
    BY <1>5 DEF EnterRunning
  <2> HIDE DEF new
  <2> QED BY <1>4, <1>5, <2>2, <2>3, <2>4
<1>6. CASE EnterRunning(w)
  <2>1. ASSUME NEW d \in Delay, MarkRunning(worker[w].job, d), Goto(w, "resolve")
        PROVE  WorkerInv'
    BY <1>2, <1>5, <1>6, <2>1, MarkRunningSettles
  <2>2. ASSUME Raise(w), UNCHANGED vars PROVE WorkerInv'
    <3> DEFINE new == [worker[w] EXCEPT !.pc = "finally", !.again = FALSE]
    <3>1. new \in WorkerState /\ new.pc = "finally" /\ new.job = worker[w].job
      BY <1>2, RaiseField, ZeroDelay
    <3>2. worker' = [worker EXCEPT ![w] = new]
      BY <2>2 DEF Raise
    <3> HIDE DEF new
    <3> QED BY <1>4, <2>2, <3>1, <3>2, UnchangedSettles
  <2> QED BY <1>6, <2>1, <2>2 DEF EnterRunning
<1>7. CASE CompleteOne(w)
  <2>1. PICK new \in WorkerState : /\ new.pc = "finally" /\ new.job = worker[w].job
                                  /\ worker' = [worker EXCEPT ![w] = new]
    BY <1>2, <1>7, CompleteMoves
  <2>3. worker[w].outcome \in Outcome
    BY <1>7 DEF CompleteOne, WorkerInv, HandleInv, At
  <2>4. \A a \in Claimed : Settled(a)
    BY <1>2, <1>7, <2>3, CompleteStaleSettles, CompleteCommitSettles, UnchangedSettles
       DEF CompleteOne, Complete
  <2> QED BY <1>4, <2>1, <2>4
<1> QED BY <1>6, <1>7

\* Steps of run_one that start or stop the heartbeat thread.
LEMMA ThreadCallStep ==
    ASSUME IInv', WorkerInv, NEW w \in Worker, UNCHANGED vars,
           Resolve(w) \/ StopHeartbeat(w) \/ Finally(w)
    PROVE  WorkerInv'
<1> DEFINE g == worker[w].job
<1>1. /\ ~At(w, "idle") /\ ~At(w, "leave")
      /\ UNCHANGED workspaces
  BY DEF Resolve, StopHeartbeat, Finally, At
<1>2. worker[w] \in WorkerState /\ g \in Claimed /\ g \in AttemptId
  BY <1>1, HandleFacts
<1>3. \A a \in Claimed : Settled(a)
  BY UnchangedSettles
<1>4. /\ thread \in [AttemptId -> ThreadState]
      /\ \A h \in AttemptId : thread[h].lost => thread[h].pc = "gone"
      /\ workspaces' \subseteq AttemptId
  BY <1>1 DEF WorkerInv, WorkerTypeOK, ThreadInv
<1>5. ASSUME NEW t \in ThreadState, thread' = [thread EXCEPT ![g] = t],
             t.owner = thread[g].owner, t.lost = thread[g].lost,
             t.lost => t.pc = "gone",
             NEW p \in {"prepare", "join", "leave"}, Goto(w, p),
             p = "join" => worker[w].outcome \in Outcome,
             p = "leave" => t.stop
      PROVE  WorkerInv'
  <2> DEFINE new == [worker[w] EXCEPT !.pc = p]
  <2>1. p \in MainPC
    BY DEF MainPC
  <2>2. /\ new \in WorkerState /\ new.pc = p /\ new.job = g
        /\ new.outcome = worker[w].outcome
    BY <1>2, <2>1, PcField
  <2>3. worker' = [worker EXCEPT ![w] = new]
    BY <1>5 DEF Goto
  <2> HIDE DEF new
  <2>4. /\ thread' \in [AttemptId -> ThreadState]
        /\ thread'[g] = t
        /\ \A h \in AttemptId :
              /\ h # g => thread'[h] = thread[h]
              /\ thread'[h].owner = thread[h].owner
              /\ thread'[h].lost = thread[h].lost
              /\ thread'[h].lost => thread'[h].pc = "gone"
    BY <1>2, <1>4, <1>5
  <2>5. /\ new.pc \notin {"idle", "claimed", "resolve", "committing"}
        /\ new.pc \in OutcomePC => new.outcome \in Outcome
        /\ new.pc = "leave" => thread'[g].stop
    BY <1>5, <2>2, <2>4 DEF OutcomePC
  <2> QED BY <1>1, <1>3, <1>4, <2>2, <2>3, <2>4, <2>5, RunOneStep
<1>6. thread[g] \in ThreadState
  BY <1>2, <1>4
<1>7. CASE Resolve(w)
  <2>1. CASE /\ thread' = [thread EXCEPT ![g] = [thread[g] EXCEPT !.pc = "waiting"]]
             /\ Goto(w, "prepare")
    <3> DEFINE t == [thread[g] EXCEPT !.pc = "waiting"]
    <3>1. /\ t \in ThreadState /\ t.pc = "waiting"
          /\ t.owner = thread[g].owner /\ t.lost = thread[g].lost
      BY <1>6, ThreadPcField
    <3>2. thread[g].pc = "none"
      BY <1>7 DEF Resolve, WorkerInv, HandleInv
    <3>3. ~thread[g].lost
      BY <1>2, <1>4, <3>2
    <3>4. thread' = [thread EXCEPT ![g] = t]
      BY <2>1
    <3> HIDE DEF t
    <3> QED BY <1>5, <2>1, <3>1, <3>3, <3>4
  <2>2. ASSUME NEW o \in Outcome, Yield(w, o), UNCHANGED thread PROVE WorkerInv'
    <3> DEFINE new == [worker[w] EXCEPT !.pc = "stop", !.outcome = o]
    <3>1. /\ new \in WorkerState /\ new.pc = "stop" /\ new.job = g
          /\ new.outcome = o
      BY <1>2, OutcomeField
    <3>2. worker' = [worker EXCEPT ![w] = new]
      BY <2>2 DEF Yield
    <3> HIDE DEF new
    <3>3. /\ new.pc \notin {"idle", "claimed", "resolve", "committing", "leave"}
          /\ thread' \in [AttemptId -> ThreadState]
          /\ \A h \in AttemptId : thread'[h].lost => thread'[h].pc = "gone"
      BY <1>4, <2>2, <3>1
    <3> QED BY <1>1, <1>3, <1>4, <2>2, <3>1, <3>2, <3>3, RunOneStep
  <2> QED BY <1>7, <2>1, <2>2 DEF Resolve
<1>8. CASE StopHeartbeat(w) \/ Finally(w)
  <2> DEFINE t == [thread[g] EXCEPT !.stop = TRUE]
  <2>1. /\ t \in ThreadState /\ t.pc = thread[g].pc /\ t.stop
        /\ t.owner = thread[g].owner /\ t.lost = thread[g].lost
    BY <1>6, StopField
  <2>2. thread' = [thread EXCEPT ![g] = t]
    BY <1>8 DEF StopHeartbeat, Finally, SetStop
  <2>3. t.lost => t.pc = "gone"
    BY <1>2, <1>4, <2>1
  <2> HIDE DEF t
  <2>4. CASE StopHeartbeat(w)
    <3>1. Goto(w, "join") /\ worker[w].outcome \in Outcome
      BY <2>4 DEF StopHeartbeat, WorkerInv, HandleInv, At
    <3> QED BY <1>5, <2>1, <2>2, <2>3, <3>1
  <2>5. CASE Finally(w)
    <3>1. Goto(w, "leave")
      BY <2>5 DEF Finally
    <3> QED BY <1>5, <2>1, <2>2, <2>3, <3>1
  <2> QED BY <1>8, <2>4, <2>5
<1> QED BY <1>7, <1>8

\* Steps of the queue that no worker takes part in.
LEMMA QueueOnlyStep ==
    ASSUME IInv', WorkerInv, UNCHANGED localVars, \A a \in Claimed : Settled(a)
    PROVE  WorkerInv'
<1>1. Claimed \subseteq Claimed'
  BY ClaimedStays DEF Settled
<1>2. UNCHANGED <<worker, thread, workspaces>>
  BY DEF localVars
<1>3. WorkerTypeOK' /\ HeartbeatsEndWithRun'
  BY <1>2 DEF WorkerInv, WorkerTypeOK, HeartbeatsEndWithRun, At
<1>4. HandleInv' /\ ThreadInv'
  BY <1>1, <1>2 DEF WorkerInv, HandleInv, ThreadInv, At
<1>5. LostInv'
  BY <1>2, LostStep DEF At
<1> QED BY <1>3, <1>4, <1>5 DEF WorkerInv

\* claim() gives the worker an attempt nobody has had.
LEMMA ClaimStep ==
    ASSUME IInv, IInv', WorkerInv, NEW w \in Worker, ClaimOne(w)
    PROVE  WorkerInv'
<1>1. PICK r \in Run \cup {Nil}, a \in AttemptId, d \in Delay :
        /\ ClaimJob(r, a, d)
        /\ worker' = [worker EXCEPT ![w] = [@ EXCEPT !.pc = "claimed", !.job = a]]
        /\ thread' = [thread EXCEPT ![a] = [@ EXCEPT !.owner = w]]
  BY DEF ClaimOne
<1>2. /\ At(w, "idle") /\ UNCHANGED workspaces
      /\ worker \in [Worker -> WorkerState] /\ thread \in [AttemptId -> ThreadState]
  BY DEF ClaimOne, WorkerInv, WorkerTypeOK
<1>3. \A b \in Claimed : Settled(b) /\ b # a
  BY <1>1, ClaimJobSettles
<1>4. a \notin Claimed /\ Claimed \subseteq Claimed' /\ a \in Claimed'
  <2>1. Claimed \subseteq Claimed'
    BY <1>3, ClaimedStays DEF Settled
  <2>2. attempts'[a] # Nil
    <3>1. PICK j \in Claimable(r) :
            attempts' = [attempts EXCEPT ![a] = NewAttempt(j, jobs[j].fence + 1)]
      BY <1>1 DEF ClaimJob
    <3>2. j \in Job /\ jobs[j].fence + 1 \in Nat
      BY DEF Claimable, Pending, IInv, TypeOK, JobRow
    <3> QED BY <3>1, <3>2, NewAttemptFacts, NilIsNoRow DEF IInv, TypeOK
  <2> QED BY <1>3, <2>1, <2>2 DEF Claimed
<1> DEFINE new == [worker[w] EXCEPT !.pc = "claimed", !.job = a]
           t == [thread[a] EXCEPT !.owner = w]
<1>5. new \in WorkerState /\ new.pc = "claimed" /\ new.job = a
  BY <1>2, JobField
<1>6. /\ t \in ThreadState /\ t.pc = thread[a].pc /\ t.stop = thread[a].stop
      /\ t.lost = thread[a].lost /\ t.owner = w
  BY <1>2, OwnerField
<1>7. thread[a].pc = "none" /\ ~thread[a].lost
  BY <1>4 DEF WorkerInv, ThreadInv
<1>8. /\ worker' = [worker EXCEPT ![w] = new]
      /\ thread' = [thread EXCEPT ![a] = t]
  BY <1>1
<1> HIDE DEF new, t
<1>9. /\ worker' \in [Worker -> WorkerState] /\ worker'[w] = new
      /\ \A v \in Worker : v # w => worker'[v] = worker[v]
      /\ thread' \in [AttemptId -> ThreadState] /\ thread'[a] = t
      /\ \A h \in AttemptId : h # a => thread'[h] = thread[h]
  BY <1>2, <1>5, <1>6, <1>8
<1>10. \A v \in Worker : ~At(v, "idle") => worker[v].job \in Claimed /\ worker[v].job \in AttemptId
  BY DEF WorkerInv, HandleInv, Claimed
<1>11. WorkerTypeOK'
  BY <1>2, <1>9 DEF WorkerInv, WorkerTypeOK
<1>12. HandleInv'
  <2>1. \A v \in Worker :
           IF worker'[v].pc = "idle" THEN worker'[v].job = Nil
           ELSE /\ worker'[v].job \in Claimed'
                /\ thread'[worker'[v].job].owner = v
    BY <1>4, <1>5, <1>6, <1>9, <1>10 DEF WorkerInv, HandleInv, At
  <2>2. \A u, v \in Worker : worker'[u].job = worker'[v].job => u = v \/ worker'[v].pc = "idle"
    <3>1. \A v \in Worker : At(v, "idle") => worker[v].job # a
      BY NilAssumption DEF WorkerInv, HandleInv
    <3>2. \A v \in Worker : worker[v].job # a
      BY <1>4, <1>10, <3>1
    <3> QED BY <1>5, <1>9, <3>2 DEF WorkerInv, HandleInv, At
  <2>3. \A v \in Worker : worker'[v].pc = "claimed" \/ worker'[v].pc = "resolve" =>
           thread'[worker'[v].job].pc = "none"
    BY <1>4, <1>5, <1>6, <1>7, <1>9, <1>10 DEF WorkerInv, HandleInv, At
  <2>4. \A v \in Worker : worker'[v].pc \in OutcomePC => worker'[v].outcome \in Outcome
    BY <1>5, <1>9 DEF WorkerInv, HandleInv, OutcomePC, At
  <2> QED BY <2>1, <2>2, <2>3, <2>4 DEF HandleInv, At, OutcomePC
<1>13. ThreadInv'
  BY <1>4, <1>6, <1>7, <1>9 DEF WorkerInv, ThreadInv
<1>14. LostInv'
  <2>1. \A h \in AttemptId : thread'[h].lost => thread[h].lost
    BY <1>6, <1>9
  <2>2. \A v \in Worker : worker'[v].pc = "committing" => worker'[v] = worker[v]
    BY <1>5, <1>9
  <2> QED BY <1>3, <2>1, <2>2, LostStep DEF At
<1>15. HeartbeatsEndWithRun'
  <2> SUFFICES ASSUME NEW h \in AttemptId,
                      thread'[h].pc \in {"waiting", "ready"}, ~thread'[h].stop
               PROVE  \E v \in Worker : worker'[v].job = h /\ worker'[v].pc # "leave"
    BY DEF HeartbeatsEndWithRun, At
  <2>1. h # a /\ thread'[h] = thread[h]
    BY <1>6, <1>7, <1>9
  <2>2. PICK v \in Worker : worker[v].job = h /\ ~At(v, "leave")
    BY <2>1 DEF WorkerInv, HeartbeatsEndWithRun
  <2>3. v # w
    BY <1>2, <2>2, NilAssumption DEF WorkerInv, HandleInv
  <2> QED BY <1>9, <2>2, <2>3 DEF At
<1> QED BY <1>11, <1>12, <1>13, <1>14, <1>15 DEF WorkerInv

\* A worker goes back to idle: run_one ends, or the process dies and its
\* threads with it.
LEMMA BackToIdle ==
    ASSUME IInv', WorkerInv, NEW w \in Worker, UNCHANGED attempts,
           \A a \in Claimed : Settled(a),
           NEW idle \in WorkerState, idle.pc = "idle", idle.job = Nil,
           worker' = [worker EXCEPT ![w] = idle],
           thread' \in [AttemptId -> ThreadState],
           \A h \in AttemptId :
              /\ thread'[h].owner = thread[h].owner
              /\ thread'[h].stop = thread[h].stop
              /\ thread'[h].lost = thread[h].lost
              /\ \/ thread'[h].pc = thread[h].pc
                 \/ thread'[h].pc = "gone" /\ thread[h].owner = w
              /\ worker[w].job = h /\ ~At(w, "leave") => thread'[h].pc = "gone",
           workspaces' \subseteq AttemptId
    PROVE  WorkerInv'
<1>3. /\ worker' \in [Worker -> WorkerState] /\ worker'[w] = idle
      /\ \A v \in Worker : v # w => worker'[v] = worker[v]
  BY DEF WorkerInv, WorkerTypeOK
<1>4. Claimed' = Claimed
  BY DEF Claimed
<1>5. WorkerTypeOK'
  BY <1>3 DEF WorkerTypeOK
<1>6. \A v \in Worker : ~At(v, "idle") =>
        /\ worker[v].job \in Claimed /\ worker[v].job \in AttemptId
        /\ thread[worker[v].job].owner = v
  BY DEF WorkerInv, HandleInv, Claimed
<1>7. HandleInv'
  <2>1. \A v \in Worker :
           IF worker'[v].pc = "idle" THEN worker'[v].job = Nil
           ELSE /\ worker'[v].job \in Claimed'
                /\ thread'[worker'[v].job].owner = v
    BY <1>3, <1>4, <1>6 DEF WorkerInv, HandleInv, At
  <2>2. \A u, v \in Worker : worker'[u].job = worker'[v].job => u = v \/ worker'[v].pc = "idle"
    <3>1. \A v \in Worker : ~At(v, "idle") => worker[v].job # Nil
      BY <1>6, NilAssumption
    <3> QED BY <1>3, <3>1 DEF WorkerInv, HandleInv, At
  <2>3. \A v \in Worker : worker'[v].pc = "claimed" \/ worker'[v].pc = "resolve" =>
           thread'[worker'[v].job].pc = "none"
    BY <1>3, <1>6 DEF WorkerInv, HandleInv, At
  <2>4. \A v \in Worker : worker'[v].pc \in OutcomePC => worker'[v].outcome \in Outcome
    BY <1>3 DEF WorkerInv, HandleInv, OutcomePC, At
  <2> QED BY <2>1, <2>2, <2>3, <2>4 DEF HandleInv, At, OutcomePC
<1>8. ThreadInv'
  BY <1>4, WorkerAssumption DEF WorkerInv, ThreadInv
<1>9. LostInv'
  <2>1. \A v \in Worker : worker'[v].pc = "committing" => worker'[v] = worker[v]
    BY <1>3
  <2> QED BY <2>1, LostStep DEF At
<1>10. HeartbeatsEndWithRun'
  <2> SUFFICES ASSUME NEW h \in AttemptId,
                      thread'[h].pc \in {"waiting", "ready"}, ~thread'[h].stop
               PROVE  \E v \in Worker : worker'[v].job = h /\ worker'[v].pc # "leave"
    BY DEF HeartbeatsEndWithRun, At
  <2>1. thread'[h].pc = thread[h].pc
    OBVIOUS
  <2>2. PICK v \in Worker : worker[v].job = h /\ ~At(v, "leave")
    BY <2>1 DEF WorkerInv, HeartbeatsEndWithRun
  <2>3. v # w
    BY <2>2
  <2> QED BY <1>3, <2>2, <2>3 DEF At
<1> QED BY <1>5, <1>7, <1>8, <1>9, <1>10 DEF WorkerInv

\* Between two calls of run_one: the last one returned or raised, the claim
\* found nothing, or the loop is started.
LEMMA IdleStep ==
    ASSUME IInv, IInv', WorkerInv, NEW w \in Worker,
           Leave(w) \/ ClaimNothing(w) \/ Start(w)
    PROVE  WorkerInv'
<1>1. PICK idle \in WorkerState : /\ idle.pc = "idle" /\ idle.job = Nil
                                 /\ worker' = [worker EXCEPT ![w] = idle]
  <2>1. worker[w].again \in BOOLEAN
    BY DEF WorkerInv, WorkerTypeOK, WorkerState
  <2>2. ASSUME NEW b \in BOOLEAN, worker' = [worker EXCEPT ![w] = [Idle EXCEPT !.again = b]]
        PROVE  \E idle \in WorkerState : /\ idle.pc = "idle" /\ idle.job = Nil
                                        /\ worker' = [worker EXCEPT ![w] = idle]
    <3> DEFINE new == [Idle EXCEPT !.again = b]
    <3>1. new \in WorkerState /\ new.pc = "idle" /\ new.job = Nil
      BY IdleField, ZeroDelay
    <3>2. worker' = [worker EXCEPT ![w] = new]
      BY <2>2
    <3> HIDE DEF new
    <3> QED BY <3>1, <3>2
  <2>3. Idle \in WorkerState /\ Idle.pc = "idle" /\ Idle.job = Nil
    BY IdleField, ZeroDelay
  <2>4. \/ \E b \in BOOLEAN : worker' = [worker EXCEPT ![w] = [Idle EXCEPT !.again = b]]
        \/ worker' = [worker EXCEPT ![w] = Idle]
    BY <2>1 DEF Leave, ClaimNothing, Start
  <2> QED BY <2>2, <2>3, <2>4
<1>2. /\ UNCHANGED <<attempts, thread>> /\ worker[w].pc \in {"leave", "idle"}
      /\ workspaces' \subseteq AttemptId /\ thread' \in [AttemptId -> ThreadState]
  BY DEF Leave, ClaimNothing, Start, At, vars, ClaimNone, WorkerInv, WorkerTypeOK
<1>3. \A a \in Claimed : Settled(a)
  <2>1. CASE UNCHANGED vars
    BY <2>1, UnchangedSettles
  <2>2. ASSUME NEW q \in Run \cup {Nil}, ClaimNone(q) PROVE \A a \in Claimed : Settled(a)
    BY <2>2, FailPendingSettles DEF ClaimNone
  <2> QED BY <2>1, <2>2 DEF Leave, ClaimNothing, Start
<1>4. \A h \in AttemptId : worker[w].job = h => At(w, "leave")
  BY <1>2, NilAssumption DEF WorkerInv, HandleInv, At
<1> QED BY <1>1, <1>2, <1>3, <1>4, BackToIdle

\* The process of w dies.
LEMMA CrashStep ==
    ASSUME IInv', WorkerInv, NEW w \in Worker, Crash(w)
    PROVE  WorkerInv'
<1>1. /\ UNCHANGED <<vars, workspaces>>
      /\ worker' = [worker EXCEPT ![w] = Idle]
      /\ thread' = [h \in AttemptId |->
            IF thread[h].owner = w THEN [thread[h] EXCEPT !.pc = "gone", !.age = 0]
                                   ELSE thread[h]]
  BY DEF Crash
<1>2. /\ workspaces' \subseteq AttemptId
      /\ \A h \in AttemptId : thread[h] \in ThreadState
  BY <1>1 DEF WorkerInv, WorkerTypeOK
<1> DEFINE dead(h) == [thread[h] EXCEPT !.pc = "gone", !.age = 0]
<1>3. \A h \in AttemptId :
        /\ dead(h) \in ThreadState /\ dead(h).pc = "gone"
        /\ dead(h).stop = thread[h].stop /\ dead(h).lost = thread[h].lost
        /\ dead(h).owner = thread[h].owner
  BY <1>2, ThreadAgeField, ZeroDelay
<1>4. thread' = [h \in AttemptId |-> IF thread[h].owner = w THEN dead(h) ELSE thread[h]]
  BY <1>1
<1> HIDE DEF dead
<1>5. /\ thread' \in [AttemptId -> ThreadState]
      /\ \A h \in AttemptId : thread'[h] = IF thread[h].owner = w THEN dead(h) ELSE thread[h]
  BY <1>2, <1>3, <1>4
<1>6. \A h \in AttemptId : worker[w].job = h => thread[h].owner = w
  BY NilAssumption DEF WorkerInv, HandleInv
<1>7. \A h \in AttemptId :
        /\ thread'[h].owner = thread[h].owner
        /\ thread'[h].stop = thread[h].stop
        /\ thread'[h].lost = thread[h].lost
        /\ \/ thread'[h].pc = thread[h].pc
           \/ thread'[h].pc = "gone" /\ thread[h].owner = w
        /\ worker[w].job = h /\ ~At(w, "leave") => thread'[h].pc = "gone"
  BY <1>3, <1>5, <1>6
<1>8. /\ Idle \in WorkerState /\ Idle.pc = "idle" /\ Idle.job = Nil
      /\ UNCHANGED attempts /\ \A a \in Claimed : Settled(a)
  BY <1>1, IdleField, ZeroDelay, UnchangedSettles DEF vars
<1> QED BY <1>1, <1>2, <1>5, <1>7, <1>8, BackToIdle

\* A step of the heartbeat thread of h that is not the loss of its lease.
LEMMA HeartbeatThreadStep ==
    ASSUME IInv', WorkerInv, NEW h \in AttemptId, NEW t \in ThreadState,
           UNCHANGED <<worker, workspaces>>,
           thread' = [thread EXCEPT ![h] = t],
           thread[h].pc \in {"waiting", "ready"},
           t.pc \in {"waiting", "ready", "gone"}, t.stop = thread[h].stop,
           t.lost = thread[h].lost, t.owner = thread[h].owner,
           \A a \in Claimed : a # h => Settled(a),
           \A a \in Claimed : attempts'[a] # Nil
    PROVE  WorkerInv'
<1>1. h \in Claimed /\ ~thread[h].lost /\ Claimed \subseteq Claimed'
  BY ClaimedStays DEF WorkerInv, ThreadInv
<1>2. /\ thread' \in [AttemptId -> ThreadState] /\ thread'[h] = t
      /\ \A a \in AttemptId : a # h => thread'[a] = thread[a]
  BY DEF WorkerInv, WorkerTypeOK
<1>3. WorkerTypeOK'
  BY <1>2 DEF WorkerInv, WorkerTypeOK
<1>4. \A v \in Worker : ~At(v, "idle") => worker[v].job \in Claimed /\ worker[v].job \in AttemptId
  BY DEF WorkerInv, HandleInv, Claimed
<1>5. HandleInv'
  BY <1>1, <1>2, <1>4 DEF WorkerInv, HandleInv, At
<1>6. ThreadInv'
  BY <1>1, <1>2 DEF WorkerInv, ThreadInv
<1>7. LostInv'
  <2>1. \A a \in AttemptId : thread'[a].lost => thread[a].lost
    BY <1>2
  <2>2. \A a \in Claimed : thread[a].lost => Settled(a)
    BY <1>1
  <2> QED BY <2>1, <2>2, LostStep DEF At
<1>8. HeartbeatsEndWithRun'
  BY <1>2 DEF WorkerInv, HeartbeatsEndWithRun, At
<1> QED BY <1>3, <1>5, <1>6, <1>7, <1>8 DEF WorkerInv

\* heartbeat() raises LeaseLost: then the lease is over for any later clock.
LEMMA BeatLostStep ==
    ASSUME IInv, IInv', WorkerInv, NEW h \in AttemptId, BeatLost(h)
    PROVE  WorkerInv'
<1> DEFINE t == [thread[h] EXCEPT !.pc = "gone", !.age = 0, !.lost = TRUE]
           j == attempts[h].job_id
<1>1. /\ UNCHANGED <<vars, worker, workspaces>> /\ thread' = [thread EXCEPT ![h] = t]
      /\ thread[h].pc = "ready" /\ LockFree(h) /\ ~HoldsLease(h, thread[h].age)
      /\ h \in Claimed /\ thread[h] \in ThreadState
  BY DEF BeatLost, WorkerInv, WorkerTypeOK, ThreadInv
<1>2. /\ t \in ThreadState /\ t.pc = "gone"
      /\ t.stop = thread[h].stop /\ t.owner = thread[h].owner
  BY <1>1, ThreadAgeField, ZeroDelay
<1> HIDE DEF t
<1>3. /\ thread' \in [AttemptId -> ThreadState] /\ thread'[h] = t
      /\ \A a \in AttemptId : a # h => thread'[a] = thread[a]
  BY <1>1, <1>2 DEF WorkerInv, WorkerTypeOK
<1>4. Claimed' = Claimed
  BY <1>1 DEF Claimed, vars
<1>5. WorkerTypeOK'
  BY <1>1, <1>3 DEF WorkerInv, WorkerTypeOK
<1>6. \A v \in Worker : ~At(v, "idle") => worker[v].job \in Claimed /\ worker[v].job \in AttemptId
  BY DEF WorkerInv, HandleInv, Claimed
<1>7. HandleInv'
  BY <1>1, <1>2, <1>3, <1>4, <1>6 DEF WorkerInv, HandleInv, At
<1>8. ThreadInv'
  BY <1>1, <1>2, <1>3, <1>4 DEF WorkerInv, ThreadInv
<1>9. jobs[j].attempt_id = h /\ jobs[j].state \in Active => jobs[j].lease_left <= 0
  <2> SUFFICES ASSUME jobs[j].attempt_id = h, jobs[j].state \in Active
               PROVE  jobs[j].lease_left <= 0
    OBVIOUS
  <2>1. /\ j \in Job /\ jobs[j] \in JobRow
    BY <1>1, ClaimedFacts DEF IInv
  <2>2. /\ jobs[j].lease_token = h /\ attempts[h].fence = jobs[j].fence
        /\ jobs[j].lease_left # Nil
    BY <2>1 DEF IInv, LeaseInv
  <2>3. ~(jobs[j].lease_left + thread[h].age > 0)
    BY <1>1, <2>2 DEF HoldsLease, LeaseIdentityValid, LeaseUnexpired
  <2>4. jobs[j].lease_left \in Int /\ thread[h].age \in Nat
    BY <1>1, <2>1, <2>2, TimeAssumption DEF JobRow, LeaseLeft, ThreadState, Delay
  <2> HIDE DEF j
  <2> QED BY <2>3, <2>4
<1>10. LostInv'
  <2> SUFFICES ASSUME NEW a \in Claimed, thread'[a].lost,
                      jobs[attempts[a].job_id].attempt_id = a,
                      jobs[attempts[a].job_id].state \in Active
               PROVE  LET row == jobs[attempts[a].job_id]
                      IN  /\ row.lease_left <= 0
                          /\ \A w \in Worker :
                                At(w, "committing") /\ worker[w].job = a =>
                                   row.lease_left + worker[w].age <= 0
    BY <1>1, <1>4 DEF LostInv, vars, At
  <2>1. CASE a = h
    BY <1>1, <1>9, <2>1 DEF LockFree
  <2>2. CASE a # h
    <3>1. a \in AttemptId /\ thread[a].lost
      BY <1>3, <2>2 DEF Claimed
    <3> QED BY <3>1 DEF WorkerInv, LostInv
  <2> QED BY <2>1, <2>2
<1>11. HeartbeatsEndWithRun'
  BY <1>1, <1>2, <1>3 DEF WorkerInv, HeartbeatsEndWithRun, At
<1> QED BY <1>5, <1>7, <1>8, <1>10, <1>11 DEF WorkerInv

\* A tick takes from the lease what it adds to the clock readings' age.
LEMMA PassTimeStep ==
    ASSUME IInv, IInv', WorkerInv, PassTime
    PROVE  WorkerInv'
<1> DEFINE wnew(w) == [worker[w] EXCEPT !.age = worker[w].age + 1]
           tnew(h) == [thread[h] EXCEPT !.age = thread[h].age + 1]
<1>1. /\ Tick /\ UNCHANGED <<attempts, workspaces>>
      /\ \A w \in Worker : At(w, "committing") => worker[w].age < MaxDelay
      /\ \A h \in AttemptId : thread[h].pc = "ready" => thread[h].age < MaxDelay
      /\ worker' = [w \in Worker |-> IF At(w, "committing") THEN wnew(w) ELSE worker[w]]
      /\ thread' = [h \in AttemptId |->
            IF thread[h].pc = "ready" THEN tnew(h) ELSE thread[h]]
  BY DEF PassTime, Tick
<1>2. /\ \A w \in Worker : worker[w] \in WorkerState
      /\ \A h \in AttemptId : thread[h] \in ThreadState
      /\ workspaces \subseteq AttemptId
  BY DEF WorkerInv, WorkerTypeOK
<1>3. \A n \in Delay : n < MaxDelay => n + 1 \in Delay
  BY TimeAssumption DEF Delay
<1>4. ASSUME NEW w \in Worker, At(w, "committing")
      PROVE  /\ wnew(w) \in WorkerState /\ wnew(w).pc = "committing"
             /\ wnew(w).job = worker[w].job /\ wnew(w).outcome = worker[w].outcome
             /\ wnew(w).age = worker[w].age + 1
  <2> DEFINE n == worker[w].age + 1
  <2>1. n \in Delay
    BY <1>1, <1>2, <1>3, <1>4 DEF WorkerState
  <2> HIDE DEF n
  <2>2. LET new == [worker[w] EXCEPT !.age = n]
        IN  /\ new \in WorkerState /\ new.pc = worker[w].pc
            /\ new.job = worker[w].job /\ new.outcome = worker[w].outcome
            /\ new.age = n
    BY <1>2, <2>1 DEF WorkerState
  <2> QED BY <1>4, <2>2 DEF n, At
<1>5. ASSUME NEW h \in AttemptId, thread[h].pc = "ready"
      PROVE  /\ tnew(h) \in ThreadState /\ tnew(h).pc = "ready"
             /\ tnew(h).stop = thread[h].stop /\ tnew(h).lost = thread[h].lost
             /\ tnew(h).owner = thread[h].owner
  <2> DEFINE n == thread[h].age + 1
  <2>1. n \in Delay
    BY <1>1, <1>2, <1>3, <1>5 DEF ThreadState
  <2> HIDE DEF n
  <2>2. LET new == [thread[h] EXCEPT !.age = n]
        IN  /\ new \in ThreadState /\ new.pc = thread[h].pc
            /\ new.stop = thread[h].stop /\ new.lost = thread[h].lost
            /\ new.owner = thread[h].owner
    BY <1>2, <2>1 DEF ThreadState
  <2> QED BY <1>5, <2>2 DEF n
<1> HIDE DEF wnew, tnew
<1>6. /\ worker' \in [Worker -> WorkerState]
      /\ \A w \in Worker :
            /\ worker'[w].pc = worker[w].pc /\ worker'[w].job = worker[w].job
            /\ worker'[w].outcome = worker[w].outcome
            /\ At(w, "committing") => worker'[w].age = worker[w].age + 1
  BY <1>1, <1>2, <1>4 DEF At
<1>7. /\ thread' \in [AttemptId -> ThreadState]
      /\ \A h \in AttemptId :
            /\ thread'[h].pc = thread[h].pc /\ thread'[h].stop = thread[h].stop
            /\ thread'[h].lost = thread[h].lost /\ thread'[h].owner = thread[h].owner
  BY <1>1, <1>2, <1>5
<1>8. Claimed' = Claimed
  BY <1>1 DEF Claimed
<1>9. WorkerTypeOK'
  BY <1>1, <1>2, <1>6, <1>7 DEF WorkerTypeOK
<1>10. HandleInv'
  <2>1. \A v \in Worker : ~At(v, "idle") => worker[v].job \in AttemptId
    BY DEF WorkerInv, HandleInv, Claimed
  <2> QED BY <1>6, <1>7, <1>8, <2>1 DEF WorkerInv, HandleInv, At
<1>11. ThreadInv' /\ HeartbeatsEndWithRun'
  BY <1>6, <1>7, <1>8 DEF WorkerInv, ThreadInv, HeartbeatsEndWithRun, At
<1>12. LostInv'
  <2> SUFFICES ASSUME NEW a \in Claimed, thread[a].lost,
                      jobs'[attempts[a].job_id].attempt_id = a,
                      jobs'[attempts[a].job_id].state \in Active
               PROVE  LET row == jobs'[attempts[a].job_id]
                      IN  /\ row.lease_left <= 0
                          /\ \A w \in Worker :
                                At(w, "committing") /\ worker[w].job = a =>
                                   row.lease_left + worker'[w].age <= 0
    BY <1>1, <1>6, <1>7, <1>8 DEF LostInv, At, Claimed
  <2> DEFINE j == attempts[a].job_id
             old == jobs[j].lease_left
             now == jobs'[j].lease_left
  <2>1. j \in Job /\ jobs[j] \in JobRow
    BY ClaimedFacts DEF IInv
  <2>2. /\ jobs[j].attempt_id = a
        /\ jobs[j].state \in Active
    <3>1. Renewed
      BY <1>1, TickRenews
    <3> QED BY <2>1, <3>1 DEF Renewed, Active
  <2>3. old # Nil /\ old \in Int /\ old >= -MaxDelay
    BY <2>1, <2>2, TimeAssumption DEF IInv, LeaseInv, JobRow, LeaseLeft
  <2>4. now = IF old > -MaxDelay THEN old - 1 ELSE old
    <3>1. jobs'[j] = IF old # Nil /\ old > -MaxDelay
                     THEN [jobs[j] EXCEPT !.lease_left = old - 1] ELSE jobs[j]
      BY <1>1, <2>1 DEF Tick
    <3>2. old > -MaxDelay => old - 1 \in LeaseLeft
      BY <2>1, <2>3, TimeAssumption, NilAssumption DEF JobRow, LeaseLeft
    <3>3. old > -MaxDelay => [jobs[j] EXCEPT !.lease_left = old - 1].lease_left = old - 1
      BY <2>1, <3>2, LeaseOnly
    <3> QED BY <2>3, <3>1, <3>3
  <2>5. /\ old <= 0
        /\ \A w \in Worker : At(w, "committing") /\ worker[w].job = a =>
              old + worker[w].age <= 0
    BY <2>2 DEF WorkerInv, LostInv
  <2>6. \A w \in Worker : At(w, "committing") =>
          worker[w].age \in Nat /\ worker[w].age < MaxDelay
    BY <1>1, <1>2, TimeAssumption DEF WorkerState, Delay
  <2> HIDE DEF old, now
  <2>7. now <= 0
    BY <2>3, <2>4, <2>5
  <2>8. ASSUME NEW w \in Worker, At(w, "committing"), worker[w].job = a
        PROVE  now + worker'[w].age <= 0
    <3>1. worker'[w].age = worker[w].age + 1
      BY <1>6, <2>8
    <3> QED BY <2>3, <2>4, <2>5, <2>6, <2>8, <3>1, TimeAssumption
  <2> QED BY <2>7, <2>8 DEF now
<1> QED BY <1>9, <1>10, <1>11, <1>12 DEF WorkerInv

\* A step of the main thread of w keeps the invariant.
LEMMA MainStepInv ==
    ASSUME IInv, IInv', WorkerInv, NEW w \in Worker, MainStep(w)
    PROVE  WorkerInv'
<1>1. CASE ClaimOne(w)
  BY <1>1, ClaimStep
<1>3. CASE EnterRunning(w) \/ CompleteOne(w)
  BY <1>3, CallingStep
<1>4. CASE \/ Prepare(w) \/ Build(w) \/ Execute(w) \/ JoinHeartbeat(w) \/ Collect(w)
           \/ ReadClock(w)
  <2>1. UNCHANGED <<vars, thread>>
    BY <1>4 DEF Prepare, Build, Execute, JoinHeartbeat, Collect, ReadClock
  <2> QED BY <1>4, <2>1, QuietStep
<1>5. CASE Resolve(w) \/ StopHeartbeat(w) \/ Finally(w)
  <2>1. UNCHANGED vars
    BY <1>5 DEF Resolve, StopHeartbeat, Finally
  <2> QED BY <1>5, <2>1, ThreadCallStep
<1>6. CASE Leave(w) \/ ClaimNothing(w)
  BY <1>6, IdleStep
<1> QED BY <1>1, <1>3, <1>4, <1>5, <1>6 DEF MainStep

\* A step of the heartbeat thread of h keeps the invariant.
LEMMA ThreadStepInv ==
    ASSUME IInv, IInv', WorkerInv, NEW h \in AttemptId, ThreadStep(h)
    PROVE  WorkerInv'
<1>1. thread[h].pc \in {"waiting", "ready"} /\ UNCHANGED <<worker, workspaces>>
  BY DEF ThreadStep, Wake, SeeStop, Beat, BeatLost, BeatError
<1>2. h \in Claimed /\ thread[h] \in ThreadState
  BY <1>1 DEF WorkerInv, ThreadInv, WorkerTypeOK
<1>3. ASSUME NEW p \in {"waiting", "ready", "gone"}, ThreadGoto(h, p),
             \A a \in Claimed : a # h => Settled(a),
             \A a \in Claimed : attempts'[a] # Nil
      PROVE  WorkerInv'
  <2> DEFINE t == [thread[h] EXCEPT !.pc = p, !.age = 0]
  <2>1. p \in {"none", "waiting", "ready", "gone"}
    BY <1>3
  <2>2. /\ t \in ThreadState /\ t.pc = p /\ t.stop = thread[h].stop
        /\ t.lost = thread[h].lost /\ t.owner = thread[h].owner
    BY <1>2, <2>1, ZeroDelay DEF ThreadState
  <2>3. thread' = [thread EXCEPT ![h] = t]
    BY <1>3 DEF ThreadGoto
  <2> HIDE DEF t
  <2> QED BY <1>1, <1>3, <2>2, <2>3, HeartbeatThreadStep
<1>4. CASE Beat(h)
  <2>1. Heartbeat(h, thread[h].age) /\ thread[h].age \in Delay /\ ThreadGoto(h, "waiting")
    BY <1>2, <1>4 DEF Beat, ThreadState
  <2>2. \A a \in Claimed : (a # h => Settled(a)) /\ UNCHANGED attempts
    BY <1>2, <2>1, HeartbeatSettles
  <2>3. \A a \in Claimed : attempts'[a] # Nil
    BY <2>2 DEF Claimed
  <2> QED BY <1>3, <2>1, <2>2, <2>3
<1>5. CASE BeatLost(h)
  BY <1>5, BeatLostStep
<1>6. CASE Wake(h) \/ SeeStop(h) \/ BeatError(h)
  <2>1. UNCHANGED vars /\ (ThreadGoto(h, "ready") \/ ThreadGoto(h, "gone"))
    BY <1>6 DEF Wake, SeeStop, BeatError
  <2>2. \A a \in Claimed : Settled(a) /\ attempts'[a] # Nil
    BY <2>1, UnchangedSettles DEF Settled
  <2> QED BY <1>3, <2>1, <2>2
<1> QED BY <1>4, <1>5, <1>6 DEF ThreadStep

-----------------------------------------------------------------------------
(* The theorems. *)

\* What the system as a whole keeps.
SystemInv == IInv /\ WorkerInv

\* Idle workers and no threads satisfy the invariant.
LEMMA InitSystemInv == SystemInit => SystemInv
<1> SUFFICES ASSUME SystemInit PROVE SystemInv
  OBVIOUS
<1> DEFINE fresh == [pc |-> "none", age |-> 0, stop |-> FALSE, lost |-> FALSE, owner |-> Nil]
<1>1. /\ Init /\ worker = [w \in Worker |-> Idle]
      /\ thread = [h \in AttemptId |-> fresh] /\ workspaces = {}
  BY DEF SystemInit
<1>2. Idle \in WorkerState /\ Idle.pc = "idle" /\ Idle.job = Nil
  BY ZeroDelay DEF Idle, WorkerState, MainPC
<1>3. fresh \in ThreadState /\ fresh.pc = "none" /\ ~fresh.lost /\ fresh.owner = Nil
  BY ZeroDelay DEF ThreadState
<1> HIDE DEF fresh
<1>4. WorkerTypeOK
  BY <1>1, <1>2, <1>3 DEF WorkerTypeOK
<1>5. HandleInv
  BY <1>1, <1>2 DEF HandleInv, At
<1>6. ThreadInv /\ HeartbeatsEndWithRun
  BY <1>1, <1>3 DEF ThreadInv, HeartbeatsEndWithRun
<1>7. LostInv
  BY <1>1, <1>3 DEF LostInv, Claimed
<1> QED BY <1>1, <1>4, <1>5, <1>6, <1>7, InitIInv DEF SystemInv, WorkerInv

\* Every step of the system keeps the invariant.
LEMMA NextSystemInv == SystemInv /\ [SystemNext]_allVars => SystemInv'
<1> SUFFICES ASSUME IInv, WorkerInv, [SystemNext]_allVars PROVE IInv' /\ WorkerInv'
  BY DEF SystemInv
<1>1. IInv'
  BY SystemStepIsQueueStep, NextIInv
<1>2. ASSUME NEW w \in Worker, MainStep(w) PROVE WorkerInv'
  BY <1>1, <1>2, MainStepInv
<1>3. ASSUME NEW w \in Worker, Start(w) \/ Crash(w) PROVE WorkerInv'
  BY <1>1, <1>3, CrashStep, IdleStep
<1>4. ASSUME NEW h \in AttemptId, ThreadStep(h) PROVE WorkerInv'
  BY <1>1, <1>4, ThreadStepInv
<1>5. CASE Reap
  <2>1. PICK m \in ReapArgs, d \in Delay : ReapExpired(m, d)
    BY <1>5 DEF Reap
  <2>2. \A a \in Claimed : Settled(a)
    BY <2>1, ReapExpiredSettles
  <2> QED BY <1>1, <1>5, <2>2, QueueOnlyStep DEF Reap
<1>6. CASE Cancel
  <2>1. PICK r \in Run : RequestCancel(r)
    BY <1>6 DEF Cancel
  <2>2. \A a \in Claimed : Settled(a)
    BY <2>1, FailPendingSettles DEF RequestCancel
  <2> QED BY <1>1, <1>6, <2>2, QueueOnlyStep DEF Cancel
<1>7. CASE PassTime
  BY <1>1, <1>7, PassTimeStep
<1>8. CASE UNCHANGED allVars
  <2>1. UNCHANGED vars /\ UNCHANGED localVars
    BY <1>8 DEF allVars, vars, localVars
  <2>2. \A a \in Claimed : Settled(a)
    BY <2>1, UnchangedSettles
  <2> QED BY <1>1, <2>1, <2>2, QueueOnlyStep
<1> QED BY <1>1, <1>2, <1>3, <1>4, <1>5, <1>6, <1>7, <1>8 DEF SystemNext

\* The workers' invariant holds in every state of every behaviour.
THEOREM WorkerInvariance == SystemSpec => []SystemInv
BY InitSystemInv, NextSystemInv, PTL DEF SystemSpec

\* What the workers, their threads and the leases of the queue have to do with
\* each other, for any number of workers: an attempt in hand is one claimed, a
\* thread belongs to it, and a lease seen lost stays lost.
THEOREM WorkersKeepStep == SystemSpec => []WorkerInv
<1>1. SystemInv => WorkerInv
  BY DEF SystemInv
<1> QED BY <1>1, WorkerInvariance, PTL

\* The workers, with their crashes, threads and races, use the queue only in
\* the ways its specification covers, so that all proved of it holds of them.
THEOREM WorkersUseQueue == SystemSpec => ImplementsQueue
<1>1. SystemInit => Init
  BY DEF SystemInit
<1>2. SystemInv /\ [SystemNext]_allVars => [Next]_vars
  BY SystemStepIsQueueStep DEF SystemInv
<1> QED BY <1>1, <1>2, WorkerInvariance, PTL DEF SystemSpec, ImplementsQueue, Spec

\* No heartbeat thread goes on renewing a lease after its run_one has ended.
THEOREM HeartbeatsEnd == SystemSpec => []HeartbeatsEndWithRun
<1>1. SystemInv => HeartbeatsEndWithRun
  BY DEF SystemInv, WorkerInv
<1> QED BY <1>1, WorkerInvariance, PTL

\* The system settles on a verdict at most once, from the last claim of a job:
\* the queue's fencing, carried over to the workers.
THEOREM SystemIsFenced == SystemSpec => []VerdictFromLastClaim
BY WorkersUseQueue, FencingIsSound, PTL DEF ImplementsQueue

\* Seen through their fences, the jobs of the whole system are write-once
\* registers: workers that crash, race and come late included.
THEOREM SystemIsRegister == SystemSpec => ImplementsFencedRegister
BY WorkersUseQueue, Refinement, PTL DEF ImplementsQueue

\* An attempt whose heartbeat has seen LeaseLost is not decided by any step.
LEMMA LostStaysUndecided ==
    ASSUME SystemInv, SystemInv', [SystemNext]_allVars, NEW a \in AttemptId, thread[a].lost
    PROVE  attempts[a] # Nil /\ Undecided(a)
<1>1. IInv /\ WorkerInv
  BY DEF SystemInv
<1>2. a \in Claimed /\ attempts[a] # Nil
  BY <1>1 DEF WorkerInv, ThreadInv, Claimed
<1>3. UNCHANGED attempts => Undecided(a)
  BY DEF Undecided
<1>4. ASSUME NEW w \in Worker, MainStep(w) PROVE Undecided(a)
  <2>1. CASE ClaimOne(w)
    BY <1>1, <1>2, <2>1, ClaimJobSettles DEF ClaimOne
  <2>2. CASE CompleteOne(w)
    <3> DEFINE h == worker[w].job
               j == attempts[h].job_id
    <3>1. At(w, "committing") /\ h \in Claimed /\ worker[w].age \in Delay
      BY <1>1, <2>2, HandleFacts DEF CompleteOne, At
    <3>2. worker[w].outcome \in Outcome
      BY <1>1, <3>1 DEF WorkerInv, HandleInv, At
    <3>3. CASE UNCHANGED vars
      BY <1>3, <3>3 DEF vars
    <3>4. CASE CompleteStale(h, h, worker[w].outcome, worker[w].age)
      BY <1>1, <1>2, <3>1, <3>2, <3>4, CompleteStaleSettles
    <3>5. CASE CompleteCommit(h, h, worker[w].outcome, worker[w].age) /\ a # h
      BY <1>1, <1>2, <3>1, <3>2, <3>5, CompleteCommitSettles
    <3>6. CASE CompleteCommit(h, h, worker[w].outcome, worker[w].age) /\ a = h
      <4>1. /\ jobs[j].attempt_id = a /\ jobs[j].state \notin Terminal
            /\ jobs[j].lease_left # Nil /\ jobs[j].lease_left + worker[w].age > 0
        BY <3>6 DEF CompleteCommit, LeaseUnexpired
      <4>2. j \in Job /\ jobs[j] \in JobRow
        BY <1>1, <3>1, ClaimedFacts DEF IInv
      <4>3. jobs[j].state \in Active
        BY <1>1, <4>1, <4>2 DEF IInv, LeaseInv
      <4>4. jobs[j].lease_left + worker[w].age <= 0
        BY <1>1, <1>2, <3>1, <3>6, <4>1, <4>3 DEF WorkerInv, LostInv
      <4>5. jobs[j].lease_left \in Int /\ worker[w].age \in Int
        BY <3>1, <4>1, <4>2, TimeAssumption DEF JobRow, LeaseLeft, Delay
      <4> HIDE DEF j
      <4> QED BY <4>1, <4>4, <4>5
    <3> QED BY <2>2, <3>3, <3>4, <3>5, <3>6 DEF CompleteOne, Complete
  <2>3. CASE ~ClaimOne(w) /\ ~CompleteOne(w)
    <3>1. UNCHANGED attempts
      BY <1>4, <2>3 DEF MainStep, ClaimNothing, ClaimNone, EnterRunning, MarkRunning, Resolve,
           Prepare, Build, Execute, StopHeartbeat, JoinHeartbeat, Collect, ReadClock,
           Finally, Leave, vars
    <3> QED BY <1>3, <3>1
  <2> QED BY <2>1, <2>2, <2>3
<1>5. ASSUME NEW w \in Worker, Start(w) \/ Crash(w) PROVE Undecided(a)
  BY <1>3, <1>5 DEF Start, Crash, vars
<1>6. ASSUME NEW h \in AttemptId, ThreadStep(h) PROVE Undecided(a)
  <2>1. UNCHANGED attempts
    BY <1>6 DEF ThreadStep, Wake, SeeStop, Beat, BeatLost, BeatError, Heartbeat, vars
  <2> QED BY <1>3, <2>1
<1>7. CASE Reap
  BY <1>1, <1>2, <1>7, ReapExpiredSettles DEF Reap
<1>8. CASE Cancel \/ PassTime \/ UNCHANGED allVars
  <2>1. UNCHANGED attempts
    BY <1>8 DEF Cancel, RequestCancel, PassTime, Tick, allVars
  <2> QED BY <1>2, <1>3, <2>1
<1> QED BY <1>2, <1>4, <1>5, <1>6, <1>7, <1>8 DEF SystemNext

\* "After lease loss ... never an authoritative result", for any number of
\* workers and jobs, any lease and any delay of the clocks.
THEOREM LostLeasesStayLost == SystemSpec => LostLeaseNeverCommits
<1> DEFINE A == \A a \in AttemptId : thread[a].lost =>
                   /\ attempts[a] # Nil
                   /\ attempts'[a].disposition = "authoritative" =>
                         attempts[a].disposition = "authoritative"
<1>1. SystemInv /\ SystemInv' /\ [SystemNext]_allVars => A
  BY LostStaysUndecided DEF Undecided
<1>2. SystemInv /\ SystemInv' /\ [SystemNext]_allVars => [A]_allVars
  BY <1>1
<1> QED BY <1>2, WorkerInvariance, PTL DEF SystemSpec, LostLeaseNeverCommits

-----------------------------------------------------------------------------
(* Quarantine. *)

\* Where complete() has been called.
After == {"finally", "leave"}

\* A worker not at its claim keeps its attempt until it is idle, and goes from
\* its finally only forward.
LEMMA MainMoves ==
    ASSUME WorkerInv, NEW w \in Worker, MainStep(w), ~ClaimOne(w), ~ClaimNothing(w)
    PROVE  \E new \in WorkerState :
              /\ worker' = [worker EXCEPT ![w] = new]
              /\ ~At(w, "idle")
              /\ new.pc = "idle" \/ new.job = worker[w].job
              /\ worker[w].pc \in After => new.pc \in {"leave", "idle"}
              /\ CompleteOne(w) => new.pc = "finally"
<1>1. ~At(w, "idle")
  BY DEF MainStep, EnterRunning, Resolve, Prepare, Build, Execute, StopHeartbeat,
         JoinHeartbeat, Collect, ReadClock, CompleteOne, Finally, Leave, At
<1>2. worker[w] \in WorkerState
  BY <1>1, HandleFacts
<1>3. ASSUME NEW p \in MainPC, Goto(w, p), worker[w].pc \in After => p = "leave",
             ~CompleteOne(w)
      PROVE  \E new \in WorkerState :
                /\ worker' = [worker EXCEPT ![w] = new]
                /\ new.pc = "idle" \/ new.job = worker[w].job
                /\ worker[w].pc \in After => new.pc \in {"leave", "idle"}
                /\ CompleteOne(w) => new.pc = "finally"
  <2> DEFINE new == [worker[w] EXCEPT !.pc = p]
  <2>1. new \in WorkerState /\ new.pc = p /\ new.job = worker[w].job
    BY <1>2, PcField
  <2>2. worker' = [worker EXCEPT ![w] = new]
    BY <1>3 DEF Goto
  <2> HIDE DEF new
  <2> QED BY <1>3, <2>1, <2>2
<1>4. ASSUME NEW o \in Outcome, Yield(w, o), worker[w].pc \notin After, ~CompleteOne(w)
      PROVE  \E new \in WorkerState :
                /\ worker' = [worker EXCEPT ![w] = new]
                /\ new.pc = "idle" \/ new.job = worker[w].job
                /\ worker[w].pc \in After => new.pc \in {"leave", "idle"}
                /\ CompleteOne(w) => new.pc = "finally"
  <2> DEFINE new == [worker[w] EXCEPT !.pc = "stop", !.outcome = o]
  <2>1. new \in WorkerState /\ new.job = worker[w].job
    BY <1>2, OutcomeField
  <2>2. worker' = [worker EXCEPT ![w] = new]
    BY <1>4 DEF Yield
  <2> HIDE DEF new
  <2> QED BY <1>4, <2>1, <2>2
<1>9. ASSUME Raise(w), worker[w].pc \notin After, ~CompleteOne(w)
      PROVE  \E new \in WorkerState :
                /\ worker' = [worker EXCEPT ![w] = new]
                /\ new.pc = "idle" \/ new.job = worker[w].job
                /\ worker[w].pc \in After => new.pc \in {"leave", "idle"}
                /\ CompleteOne(w) => new.pc = "finally"
  <2> DEFINE new == [worker[w] EXCEPT !.pc = "finally", !.again = FALSE]
  <2>1. new \in WorkerState /\ new.job = worker[w].job
    BY <1>2, RaiseField, ZeroDelay
  <2>2. worker' = [worker EXCEPT ![w] = new]
    BY <1>9 DEF Raise
  <2> HIDE DEF new
  <2> QED BY <1>9, <2>1, <2>2
<1>5. CASE EnterRunning(w) \/ Resolve(w) \/ Prepare(w) \/ Build(w) \/ Execute(w)
           \/ StopHeartbeat(w) \/ JoinHeartbeat(w) \/ Collect(w)
  <2>1. worker[w].pc \notin After /\ ~CompleteOne(w)
    BY <1>5 DEF EnterRunning, Resolve, Prepare, Build, Execute, StopHeartbeat,
                JoinHeartbeat, Collect, CompleteOne, After, At
  <2>2. \/ \E p \in MainPC : Goto(w, p)
        \/ \E o \in Outcome : Yield(w, o)
        \/ Raise(w)
    BY <1>5 DEF EnterRunning, Resolve, Prepare, Build, Execute, StopHeartbeat,
                JoinHeartbeat, Collect, MainPC
  <2> QED BY <1>1, <1>3, <1>4, <1>9, <2>1, <2>2
<1>6. CASE Finally(w)
  <2>1. Goto(w, "leave") /\ ~CompleteOne(w) /\ "leave" \in MainPC
    BY <1>6 DEF Finally, CompleteOne, At, MainPC
  <2> QED BY <1>1, <1>3, <2>1
<1>7. CASE ReadClock(w)
  <2> DEFINE new == [worker[w] EXCEPT !.pc = "committing", !.age = 0]
  <2>1. worker[w].pc \notin After /\ ~CompleteOne(w)
    BY <1>7 DEF ReadClock, CompleteOne, After, At
  <2>2. worker' = [worker EXCEPT ![w] = new]
    BY <1>7 DEF ReadClock
  <2>3. new \in WorkerState /\ new.job = worker[w].job
    BY <1>2, AgeField, ZeroDelay DEF MainPC
  <2> HIDE DEF new
  <2> QED BY <1>1, <2>1, <2>2, <2>3
<1>10. CASE CompleteOne(w)
  <2>1. worker[w].pc \notin After
    BY <1>10 DEF CompleteOne, After, At
  <2> QED BY <1>1, <1>2, <1>10, <2>1, CompleteMoves
<1>8. CASE Leave(w)
  <2>1. PICK b \in BOOLEAN : worker' = [worker EXCEPT ![w] = [Idle EXCEPT !.again = b]]
    BY <1>2, <1>8 DEF Leave, WorkerState
  <2> DEFINE new == [Idle EXCEPT !.again = b]
  <2>2. new \in WorkerState /\ new.pc = "idle"
    BY IdleField, ZeroDelay
  <2>3. worker' = [worker EXCEPT ![w] = new] /\ ~CompleteOne(w)
    BY <1>8, <2>1 DEF Leave, CompleteOne, At
  <2> HIDE DEF new
  <2> QED BY <1>1, <2>2, <2>3
<1> QED BY <1>5, <1>6, <1>7, <1>8, <1>10 DEF MainStep

\* What a step does to the main threads: each keeps its attempt, is idle, or
\* has an attempt that is new.
LEMMA WorkersMove ==
    ASSUME SystemInv, [SystemNext]_allVars, NEW v \in Worker, worker'[v].pc # "idle"
    PROVE  \/ worker'[v].job \notin Claimed
           \/ /\ worker'[v].job = worker[v].job /\ worker[v].pc # "idle"
              /\ worker[v].pc \in After => worker'[v].pc \in After
              /\ CompleteOne(v) => worker'[v].pc \in After
<1>1. IInv /\ WorkerInv /\ worker \in [Worker -> WorkerState]
  BY DEF SystemInv, WorkerInv, WorkerTypeOK
<1> DEFINE Goal == \/ worker'[v].job \notin Claimed
                   \/ /\ worker'[v].job = worker[v].job /\ worker[v].pc # "idle"
                      /\ worker[v].pc \in After => worker'[v].pc \in After
                      /\ CompleteOne(v) => worker'[v].pc \in After
<1>2. CompleteOne(v) => worker'[v].pc = "finally"
  <2> SUFFICES ASSUME CompleteOne(v) PROVE worker'[v].pc = "finally"
    OBVIOUS
  <2>1. ~ClaimOne(v) /\ ~ClaimNothing(v) /\ MainStep(v)
    BY DEF CompleteOne, ClaimOne, ClaimNothing, At, MainStep
  <2> QED BY <1>1, <2>1, MainMoves
<1>3. worker'[v] = worker[v] => Goal
  BY <1>2 DEF After
<1>4. ASSUME NEW w \in Worker, MainStep(w) PROVE Goal
  <2>1. CASE ClaimOne(w)
    <3>1. PICK a \in AttemptId :
             /\ \E r \in Run \cup {Nil}, d \in Delay : ClaimJob(r, a, d)
             /\ worker' = [worker EXCEPT ![w] = [@ EXCEPT !.pc = "claimed", !.job = a]]
      BY <2>1 DEF ClaimOne
    <3>2. a \notin Claimed
      BY <3>1 DEF ClaimJob, Claimed
    <3>3. CASE v = w
      <4>1. worker'[v].job = a
        BY <1>1, <3>1, <3>3, JobField
      <4> QED BY <3>2, <4>1
    <3>4. CASE v # w
      BY <1>1, <1>3, <3>1, <3>4
    <3> QED BY <3>3, <3>4
  <2>2. CASE ClaimNothing(w)
    <3>1. worker' = [worker EXCEPT ![w] = Idle] /\ Idle.pc = "idle"
      BY <2>2 DEF ClaimNothing, Idle
    <3>2. v # w
      BY <1>1, <3>1
    <3> QED BY <1>1, <1>3, <3>1, <3>2
  <2>3. CASE ~ClaimOne(w) /\ ~ClaimNothing(w)
    <3>1. PICK new \in WorkerState :
              /\ worker' = [worker EXCEPT ![w] = new]
              /\ ~At(w, "idle")
              /\ new.pc = "idle" \/ new.job = worker[w].job
              /\ worker[w].pc \in After => new.pc \in {"leave", "idle"}
      BY <1>1, <1>4, <2>3, MainMoves
    <3>2. CASE v # w
      BY <1>1, <1>3, <3>1, <3>2
    <3>3. CASE v = w
      <4>1. worker'[v] = new
        BY <1>1, <3>1, <3>3
      <4> QED BY <1>2, <3>1, <3>3, <4>1 DEF After, At
    <3> QED BY <3>2, <3>3
  <2> QED BY <2>1, <2>2, <2>3
<1>5. ASSUME NEW w \in Worker, Start(w) \/ Crash(w) PROVE Goal
  <2>1. \E idle : idle.pc = "idle" /\ worker' = [worker EXCEPT ![w] = idle]
    <3>1. Idle.pc = "idle" /\ [Idle EXCEPT !.again = TRUE].pc = "idle"
      BY IdleField, ZeroDelay
    <3> QED BY <1>5, <3>1 DEF Start, Crash
  <2>2. v # w
    BY <1>1, <2>1
  <2> QED BY <1>1, <1>3, <2>1, <2>2
<1>6. ASSUME NEW h \in AttemptId, ThreadStep(h) PROVE Goal
  BY <1>3, <1>6 DEF ThreadStep, Wake, SeeStop, Beat, BeatLost, BeatError
<1>7. CASE Reap \/ Cancel
  BY <1>3, <1>7 DEF Reap, Cancel, localVars
<1>8. CASE PassTime
  <2>1. worker'[v] = IF At(v, "committing") THEN [worker[v] EXCEPT !.age = @ + 1]
                                            ELSE worker[v]
    BY <1>8 DEF PassTime
  <2>2. /\ worker'[v].job = worker[v].job
        /\ worker'[v].pc = worker[v].pc
    BY <1>1, <2>1 DEF WorkerState
  <2> QED BY <1>2, <2>2 DEF After
<1>9. CASE UNCHANGED allVars
  BY <1>3, <1>9 DEF allVars
<1> QED BY <1>4, <1>5, <1>6, <1>7, <1>8, <1>9 DEF SystemNext

\* Only the complete() of an attempt puts it into quarantine or out of it.
LEMMA StaleSource ==
    ASSUME SystemInv, [SystemNext]_allVars, NEW a \in Claimed
    PROVE  \/ attempts'[a].disposition = attempts[a].disposition
           \/ attempts'[a].disposition # "stale" /\ attempts[a].disposition # "stale"
           \/ \E w \in Worker : CompleteOne(w) /\ worker[w].job = a
<1>1. IInv /\ WorkerInv /\ a \in AttemptId /\ attempts \in [AttemptId -> AttemptRow \cup {Nil}]
  BY DEF SystemInv, IInv, TypeOK, Claimed
<1> DEFINE Goal == \/ attempts'[a].disposition = attempts[a].disposition
                   \/ attempts'[a].disposition # "stale" /\ attempts[a].disposition # "stale"
                   \/ \E w \in Worker : CompleteOne(w) /\ worker[w].job = a
<1>2. attempts'[a] = attempts[a] => Goal
  OBVIOUS
<1>3. ASSUME NEW w \in Worker, MainStep(w) PROVE Goal
  <2>1. CASE ClaimOne(w)
    <3>1. PICK b \in AttemptId : /\ attempts[b] = Nil
                                 /\ \E row : attempts' = [attempts EXCEPT ![b] = row]
      BY <2>1 DEF ClaimOne, ClaimJob
    <3>2. a # b
      BY <3>1 DEF Claimed
    <3> QED BY <1>1, <1>2, <3>1, <3>2
  <2>2. CASE CompleteOne(w) /\ worker[w].job = a
    BY <2>2
  <2>3. CASE CompleteOne(w) /\ worker[w].job # a
    <3>1. \/ UNCHANGED attempts
          \/ \E row : attempts' = [attempts EXCEPT ![worker[w].job] = row]
      BY <2>3 DEF CompleteOne, Complete, CompleteStale, CompleteCommit, MarkAttemptStale, vars
    <3> QED BY <1>1, <1>2, <2>3, <3>1
  <2>4. CASE ~ClaimOne(w) /\ ~CompleteOne(w)
    <3>1. UNCHANGED attempts
      BY <1>3, <2>4 DEF MainStep, ClaimNothing, ClaimNone, EnterRunning, MarkRunning, Resolve,
           Prepare, Build, Execute, StopHeartbeat, JoinHeartbeat, Collect, ReadClock,
           Finally, Leave, vars
    <3> QED BY <1>2, <3>1
  <2> QED BY <2>1, <2>2, <2>3, <2>4
<1>4. ASSUME NEW w \in Worker, Start(w) \/ Crash(w) PROVE Goal
  BY <1>2, <1>4 DEF Start, Crash, vars
<1>5. ASSUME NEW h \in AttemptId, ThreadStep(h) PROVE Goal
  <2>1. UNCHANGED attempts
    BY <1>5 DEF ThreadStep, Wake, SeeStop, Beat, BeatLost, BeatError, Heartbeat, vars
  <2> QED BY <1>2, <2>1
<1>6. CASE Reap
  <2>1. \/ attempts'[a] = attempts[a]
        \/ attempts[a].disposition = "active" /\ attempts'[a] = AbandonedRow(attempts[a])
    BY <1>1, <1>6 DEF Reap, ReapExpired
  <2>2. AbandonedRow(attempts[a]).disposition = "abandoned"
    BY <1>1, ClaimedFacts, AbandonedRowFacts DEF IInv
  <2> QED BY <1>2, <2>1, <2>2
<1>7. CASE Cancel \/ PassTime \/ UNCHANGED allVars
  <2>1. UNCHANGED attempts
    BY <1>7 DEF Cancel, RequestCancel, PassTime, Tick, allVars
  <2> QED BY <1>2, <2>1
<1> QED BY <1>3, <1>4, <1>5, <1>6, <1>7 DEF SystemNext

\* An attempt that a step inserts is active.
LEMMA FreshIsActive ==
    ASSUME SystemInv, [SystemNext]_allVars, NEW a \in AttemptId, a \notin Claimed,
           attempts'[a] # Nil
    PROVE  attempts'[a].disposition # "stale"
<1>1. IInv /\ WorkerInv /\ attempts[a] = Nil
      /\ attempts \in [AttemptId -> AttemptRow \cup {Nil}]
  BY DEF SystemInv, IInv, TypeOK, Claimed
<1>2. attempts'[a] # attempts[a]
  BY <1>1
<1>3. ASSUME NEW w \in Worker, MainStep(w) PROVE attempts'[a].disposition # "stale"
  <2>1. CASE ClaimOne(w)
    <3>1. PICK r \in Run \cup {Nil}, b \in AttemptId, d \in Delay : ClaimJob(r, b, d)
      BY <2>1 DEF ClaimOne
    <3>2. PICK j \in Claimable(r) :
            attempts' = [attempts EXCEPT ![b] = NewAttempt(j, jobs[j].fence + 1)]
      BY <3>1 DEF ClaimJob
    <3>3. attempts'[a] = NewAttempt(j, jobs[j].fence + 1)
      BY <1>1, <1>2, <3>2
    <3> QED BY <3>3 DEF NewAttempt
  <2>2. CASE CompleteOne(w)
    <3>1. worker[w].job \in Claimed
      BY <1>1, <2>2, HandleFacts DEF CompleteOne, At
    <3>2. \/ UNCHANGED attempts
          \/ \E row : attempts' = [attempts EXCEPT ![worker[w].job] = row]
      BY <2>2 DEF CompleteOne, Complete, CompleteStale, CompleteCommit, MarkAttemptStale, vars
    <3> QED BY <1>1, <1>2, <3>1, <3>2
  <2>3. CASE ~ClaimOne(w) /\ ~CompleteOne(w)
    <3>1. UNCHANGED attempts
      BY <1>3, <2>3 DEF MainStep, ClaimNothing, ClaimNone, EnterRunning, MarkRunning, Resolve,
           Prepare, Build, Execute, StopHeartbeat, JoinHeartbeat, Collect, ReadClock,
           Finally, Leave, vars
    <3> QED BY <1>2, <3>1
  <2> QED BY <2>1, <2>2, <2>3
<1>4. ASSUME NEW w \in Worker, Start(w) \/ Crash(w) PROVE FALSE
  BY <1>2, <1>4 DEF Start, Crash, vars
<1>5. ASSUME NEW h \in AttemptId, ThreadStep(h) PROVE FALSE
  <2>1. UNCHANGED attempts
    BY <1>5 DEF ThreadStep, Wake, SeeStop, Beat, BeatLost, BeatError, Heartbeat, vars
  <2> QED BY <1>2, <2>1
<1>6. CASE Reap
  <2>1. attempts'[a] = attempts[a]
    BY <1>1, <1>6 DEF Reap, ReapExpired
  <2> QED BY <1>2, <2>1
<1>7. CASE Cancel \/ PassTime \/ UNCHANGED allVars
  <2>1. UNCHANGED attempts
    BY <1>7 DEF Cancel, RequestCancel, PassTime, Tick, allVars
  <2> QED BY <1>2, <2>1
<1> QED BY <1>3, <1>4, <1>5, <1>6, <1>7 DEF SystemNext

\* What the theorem below rests on.
QuarantinedInv == SystemInv /\ QuarantineInv

\* Every step keeps a quarantined attempt's run_one past its complete().
LEMMA NextQuarantined == QuarantinedInv /\ [SystemNext]_allVars => QuarantinedInv'
<1> SUFFICES ASSUME SystemInv, QuarantineInv, [SystemNext]_allVars
             PROVE  SystemInv' /\ QuarantineInv'
  BY DEF QuarantinedInv
<1>1. SystemInv'
  BY NextSystemInv
<1>2. ASSUME NEW v \in Worker, worker'[v].pc # "idle",
             attempts'[worker'[v].job].disposition = "stale"
      PROVE  worker'[v].pc \in After
  <2> DEFINE a == worker'[v].job
  <2>1. CASE a \notin Claimed
    <3>1. a \in AttemptId /\ attempts'[a] # Nil /\ attempts[a] = Nil
      BY <1>1, <1>2, <2>1 DEF SystemInv, WorkerInv, HandleInv, Claimed, At
    <3>2. attempts'[a].disposition # "stale"
      BY <2>1, <3>1, FreshIsActive
    <3> QED BY <1>2, <3>2
  <2>2. CASE a \in Claimed
    <3>1. /\ a = worker[v].job /\ worker[v].pc # "idle"
          /\ worker[v].pc \in After => worker'[v].pc \in After
          /\ CompleteOne(v) => worker'[v].pc \in After
      BY <1>2, <2>2, WorkersMove
    <3>2. CASE attempts[a].disposition = "stale"
      BY <3>1, <3>2 DEF QuarantineInv, After, At
    <3>3. CASE attempts[a].disposition # "stale"
      <4>1. PICK w \in Worker : CompleteOne(w) /\ worker[w].job = a
        BY <1>2, <2>2, <3>3, StaleSource
      <4>2. w = v
        BY <3>1, <4>1 DEF SystemInv, WorkerInv, HandleInv, CompleteOne, At
      <4> QED BY <3>1, <4>1, <4>2
    <3> QED BY <3>2, <3>3
  <2> QED BY <2>1, <2>2
<1> QED BY <1>1, <1>2 DEF QuarantineInv, After, At

\* The run_one of a quarantined attempt has called complete() and calls it no
\* more.
THEOREM QuarantinedIsPast == SystemSpec => []QuarantinedInv
<1>1. SystemInit => QuarantinedInv
  <2>1. SystemInit => QuarantineInv
    BY DEF SystemInit, QuarantineInv, At, Idle
  <2> QED BY <2>1, InitSystemInv DEF QuarantinedInv
<1> QED BY <1>1, NextQuarantined, PTL DEF SystemSpec

\* "stale" is for good: whatever clock readings, heartbeats and reapers do, an
\* attempt that complete() has quarantined stays so.  The queue alone does not
\* promise it; the workers do, because they call complete() once per claim.
THEOREM QuarantineHolds == SystemSpec => QuarantineIsFinal
<1> DEFINE A == \A a \in Claimed : attempts[a].disposition = "stale" =>
                   attempts'[a].disposition = "stale"
<1>1. QuarantinedInv /\ [SystemNext]_allVars => A
  <2> SUFFICES ASSUME SystemInv, QuarantineInv, [SystemNext]_allVars,
                      NEW a \in Claimed, attempts[a].disposition = "stale"
               PROVE  attempts'[a].disposition = "stale"
    BY DEF QuarantinedInv
  <2>1. ASSUME NEW w \in Worker, CompleteOne(w), worker[w].job = a PROVE FALSE
    BY <2>1 DEF QuarantineInv, CompleteOne, At
  <2> QED BY <2>1, StaleSource
<1>2. QuarantinedInv /\ [SystemNext]_allVars => [A]_vars
  BY <1>1
<1> QED BY <1>2, QuarantinedIsPast, PTL DEF SystemSpec, QuarantineIsFinal

=============================================================================
