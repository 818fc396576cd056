--------------------------- MODULE JobQueueProofs ---------------------------
(***************************************************************************)
(* Proofs about JobQueue, for any jobs, runs, budgets, lease duration and  *)
(* clock delay.                                                            *)
(***************************************************************************)
EXTENDS JobQueue, TLAPS

-----------------------------------------------------------------------------
(* What the row operators do, field by field. *)

\* CancelledRow changes the state and the reason only.
LEMMA CancelledRowFacts ==
    ASSUME NEW row \in JobRow
    PROVE  /\ CancelledRow(row) \in JobRow
           /\ CancelledRow(row).state = "FAILED"
           /\ CancelledRow(row).fence = row.fence
           /\ CancelledRow(row).attempt_id = row.attempt_id
           /\ CancelledRow(row).lease_token = row.lease_token
           /\ CancelledRow(row).lease_left = row.lease_left
           /\ CancelledRow(row).attempts_started = row.attempts_started
           /\ CancelledRow(row).selected_attempt_id = row.selected_attempt_id
           /\ CancelledRow(row).terminal_reason = "CANCELLED"
BY DEF CancelledRow, JobRow, JobState, Reason

\* A lease granted by a caller with a stale clock is still in range.
LEMMA LeaseRange ==
    ASSUME NEW d \in Delay
    PROVE  LeaseMs - d \in LeaseLeft /\ LeaseMs - d # Nil
BY TimeAssumption, NilAssumption DEF Delay, LeaseLeft

\* ClaimedRow raises the fence and the count by one and installs attempt a.
LEMMA ClaimedRowFacts ==
    ASSUME NEW row \in JobRow, NEW a \in AttemptId, NEW d \in Delay
    PROVE  /\ ClaimedRow(row, a, d) \in JobRow
           /\ ClaimedRow(row, a, d).state = "CLAIMED"
           /\ ClaimedRow(row, a, d).fence = row.fence + 1
           /\ ClaimedRow(row, a, d).attempt_id = a
           /\ ClaimedRow(row, a, d).lease_token = a
           /\ ClaimedRow(row, a, d).lease_left = LeaseMs - d
           /\ ClaimedRow(row, a, d).attempts_started = row.attempts_started + 1
           /\ ClaimedRow(row, a, d).selected_attempt_id = row.selected_attempt_id
           /\ ClaimedRow(row, a, d).terminal_reason = row.terminal_reason
<1> DEFINE n == row.fence + 1
           m == row.attempts_started + 1
           l == LeaseMs - d
<1>1. n \in Nat /\ m \in Nat /\ l \in LeaseLeft
  BY LeaseRange DEF JobRow
<1> HIDE DEF n, m, l
<1> DEFINE new == [row EXCEPT !.state = "CLAIMED", !.fence = n, !.attempt_id = a,
                              !.lease_token = a, !.lease_left = l,
                              !.attempts_started = m]
<1>2. /\ new \in JobRow
      /\ new.state = "CLAIMED" /\ new.fence = n /\ new.attempt_id = a
      /\ new.lease_token = a /\ new.lease_left = l /\ new.attempts_started = m
      /\ new.selected_attempt_id = row.selected_attempt_id
      /\ new.terminal_reason = row.terminal_reason
  BY <1>1 DEF JobRow, JobState
<1>3. new = ClaimedRow(row, a, d)
  BY DEF ClaimedRow, n, m, l
<1> QED BY <1>2, <1>3 DEF n, m, l

\* DecidedRow makes the job terminal with verdict a and drops the lease.
LEMMA DecidedRowFacts ==
    ASSUME NEW row \in JobRow, NEW a \in AttemptId, NEW o
    PROVE  /\ DecidedRow(row, a, o) \in JobRow
           /\ DecidedRow(row, a, o).state = IF o = "error" THEN "FAILED" ELSE "DONE"
           /\ DecidedRow(row, a, o).fence = row.fence
           /\ DecidedRow(row, a, o).attempt_id = row.attempt_id
           /\ DecidedRow(row, a, o).lease_token = Nil
           /\ DecidedRow(row, a, o).lease_left = Nil
           /\ DecidedRow(row, a, o).attempts_started = row.attempts_started
           /\ DecidedRow(row, a, o).selected_attempt_id = a
           /\ DecidedRow(row, a, o).terminal_reason # "LEASE_EXPIRED"
BY NilAssumption DEF DecidedRow, JobRow, JobState, Reason, LeaseLeft

\* ReapedRow takes the lease away; the job is requeued only within its budget
\* and while its run is not cancelled.
LEMMA ReapedRowFacts ==
    ASSUME NEW j \in Job, NEW m, jobs[j] \in JobRow
    PROVE  /\ ReapedRow(j, m) \in JobRow
           /\ ReapedRow(j, m).state \in {"PENDING", "FAILED"}
           /\ ReapedRow(j, m).state = "PENDING" =>
                 /\ ~runs[RunOf[j]].cancel_requested
                 /\ jobs[j].attempts_started < EffectiveMaxAttempts(RunOf[j], m)
           /\ ReapedRow(j, m).fence = jobs[j].fence
           /\ ReapedRow(j, m).attempt_id = Nil
           /\ ReapedRow(j, m).lease_token = Nil
           /\ ReapedRow(j, m).lease_left = Nil
           /\ ReapedRow(j, m).attempts_started = jobs[j].attempts_started
           /\ ReapedRow(j, m).selected_attempt_id = jobs[j].selected_attempt_id
           /\ ReapedRow(j, m).terminal_reason = "LEASE_EXPIRED" =>
                 ~(jobs[j].attempts_started < EffectiveMaxAttempts(RunOf[j], m))
<1> DEFINE retry == /\ ~runs[RunOf[j]].cancel_requested
                    /\ jobs[j].attempts_started < EffectiveMaxAttempts(RunOf[j], m)
           reason == IF retry THEN Nil
                     ELSE IF runs[RunOf[j]].cancel_requested THEN "CANCELLED"
                     ELSE "LEASE_EXPIRED"
           state == IF retry THEN "PENDING" ELSE "FAILED"
           new == [jobs[j] EXCEPT !.state = state, !.attempt_id = Nil,
                                  !.lease_token = Nil, !.lease_left = Nil,
                                  !.terminal_reason = reason]
<1>1. new = ReapedRow(j, m)
  BY DEF ReapedRow
<1>2. reason \in Reason \cup {Nil} /\ state \in {"PENDING", "FAILED"}
  BY DEF Reason
<1>3. (state = "PENDING" => retry) /\ (reason = "LEASE_EXPIRED" => ~retry)
  BY NilAssumption
<1>5. reason = "LEASE_EXPIRED" => ~runs[RunOf[j]].cancel_requested
  BY NilAssumption
<1> HIDE DEF state, reason
<1>4. /\ new \in JobRow
      /\ new.state = state
      /\ new.fence = jobs[j].fence
      /\ new.attempt_id = Nil /\ new.lease_token = Nil /\ new.lease_left = Nil
      /\ new.attempts_started = jobs[j].attempts_started
      /\ new.selected_attempt_id = jobs[j].selected_attempt_id
      /\ new.terminal_reason = reason
  BY <1>2 DEF JobRow, JobState, LeaseLeft
<1> QED BY <1>1, <1>2, <1>3, <1>4, <1>5

\* The three rewrites of an attempt row keep its job and its fence, and obey
\* the CHECK of the table.
LEMMA AttemptRowFacts ==
    ASSUME NEW row \in AttemptRow, NEW o \in Outcome
    PROVE  /\ QuarantinedRow(row, o) \in AttemptRow
           /\ QuarantinedRow(row, o).job_id = row.job_id
           /\ QuarantinedRow(row, o).fence = row.fence
           /\ QuarantinedRow(row, o).disposition = "stale"
           /\ QuarantinedRow(row, o).evaluation_validity = "invalid"
           /\ QuarantinedRow(row, o).outcome \in {"invalid_evaluation", "error", Nil}
           /\ CommittedRow(row, o) \in AttemptRow
           /\ CommittedRow(row, o).job_id = row.job_id
           /\ CommittedRow(row, o).fence = row.fence
           /\ CommittedRow(row, o).disposition = "authoritative"
           /\ CommittedRow(row, o).outcome = o
           /\ CommittedRow(row, o).evaluation_validity =
                 IF o \in {"accept", "reject"} THEN "valid" ELSE "invalid"
<1>1. o \in {"accept", "reject", "invalid_evaluation", "error"}
  BY OutcomeAssumption
<1>2. /\ QuarantinedRow(row, o) \in AttemptRow
      /\ QuarantinedRow(row, o).job_id = row.job_id
      /\ QuarantinedRow(row, o).fence = row.fence
      /\ QuarantinedRow(row, o).disposition = "stale"
      /\ QuarantinedRow(row, o).evaluation_validity = "invalid"
      /\ QuarantinedRow(row, o).outcome \in {"invalid_evaluation", "error", Nil}
  BY <1>1 DEF QuarantinedRow, AttemptRow, Verdict, Disposition
<1>3. /\ CommittedRow(row, o) \in AttemptRow
      /\ CommittedRow(row, o).job_id = row.job_id
      /\ CommittedRow(row, o).fence = row.fence
      /\ CommittedRow(row, o).disposition = "authoritative"
      /\ CommittedRow(row, o).outcome = o
      /\ CommittedRow(row, o).evaluation_validity =
            IF o \in {"accept", "reject"} THEN "valid" ELSE "invalid"
  BY <1>1 DEF CommittedRow, AttemptRow, Verdict, Disposition
<1> QED BY <1>2, <1>3

\* So does the one reap_expired applies.
LEMMA AbandonedRowFacts ==
    ASSUME NEW row \in AttemptRow
    PROVE  /\ AbandonedRow(row) \in AttemptRow
           /\ AbandonedRow(row).job_id = row.job_id
           /\ AbandonedRow(row).fence = row.fence
           /\ AbandonedRow(row).disposition = "abandoned"
           /\ AbandonedRow(row).evaluation_validity = "invalid"
           /\ AbandonedRow(row).outcome = Nil
BY DEF AbandonedRow, AttemptRow, Verdict, Disposition

\* The row claim() inserts.
LEMMA NewAttemptFacts ==
    ASSUME NEW j \in Job, NEW n \in Nat
    PROVE  /\ NewAttempt(j, n) \in AttemptRow
           /\ NewAttempt(j, n).job_id = j
           /\ NewAttempt(j, n).fence = n
           /\ NewAttempt(j, n).disposition = "active"
           /\ NewAttempt(j, n).evaluation_validity = "pending"
           /\ NewAttempt(j, n).outcome = Nil
BY DEF NewAttempt, AttemptRow, Verdict, Disposition

-----------------------------------------------------------------------------
(* The tables. *)

\* UpdateRuns changes nothing but the state of the runs it is called on.
LEMMA UpdateRunsFacts ==
    ASSUME NEW js, NEW rs \in [Run -> RunRow], NEW R
    PROVE  /\ UpdateRuns(js, rs, R) \in [Run -> RunRow]
           /\ \A r \in Run :
                 /\ UpdateRuns(js, rs, R)[r].cancel_requested = rs[r].cancel_requested
                 /\ UpdateRuns(js, rs, R)[r].state =
                       IF r \in R THEN RunStateAfter(js, rs, r) ELSE rs[r].state
<1>1. ASSUME NEW r \in Run
      PROVE  RunStateAfter(js, rs, r) \in RunState
  BY <1>1 DEF RunStateAfter, RunRow, RunState, FinalRun
<1> QED BY <1>1 DEF UpdateRuns, RunRow

\* A step keeps RunVerdict if it keeps terminal jobs terminal as they are and
\* calls _update_run_state on every run of which it makes a job terminal.
LEMMA RunStep ==
    ASSUME TypeOK, RunVerdict,
           NEW R, NEW rs \in [Run -> RunRow],
           \A r \in Run : /\ rs[r].state = runs[r].state
                          /\ runs[r].cancel_requested => rs[r].cancel_requested,
           \A j \in Job : jobs[j].state \in Terminal => jobs'[j].state = jobs[j].state,
           \A j \in Job : jobs'[j].state \in Terminal =>
                              jobs[j].state \in Terminal \/ RunOf[j] \in R,
           runs' = UpdateRuns(jobs', rs, R)
    PROVE  RunVerdict' /\ runs' \in [Run -> RunRow]
<1>1. /\ runs' \in [Run -> RunRow]
      /\ \A r \in Run :
            /\ runs'[r].cancel_requested = rs[r].cancel_requested
            /\ runs'[r].state =
                  IF r \in R THEN RunStateAfter(jobs', rs, r) ELSE rs[r].state
  BY UpdateRunsFacts
<1>2. SUFFICES ASSUME NEW r \in Run, JobsOf(r) # {}
               PROVE
        /\ runs'[r].state \in FinalRun <=> \A j \in JobsOf(r) : jobs'[j].state \in Terminal
        /\ runs'[r].state = "COMPLETE" => \A j \in JobsOf(r) : jobs'[j].state = "DONE"
        /\ runs'[r].state = "FAILED" => \E j \in JobsOf(r) : jobs'[j].state = "FAILED"
        /\ runs'[r].state = "CANCELLED" => runs'[r].cancel_requested
  BY <1>1 DEF RunVerdict, JobsOf
<1>3. CASE runs[r].state \in FinalRun
  <2>1. \A j \in JobsOf(r) : j \in Job /\ jobs'[j].state = jobs[j].state
    BY <1>2, <1>3 DEF RunVerdict, JobsOf
  <2>2. runs'[r].state = runs[r].state
    BY <1>1, <1>3 DEF RunStateAfter
  <2>3. runs[r].cancel_requested => runs'[r].cancel_requested
    BY <1>1
  <2> QED BY <2>1, <2>2, <2>3, <1>2 DEF RunVerdict
<1>4. CASE runs[r].state \notin FinalRun /\ r \notin R
  <2>1. PICK j \in JobsOf(r) : jobs[j].state \notin Terminal
    BY <1>2, <1>4 DEF RunVerdict
  <2>2. jobs'[j].state \notin Terminal
    BY <2>1, <1>4 DEF JobsOf
  <2>3. runs'[r].state = runs[r].state
    BY <1>1, <1>4
  <2> QED BY <2>1, <2>2, <2>3, <1>4 DEF FinalRun
<1>5. CASE runs[r].state \notin FinalRun /\ r \in R
  <2> DEFINE states == {jobs'[j].state : j \in JobsOf(r)}
  <2>1. states # {} /\ rs[r].state \notin FinalRun
    BY <1>2, <1>5
  <2>2. runs'[r].state = IF ~(states \subseteq Terminal) THEN "RUNNING"
                         ELSE IF rs[r].cancel_requested THEN "CANCELLED"
                         ELSE IF "FAILED" \in states THEN "FAILED"
                         ELSE "COMPLETE"
    BY <1>1, <1>5, <2>1 DEF RunStateAfter
  <2>3. states \subseteq Terminal <=> \A j \in JobsOf(r) : jobs'[j].state \in Terminal
    OBVIOUS
  <2>4. "FAILED" \in states <=> \E j \in JobsOf(r) : jobs'[j].state = "FAILED"
    OBVIOUS
  <2> HIDE DEF states
  <2>5. CASE ~(states \subseteq Terminal)
    BY <2>2, <2>3, <2>5 DEF FinalRun
  <2>6. CASE states \subseteq Terminal
    <3>1. runs'[r].state \in FinalRun
      BY <2>2, <2>6 DEF FinalRun
    <3>2. runs'[r].state = "COMPLETE" => "FAILED" \notin states
      BY <2>2, <2>6
    <3>3. runs'[r].state = "FAILED" => "FAILED" \in states
      BY <2>2, <2>6
    <3>4. runs'[r].state = "CANCELLED" => runs'[r].cancel_requested
      BY <2>2, <2>6, <1>1
    <3> QED BY <3>1, <3>2, <3>3, <3>4, <2>3, <2>4, <2>6 DEF Terminal
  <2> QED BY <2>5, <2>6
<1> QED BY <1>3, <1>4, <1>5

-----------------------------------------------------------------------------
(* IInv is inductive: one lemma for each kind of step. *)

\* The planned audit satisfies the invariant.
LEMMA InitIInv == Init => IInv
<1> SUFFICES ASSUME Init PROVE IInv
  OBVIOUS
<1> DEFINE fresh == [state |-> "PENDING", fence |-> 0, attempt_id |-> Nil,
                     lease_token |-> Nil, lease_left |-> Nil,
                     attempts_started |-> 0, selected_attempt_id |-> Nil,
                     terminal_reason |-> Nil]
<1>1. /\ fresh \in JobRow
      /\ fresh.state = "PENDING" /\ fresh.fence = 0 /\ fresh.attempt_id = Nil
      /\ fresh.lease_token = Nil /\ fresh.lease_left = Nil
      /\ fresh.attempts_started = 0 /\ fresh.selected_attempt_id = Nil
      /\ fresh.terminal_reason = Nil
  BY DEF JobRow, JobState, LeaseLeft
<1>2. \A j \in Job : jobs[j] = fresh
  BY DEF Init
<1>3. jobs \in [Job -> JobRow]
  BY <1>1 DEF Init
<1>4. attempts \in [AttemptId -> AttemptRow \cup {Nil}] /\ Claimed = {}
  BY DEF Init, Claimed
<1>5. runs \in [Run -> RunRow] /\ \A r \in Run : runs[r].state = "PLANNED"
  BY DEF Init, RunRow, RunState
<1> HIDE DEF fresh
<1>6. LeaseInv /\ VerdictIntegrity /\ SelectedFence
  BY <1>1, <1>2, <1>4 DEF LeaseInv, VerdictIntegrity, SelectedFence, Active
<1>7. FenceInv
  <2>1. \A j \in Job : /\ jobs[j].attempts_started = 0 /\ jobs[j].fence = 0
                       /\ AttemptsOf(j) = {}
    BY <1>1, <1>2, <1>4 DEF AttemptsOf
  <2>2. 1 .. 0 = {}
    OBVIOUS
  <2> QED BY <2>1, <2>2, Zenon DEF FenceInv
<1>8. ActiveAttemptIsCurrent /\ AttemptRowCheck
  BY <1>4 DEF ActiveAttemptIsCurrent, AttemptRowCheck
<1>9. BudgetInv
  <2>1. \A j \in Job : MaxAttempts[RunOf[j]] \in Nat \ {0}
    BY RunAssumption, BudgetAssumption
  <2>2. \A j \in Job : jobs[j].attempts_started = 0
    BY <1>1, <1>2
  <2>3. \A n \in Nat \ {0} : 0 <= n /\ 0 + 1 <= n
    OBVIOUS
  <2>4. \A j \in Job : WithinBudget(j, 0) /\ WithinBudget(j, 0 + 1)
    BY <2>1, <2>3, Zenon DEF WithinBudget
  <2>5. \A j \in Job : jobs[j].terminal_reason # "LEASE_EXPIRED"
    BY <1>1, <1>2, NilAssumption
  <2> QED BY <2>2, <2>4, <2>5, Zenon DEF BudgetInv
<1>10. RunVerdict
  BY <1>1, <1>2, <1>5 DEF RunVerdict, JobsOf, FinalRun, Terminal
<1> QED BY <1>3, <1>4, <1>5, <1>6, <1>7, <1>8, <1>9, <1>10 DEF IInv, TypeOK

\* What mark_running, heartbeat and the clock have in common: a held job stays
\* held by the same attempt, everything else stays as it is.
Renewed ==
    /\ jobs' \in [Job -> JobRow]
    /\ \A j \in Job :
          /\ \/ jobs'[j].state = jobs[j].state
             \/ jobs[j].state \in Active /\ jobs'[j].state \in Active
          /\ jobs'[j].fence = jobs[j].fence
          /\ jobs'[j].attempt_id = jobs[j].attempt_id
          /\ jobs'[j].lease_token = jobs[j].lease_token
          /\ jobs'[j].lease_left = Nil <=> jobs[j].lease_left = Nil
          /\ jobs'[j].attempts_started = jobs[j].attempts_started
          /\ jobs'[j].selected_attempt_id = jobs[j].selected_attempt_id
          /\ jobs'[j].terminal_reason = jobs[j].terminal_reason
          /\ jobs[j].state \notin Active => jobs'[j] = jobs[j]
    /\ UNCHANGED <<attempts, runs>>

\* A renewal keeps the invariant.
LEMMA RenewedIInv == IInv /\ Renewed => IInv'
<1> SUFFICES ASSUME IInv, Renewed PROVE IInv'
  OBVIOUS
<1>1. TypeOK'
  BY DEF IInv, Renewed, TypeOK
<1>2. Claimed' = Claimed /\ \A j \in Job : AttemptsOf(j)' = AttemptsOf(j)
  BY DEF Renewed, Claimed, AttemptsOf
<1>3. LeaseInv'
  BY <1>2 DEF IInv, LeaseInv, Renewed, Active
<1>4. FenceInv'
  BY <1>2 DEF IInv, FenceInv, Renewed
<1>5. VerdictIntegrity' /\ SelectedFence'
  BY <1>2 DEF IInv, VerdictIntegrity, SelectedFence, Renewed, Active, Terminal, TypeOK, AttemptRow, Claimed
<1>6. ActiveAttemptIsCurrent' /\ AttemptRowCheck'
  BY <1>2 DEF IInv, ActiveAttemptIsCurrent, AttemptRowCheck, Renewed, Active, TypeOK, AttemptRow, Claimed
<1>7. BudgetInv'
  BY DEF IInv, BudgetInv, Renewed, WithinBudget, UsedUp, Active
<1>8. RunVerdict'
  BY DEF IInv, RunVerdict, Renewed, Active, Terminal, JobsOf
<1> QED BY <1>1, <1>3, <1>4, <1>5, <1>6, <1>7, <1>8 DEF IInv

\* A handle that claim() returned names a row of evaluation_attempts.
LEMMA ClaimedFacts ==
    ASSUME TypeOK, NEW h \in Claimed
    PROVE  /\ h \in AttemptId
           /\ attempts[h] \in AttemptRow
           /\ attempts[h].job_id \in Job
           /\ attempts[h].fence \in Nat
           /\ jobs[attempts[h].job_id] \in JobRow
<1>1. attempts[h] \in AttemptRow
  BY DEF Claimed, TypeOK
<1> QED BY <1>1 DEF Claimed, TypeOK, AttemptRow

\* mark_running, heartbeat and the clock renew at most.
LEMMA MarkRunningRenews ==
    ASSUME IInv, NEW h \in Claimed, NEW d \in Delay, MarkRunning(h, d)
    PROVE  Renewed
<1> DEFINE j == attempts[h].job_id
           new == [jobs[j] EXCEPT !.state = "RUNNING"]
<1>1. j \in Job /\ jobs[j] \in JobRow /\ jobs[j].state \in Active
  BY ClaimedFacts DEF IInv, MarkRunning, HoldsLease
<1>2. /\ new \in JobRow
      /\ new.state = "RUNNING" /\ new.fence = jobs[j].fence
      /\ new.attempt_id = jobs[j].attempt_id
      /\ new.lease_token = jobs[j].lease_token
      /\ new.lease_left = jobs[j].lease_left
      /\ new.attempts_started = jobs[j].attempts_started
      /\ new.selected_attempt_id = jobs[j].selected_attempt_id
      /\ new.terminal_reason = jobs[j].terminal_reason
  BY <1>1 DEF JobRow, JobState
<1>3. jobs' = [jobs EXCEPT ![j] = new]
  BY DEF MarkRunning
<1> HIDE DEF new, j
<1>4. jobs' \in [Job -> JobRow] /\ \A k \in Job : jobs'[k] = IF k = j THEN new ELSE jobs[k]
  BY <1>1, <1>2, <1>3 DEF IInv, TypeOK
<1>5. UNCHANGED <<attempts, runs>>
  BY DEF MarkRunning
<1> QED BY <1>1, <1>2, <1>4, <1>5 DEF Renewed, Active

\* The row keeps everything but its lease.
LEMMA LeaseOnly ==
    ASSUME NEW row \in JobRow, NEW l \in LeaseLeft
    PROVE  LET new == [row EXCEPT !.lease_left = l]
           IN  /\ new \in JobRow
               /\ new.state = row.state /\ new.fence = row.fence
               /\ new.attempt_id = row.attempt_id
               /\ new.lease_token = row.lease_token
               /\ new.lease_left = l
               /\ new.attempts_started = row.attempts_started
               /\ new.selected_attempt_id = row.selected_attempt_id
               /\ new.terminal_reason = row.terminal_reason
BY DEF JobRow

\* heartbeat() changes the lease of one held job.
LEMMA HeartbeatRenews ==
    ASSUME IInv, NEW h \in Claimed, NEW d \in Delay, Heartbeat(h, d)
    PROVE  Renewed
<1> DEFINE j == attempts[h].job_id
           l == LeaseMs - d
           new == [jobs[j] EXCEPT !.lease_left = l]
<1>1. /\ j \in Job /\ jobs[j] \in JobRow
      /\ jobs[j].state \in Active /\ jobs[j].lease_left # Nil
  BY ClaimedFacts DEF IInv, Heartbeat, HoldsLease, LeaseUnexpired
<1>2. l \in LeaseLeft /\ l # Nil
  BY LeaseRange
<1>3. jobs' = [jobs EXCEPT ![j] = new]
  BY DEF Heartbeat
<1> HIDE DEF j, l
<1>4. /\ new \in JobRow
      /\ new.state = jobs[j].state /\ new.fence = jobs[j].fence
      /\ new.attempt_id = jobs[j].attempt_id
      /\ new.lease_token = jobs[j].lease_token
      /\ new.lease_left = l
      /\ new.attempts_started = jobs[j].attempts_started
      /\ new.selected_attempt_id = jobs[j].selected_attempt_id
      /\ new.terminal_reason = jobs[j].terminal_reason
  BY <1>1, <1>2, LeaseOnly
<1> HIDE DEF new
<1>5. jobs' \in [Job -> JobRow] /\ \A k \in Job : jobs'[k] = IF k = j THEN new ELSE jobs[k]
  BY <1>1, <1>3, <1>4 DEF IInv, TypeOK
<1>6. UNCHANGED <<attempts, runs>>
  BY DEF Heartbeat
<1> QED BY <1>1, <1>2, <1>4, <1>5, <1>6 DEF Renewed

\* The clock changes the leases of held jobs.
LEMMA TickRenews ==
    ASSUME IInv, Tick
    PROVE  Renewed
<1> DEFINE runs_out(j) == jobs[j].lease_left # Nil /\ jobs[j].lease_left > -MaxDelay
           new(j) == [jobs[j] EXCEPT !.lease_left = jobs[j].lease_left - 1]
<1>1. \A j \in Job : jobs'[j] = IF runs_out(j) THEN new(j) ELSE jobs[j]
  BY DEF Tick
<1>2. \A j \in Job : jobs[j] \in JobRow /\ jobs[j].lease_left \in LeaseLeft
  BY DEF IInv, TypeOK, JobRow
<1>3. \A j \in Job : runs_out(j) => /\ jobs[j].lease_left - 1 \in LeaseLeft
                                    /\ jobs[j].lease_left - 1 # Nil
  BY <1>2, TimeAssumption, NilAssumption DEF LeaseLeft
<1>4. \A j \in Job : runs_out(j) =>
        /\ new(j) \in JobRow
        /\ new(j).state = jobs[j].state /\ new(j).fence = jobs[j].fence
        /\ new(j).attempt_id = jobs[j].attempt_id
        /\ new(j).lease_token = jobs[j].lease_token
        /\ new(j).lease_left = jobs[j].lease_left - 1
        /\ new(j).attempts_started = jobs[j].attempts_started
        /\ new(j).selected_attempt_id = jobs[j].selected_attempt_id
        /\ new(j).terminal_reason = jobs[j].terminal_reason
  BY <1>2, <1>3, LeaseOnly
<1>5. \A j \in Job : runs_out(j) => jobs[j].lease_left # Nil
  OBVIOUS
<1>6. jobs' = [j \in Job |-> jobs'[j]]
  BY DEF Tick
<1> HIDE DEF runs_out, new
<1>7. jobs' \in [Job -> JobRow]
  BY <1>1, <1>2, <1>4, <1>6
<1>8. UNCHANGED <<attempts, runs>>
  BY DEF Tick
<1>9. \A j \in Job : jobs[j].state \notin Active => ~runs_out(j)
  BY <1>5 DEF IInv, LeaseInv
<1> QED BY <1>1, <1>3, <1>4, <1>5, <1>7, <1>8, <1>9 DEF Renewed

\* request_cancel and the sweep of claim(): the table FailPending(R).
LEMMA FailPendingFacts ==
    ASSUME TypeOK, NEW R
    PROVE  /\ FailPending(R) \in [Job -> JobRow]
           /\ \A j \in Job :
                 FailPending(R)[j] = IF RunOf[j] \in R /\ jobs[j].state = "PENDING"
                                     THEN CancelledRow(jobs[j]) ELSE jobs[j]
BY CancelledRowFacts DEF FailPending, TypeOK

\* Failing the jobs in the queue of some runs keeps the invariant.
LEMMA FailPendingIInv ==
    ASSUME IInv, NEW R, NEW rs \in [Run -> RunRow],
           \A r \in Run : /\ rs[r].state = runs[r].state
                          /\ runs[r].cancel_requested => rs[r].cancel_requested,
           jobs' = FailPending(R), runs' = UpdateRuns(jobs', rs, R), UNCHANGED attempts
    PROVE  IInv'
<1>1. /\ jobs' \in [Job -> JobRow]
      /\ \A j \in Job : \/ jobs'[j] = jobs[j]
                        \/ /\ jobs[j].state = "PENDING" /\ RunOf[j] \in R
                           /\ jobs'[j] = CancelledRow(jobs[j])
  BY FailPendingFacts DEF IInv
<1>2. \A j \in Job :
        /\ jobs[j] \in JobRow
        /\ \/ jobs'[j].state = jobs[j].state
           \/ jobs[j].state = "PENDING" /\ jobs'[j].state = "FAILED" /\ RunOf[j] \in R
        /\ jobs'[j].fence = jobs[j].fence
        /\ jobs'[j].attempt_id = jobs[j].attempt_id
        /\ jobs'[j].lease_token = jobs[j].lease_token
        /\ jobs'[j].lease_left = jobs[j].lease_left
        /\ jobs'[j].attempts_started = jobs[j].attempts_started
        /\ jobs'[j].selected_attempt_id = jobs[j].selected_attempt_id
        /\ jobs'[j].terminal_reason \in {jobs[j].terminal_reason, "CANCELLED"}
  BY <1>1, CancelledRowFacts DEF IInv, TypeOK
<1>3. Claimed' = Claimed /\ \A j \in Job : AttemptsOf(j)' = AttemptsOf(j)
  BY DEF Claimed, AttemptsOf
<1>4. RunVerdict' /\ runs' \in [Run -> RunRow]
  BY <1>2, RunStep DEF IInv, Terminal
<1>5. TypeOK'
  BY <1>1, <1>4 DEF IInv, TypeOK
<1>6. LeaseInv'
  BY <1>2, <1>3 DEF IInv, LeaseInv, Active
<1>7. FenceInv'
  BY <1>2, <1>3 DEF IInv, FenceInv
<1>8. VerdictIntegrity' /\ SelectedFence'
  BY <1>2, <1>3, ClaimedFacts DEF IInv, VerdictIntegrity, SelectedFence, Terminal
<1>9. ActiveAttemptIsCurrent' /\ AttemptRowCheck'
  BY <1>2, <1>3, ClaimedFacts DEF IInv, ActiveAttemptIsCurrent, AttemptRowCheck, Active
<1>10. BudgetInv'
  BY <1>2 DEF IInv, BudgetInv, WithinBudget, UsedUp
<1> QED BY <1>4, <1>5, <1>6, <1>7, <1>8, <1>9, <1>10 DEF IInv

\* A late complete() keeps the invariant: it rewrites one attempt that is not
\* authoritative.
LEMMA CompleteStaleIInv ==
    ASSUME IInv, NEW h \in Claimed, NEW a \in Claimed, NEW o \in Outcome, NEW d \in Delay,
           CompleteStale(h, a, o, d)
    PROVE  IInv'
<1> DEFINE q == QuarantinedRow(attempts[a], o)
<1>1. /\ UNCHANGED <<jobs, runs>>
      /\ \/ UNCHANGED attempts
         \/ /\ attempts[a].disposition \in {"active", "abandoned"}
            /\ attempts' = [attempts EXCEPT ![a] = q]
  BY DEF CompleteStale, MarkAttemptStale
<1>2. CASE UNCHANGED attempts
  <2>1. UNCHANGED vars
    BY <1>1, <1>2 DEF vars
  <2> QED BY <2>1 DEF IInv, TypeOK, LeaseInv, FenceInv, VerdictIntegrity, SelectedFence,
            ActiveAttemptIsCurrent, AttemptRowCheck, BudgetInv, RunVerdict, AttemptsOf,
            Claimed, WithinBudget, vars
<1>3. CASE /\ attempts[a].disposition \in {"active", "abandoned"}
           /\ attempts' = [attempts EXCEPT ![a] = q]
  <2>1. /\ a \in AttemptId /\ attempts[a] \in AttemptRow
        /\ q \in AttemptRow /\ q # Nil
        /\ q.job_id = attempts[a].job_id /\ q.fence = attempts[a].fence
        /\ q.disposition = "stale" /\ q.evaluation_validity = "invalid"
        /\ q.outcome \in {"invalid_evaluation", "error", Nil}
    BY ClaimedFacts, AttemptRowFacts, NilIsNoRow DEF IInv
  <2> HIDE DEF q
  <2>2. attempts' \in [AttemptId -> AttemptRow \cup {Nil}]
    BY <1>3, <2>1 DEF IInv, TypeOK
  <2>3. \A b \in AttemptId : attempts'[b] = IF b = a THEN q ELSE attempts[b]
    BY <1>3, <2>1 DEF IInv, TypeOK
  <2>4. /\ Claimed' = Claimed
        /\ \A b \in Claimed : /\ b \in AttemptId
                              /\ attempts'[b].job_id = attempts[b].job_id
                              /\ attempts'[b].fence = attempts[b].fence
                              /\ \/ attempts'[b] = attempts[b]
                                 \/ b = a
    BY <2>1, <2>3 DEF Claimed
  <2>5. \A j \in Job : AttemptsOf(j)' = AttemptsOf(j)
    BY <2>4 DEF AttemptsOf
  <2>6. LeaseInv'
    BY <1>1, <2>1, <2>3, <2>4, <2>5 DEF IInv, LeaseInv, AttemptsOf
  <2>7. FenceInv'
    BY <1>1, <2>4, <2>5 DEF IInv, FenceInv, AttemptsOf
  <2>8. VerdictIntegrity' /\ SelectedFence'
    BY <1>1, <1>3, <2>1, <2>3, <2>4, <2>5
       DEF IInv, VerdictIntegrity, SelectedFence, AttemptsOf
  <2>9. ActiveAttemptIsCurrent'
    BY <1>1, <2>1, <2>3, <2>4 DEF IInv, ActiveAttemptIsCurrent
  <2>10. AttemptRowCheck'
    BY <2>1, <2>3, <2>4 DEF IInv, AttemptRowCheck
  <2>11. BudgetInv' /\ RunVerdict'
    BY <1>1 DEF IInv, BudgetInv, RunVerdict, WithinBudget, UsedUp
  <2> QED BY <1>1, <2>2, <2>6, <2>7, <2>8, <2>9, <2>10, <2>11 DEF IInv, TypeOK
<1> QED BY <1>1, <1>2, <1>3

\* A commit keeps the invariant: the attempt in charge of a held job becomes the
\* only authoritative one.
LEMMA CompleteCommitIInv ==
    ASSUME IInv, NEW h \in Claimed, NEW a \in Claimed, NEW o \in Outcome, NEW d \in Delay,
           CompleteCommit(h, a, o, d)
    PROVE  IInv'
<1> DEFINE j == attempts[h].job_id
           c == CommittedRow(attempts[a], o)
           t == DecidedRow(jobs[j], a, o)
<1>1. /\ j \in Job /\ a \in AttemptId /\ jobs[j] \in JobRow /\ attempts[a] \in AttemptRow
      /\ jobs[j].state \notin Terminal /\ jobs[j].lease_left # Nil
      /\ jobs[j].attempt_id = a /\ attempts[a].job_id = j
      /\ attempts' = [attempts EXCEPT ![a] = c]
      /\ jobs' = [jobs EXCEPT ![j] = t]
      /\ runs' = UpdateRuns(jobs', runs, {RunOf[j]})
  BY ClaimedFacts DEF IInv, CompleteCommit, LeaseUnexpired
<1>2. /\ c \in AttemptRow /\ c # Nil
      /\ c.job_id = j /\ c.fence = attempts[a].fence
      /\ c.disposition = "authoritative" /\ c.outcome = o
      /\ c.evaluation_validity = IF o \in {"accept", "reject"} THEN "valid" ELSE "invalid"
  BY <1>1, AttemptRowFacts, NilIsNoRow
<1>3. /\ t \in JobRow /\ t.state \in Terminal
      /\ t.fence = jobs[j].fence
      /\ t.lease_token = Nil /\ t.lease_left = Nil
      /\ t.attempts_started = jobs[j].attempts_started
      /\ t.selected_attempt_id = a /\ t.terminal_reason # "LEASE_EXPIRED"
  BY <1>1, DecidedRowFacts DEF Terminal
<1> HIDE DEF j, c, t
<1>4. /\ jobs[j].state \in Active
      /\ jobs[j].selected_attempt_id = Nil
      /\ attempts[a].fence = jobs[j].fence
  BY <1>1 DEF IInv, LeaseInv
<1>5. /\ attempts' \in [AttemptId -> AttemptRow \cup {Nil}]
      /\ \A b \in AttemptId : attempts'[b] = IF b = a THEN c ELSE attempts[b]
  BY <1>1, <1>2 DEF IInv, TypeOK
<1>6. /\ jobs' \in [Job -> JobRow]
      /\ \A k \in Job : jobs'[k] = IF k = j THEN t ELSE jobs[k]
  BY <1>1, <1>3 DEF IInv, TypeOK
<1>7. /\ Claimed' = Claimed
      /\ \A b \in Claimed : /\ b \in AttemptId
                            /\ attempts[b].job_id \in Job
                            /\ attempts'[b].job_id = attempts[b].job_id
                            /\ attempts'[b].fence = attempts[b].fence
  BY <1>1, <1>2, <1>5, ClaimedFacts DEF IInv, Claimed
<1>8. \A k \in Job : AttemptsOf(k)' = AttemptsOf(k)
  BY <1>7 DEF AttemptsOf
<1>9. RunVerdict' /\ runs' \in [Run -> RunRow]
  <2>1. \A k \in Job : jobs[k].state \in Terminal => jobs'[k].state = jobs[k].state
    BY <1>1, <1>6
  <2>2. \A k \in Job : jobs'[k].state \in Terminal =>
                          jobs[k].state \in Terminal \/ RunOf[k] \in {RunOf[j]}
    BY <1>6
  <2>3. runs \in [Run -> RunRow] /\ TypeOK /\ RunVerdict
    BY DEF IInv, TypeOK
  <2> QED BY <1>1, <2>1, <2>2, <2>3, RunStep
<1>10. LeaseInv'
  BY <1>1, <1>3, <1>5, <1>6, <1>7, <1>8 DEF IInv, LeaseInv, AttemptsOf, Active, Terminal
<1>11. FenceInv'
  BY <1>3, <1>6, <1>7, <1>8 DEF IInv, FenceInv, AttemptsOf
<1>12. VerdictIntegrity'
  <2>1. ASSUME NEW b \in Claimed, attempts'[b].disposition = "authoritative"
        PROVE  jobs'[attempts'[b].job_id].selected_attempt_id = b
    <3>1. CASE b = a
      BY <3>1, <1>2, <1>3, <1>5, <1>6, <1>1
    <3>2. CASE b # a
      <4>1. jobs[attempts[b].job_id].selected_attempt_id = b
        BY <2>1, <3>2, <1>5, <1>7 DEF IInv, VerdictIntegrity
      <4>2. attempts[b].job_id # j
        BY <4>1, <1>4, <1>7, NilAssumption
      <4> QED BY <4>1, <4>2, <1>6, <1>7
    <3> QED BY <3>1, <3>2
  <2>2. ASSUME NEW k \in Job, jobs'[k].selected_attempt_id # Nil
        PROVE  /\ jobs'[k].state \in Terminal
               /\ jobs'[k].selected_attempt_id \in AttemptsOf(k)
               /\ attempts'[jobs'[k].selected_attempt_id].disposition = "authoritative"
    <3>1. CASE k = j
      BY <3>1, <1>1, <1>2, <1>3, <1>5, <1>6 DEF AttemptsOf
    <3>2. CASE k # j
      BY <2>2, <3>2, <1>2, <1>5, <1>6, <1>7 DEF IInv, VerdictIntegrity, AttemptsOf
    <3> QED BY <3>1, <3>2
  <2>3. \A k \in Job : jobs'[k].state = "DONE" => jobs'[k].selected_attempt_id # Nil
    BY <1>1, <1>3, <1>6, NilAssumption DEF IInv, VerdictIntegrity
  <2> QED BY <2>1, <2>2, <2>3, <1>7, <1>8 DEF VerdictIntegrity
<1>13. SelectedFence'
  <2>1. \A k \in Job : k # j /\ jobs[k].selected_attempt_id # Nil =>
            jobs[k].selected_attempt_id \in Claimed
    BY DEF IInv, VerdictIntegrity, AttemptsOf
  <2> QED BY <2>1, <1>1, <1>2, <1>3, <1>4, <1>5, <1>6, <1>7 DEF IInv, SelectedFence
<1>14. ActiveAttemptIsCurrent'
  <2>1. ASSUME NEW b \in Claimed, attempts'[b].disposition = "active"
        PROVE  /\ jobs'[attempts'[b].job_id].state \in Active
               /\ jobs'[attempts'[b].job_id].attempt_id = b
    <3>1. b # a /\ attempts'[b] = attempts[b]
      BY <2>1, <1>2, <1>5, <1>7
    <3>2. /\ jobs[attempts[b].job_id].state \in Active
          /\ jobs[attempts[b].job_id].attempt_id = b
      BY <2>1, <3>1 DEF IInv, ActiveAttemptIsCurrent
    <3>3. attempts[b].job_id # j
      BY <3>1, <3>2, <1>1
    <3> QED BY <3>1, <3>2, <3>3, <1>6, <1>7
  <2> QED BY <2>1, <1>7 DEF ActiveAttemptIsCurrent
<1>15. AttemptRowCheck'
  <2>1. o \in {"accept", "reject", "invalid_evaluation", "error"}
    BY OutcomeAssumption
  <2> QED BY <2>1, <1>2, <1>5, <1>7 DEF IInv, AttemptRowCheck
<1>16. BudgetInv'
  BY <1>3, <1>6 DEF IInv, BudgetInv, WithinBudget, UsedUp, Terminal
<1> QED BY <1>5, <1>6, <1>9, <1>10, <1>11, <1>12, <1>13, <1>14, <1>15, <1>16 DEF IInv, TypeOK

\* reap_expired() keeps the invariant: the jobs it frees leave no active attempt.
LEMMA ReapExpiredIInv ==
    ASSUME IInv, NEW m \in ReapArgs, NEW d \in Delay, ReapExpired(m, d)
    PROVE  IInv'
<1> DEFINE E == Expired(d)
           Dropped(b) == /\ \E j \in E : jobs[j].attempt_id = b
                         /\ attempts[b] # Nil
                         /\ attempts[b].disposition = "active"
<1>1. /\ E \subseteq Job
      /\ \A j \in E : jobs[j].state \in Active
      /\ jobs' = [j \in Job |-> IF j \in E THEN ReapedRow(j, m) ELSE jobs[j]]
      /\ attempts' = [b \in AttemptId |->
            IF Dropped(b) THEN AbandonedRow(attempts[b]) ELSE attempts[b]]
      /\ runs' = UpdateRuns(jobs', runs, {RunOf[j] : j \in E})
  BY DEF ReapExpired, Expired
<1> HIDE DEF E
<1>2. \A j \in Job : jobs[j] \in JobRow
  BY DEF IInv, TypeOK
<1>3. \A j \in E :
        /\ jobs'[j] \in JobRow
        /\ jobs'[j].state \in {"PENDING", "FAILED"}
        /\ jobs'[j].state = "PENDING" =>
              jobs[j].attempts_started < EffectiveMaxAttempts(RunOf[j], m)
        /\ jobs'[j].fence = jobs[j].fence
        /\ jobs'[j].attempt_id = Nil
        /\ jobs'[j].lease_token = Nil
        /\ jobs'[j].lease_left = Nil
        /\ jobs'[j].attempts_started = jobs[j].attempts_started
        /\ jobs'[j].selected_attempt_id = jobs[j].selected_attempt_id
        /\ jobs'[j].terminal_reason = "LEASE_EXPIRED" =>
              ~(jobs[j].attempts_started < EffectiveMaxAttempts(RunOf[j], m))
  BY <1>1, <1>2, ReapedRowFacts
<1>4. \A j \in Job : j \notin E => jobs'[j] = jobs[j]
  BY <1>1
<1>5. jobs' \in [Job -> JobRow]
  BY <1>1, <1>2, <1>3, <1>4
<1>6. \A b \in AttemptId :
        /\ ~Dropped(b) => attempts'[b] = attempts[b]
        /\ Dropped(b) => /\ attempts[b] \in AttemptRow
                         /\ attempts'[b] \in AttemptRow /\ attempts'[b] # Nil
                         /\ attempts'[b].job_id = attempts[b].job_id
                         /\ attempts'[b].fence = attempts[b].fence
                         /\ attempts'[b].disposition = "abandoned"
                         /\ attempts'[b].evaluation_validity = "invalid"
                         /\ attempts'[b].outcome = Nil
  <2>1. \A b \in AttemptId : Dropped(b) => attempts[b] \in AttemptRow
    BY DEF IInv, TypeOK
  <2>2. \A b \in AttemptId :
          attempts'[b] = IF Dropped(b) THEN AbandonedRow(attempts[b]) ELSE attempts[b]
    BY <1>1
  <2> HIDE DEF Dropped
  <2> QED BY <2>1, <2>2, AbandonedRowFacts, NilIsNoRow
<1>7. \A b \in AttemptId : Dropped(b) =>
        /\ attempts[b] # Nil
        /\ attempts[b].disposition = "active"
        /\ \E j \in E : jobs[j].attempt_id = b
  OBVIOUS
<1>8. \A b \in Claimed, j \in E : jobs[j].attempt_id = b /\ attempts[b].disposition = "active"
                                     => Dropped(b)
  BY DEF Claimed
<1> HIDE DEF Dropped
<1>9. attempts' \in [AttemptId -> AttemptRow \cup {Nil}]
  <2>1. \A b \in AttemptId : attempts'[b] \in AttemptRow \cup {Nil}
    BY <1>6 DEF IInv, TypeOK
  <2>2. attempts' = [b \in AttemptId |-> attempts'[b]]
    BY <1>1
  <2> QED BY <2>1, <2>2
<1>10. /\ Claimed' = Claimed
       /\ \A b \in Claimed : /\ b \in AttemptId
                             /\ attempts[b].job_id \in Job
                             /\ attempts'[b].job_id = attempts[b].job_id
                             /\ attempts'[b].fence = attempts[b].fence
  BY <1>6, <1>7, ClaimedFacts DEF IInv, Claimed
<1>11. \A k \in Job : AttemptsOf(k)' = AttemptsOf(k)
  BY <1>10 DEF AttemptsOf
<1>12. RunVerdict' /\ runs' \in [Run -> RunRow]
  <2>1. \A k \in Job : jobs[k].state \in Terminal => jobs'[k].state = jobs[k].state
    BY <1>1, <1>4 DEF Terminal, Active
  <2>2. \A k \in Job : jobs'[k].state \in Terminal =>
                          jobs[k].state \in Terminal \/ RunOf[k] \in {RunOf[j] : j \in E}
    BY <1>4
  <2>3. runs \in [Run -> RunRow] /\ TypeOK /\ RunVerdict
    BY DEF IInv, TypeOK
  <2> QED BY <1>1, <2>1, <2>2, <2>3, RunStep
<1>13. LeaseInv'
  <2>1. ASSUME NEW k \in Job, jobs'[k].state \in Active
        PROVE  /\ jobs'[k].attempt_id \in AttemptsOf(k)
               /\ jobs'[k].lease_token = jobs'[k].attempt_id
               /\ jobs'[k].lease_left # Nil
               /\ attempts'[jobs'[k].attempt_id].fence = jobs'[k].fence
               /\ attempts'[jobs'[k].attempt_id].disposition \in {"active", "stale"}
               /\ jobs'[k].selected_attempt_id = Nil
    <3>1. k \notin E /\ jobs'[k] = jobs[k] /\ jobs[k].state \in Active
      BY <2>1, <1>3, <1>4 DEF Active
    <3>2. /\ jobs[k].attempt_id \in AttemptsOf(k)
          /\ jobs[k].lease_token = jobs[k].attempt_id
          /\ jobs[k].lease_left # Nil
          /\ attempts[jobs[k].attempt_id].fence = jobs[k].fence
          /\ attempts[jobs[k].attempt_id].disposition \in {"active", "stale"}
          /\ jobs[k].selected_attempt_id = Nil
      BY <3>1 DEF IInv, LeaseInv
    <3>3. ~Dropped(jobs[k].attempt_id)
      <4>1. SUFFICES ASSUME NEW j \in E, jobs[j].attempt_id = jobs[k].attempt_id
                     PROVE  FALSE
        BY <1>7, <3>2 DEF AttemptsOf, Claimed
      <4>2. jobs[k].attempt_id \in AttemptsOf(j)
        BY <4>1, <1>1 DEF IInv, LeaseInv
      <4>3. j = k
        BY <4>2, <3>2 DEF AttemptsOf
      <4> QED BY <4>3, <3>1
    <3> QED BY <3>1, <3>2, <3>3, <1>6 DEF AttemptsOf, Claimed
  <2>2. \A k \in Job : jobs'[k].state = "PENDING" =>
            jobs'[k].attempt_id = Nil /\ jobs'[k].selected_attempt_id = Nil
    BY <1>1, <1>3, <1>4 DEF IInv, LeaseInv
  <2>3. \A k \in Job : jobs'[k].state \notin Active =>
            jobs'[k].lease_token = Nil /\ jobs'[k].lease_left = Nil
    BY <1>3, <1>4 DEF IInv, LeaseInv
  <2> QED BY <2>1, <2>2, <2>3, <1>11 DEF LeaseInv
<1>14. FenceInv'
  <2>1. \A k \in Job : /\ jobs'[k].fence = jobs[k].fence
                       /\ jobs'[k].attempts_started = jobs[k].attempts_started
    BY <1>3, <1>4
  <2> QED BY <2>1, <1>10, <1>11 DEF IInv, FenceInv, AttemptsOf
<1>15. /\ \A k \in Job : jobs'[k].selected_attempt_id # Nil =>
             /\ jobs'[k] = jobs[k]
             /\ jobs[k].selected_attempt_id \in Claimed
             /\ attempts'[jobs[k].selected_attempt_id] = attempts[jobs[k].selected_attempt_id]
       /\ \A b \in Claimed : attempts'[b].disposition = "authoritative" =>
             /\ attempts[b].disposition = "authoritative"
             /\ jobs'[attempts[b].job_id] = jobs[attempts[b].job_id]
  <2>1. ASSUME NEW k \in Job, jobs'[k].selected_attempt_id # Nil
        PROVE  /\ jobs'[k] = jobs[k]
               /\ jobs[k].selected_attempt_id \in Claimed
               /\ attempts'[jobs[k].selected_attempt_id] = attempts[jobs[k].selected_attempt_id]
    <3>1. k \notin E
      BY <2>1, <1>1, <1>3 DEF IInv, LeaseInv
    <3>2. /\ jobs[k].selected_attempt_id \in Claimed
          /\ attempts[jobs[k].selected_attempt_id].disposition = "authoritative"
      BY <2>1, <3>1, <1>4 DEF IInv, VerdictIntegrity, AttemptsOf
    <3> QED BY <3>1, <3>2, <1>4, <1>6, <1>7, <1>10
  <2>2. ASSUME NEW b \in Claimed, attempts'[b].disposition = "authoritative"
        PROVE  /\ attempts[b].disposition = "authoritative"
               /\ jobs'[attempts[b].job_id] = jobs[attempts[b].job_id]
    <3>1. attempts'[b] = attempts[b]
      BY <2>2, <1>6, <1>10
    <3>2. jobs[attempts[b].job_id].selected_attempt_id = b
      BY <2>2, <3>1 DEF IInv, VerdictIntegrity
    <3>3. attempts[b].job_id \notin E
      BY <3>2, <1>1, <1>10, NilAssumption DEF IInv, LeaseInv
    <3> QED BY <2>2, <3>1, <3>3, <1>4, <1>10
  <2> QED BY <2>1, <2>2
<1>16. VerdictIntegrity' /\ SelectedFence'
  <2>1. \A k \in Job : jobs'[k].state = "DONE" => jobs'[k].selected_attempt_id # Nil
    BY <1>3, <1>4 DEF IInv, VerdictIntegrity
  <2> QED BY <2>1, <1>10, <1>11, <1>15 DEF IInv, VerdictIntegrity, SelectedFence, AttemptsOf
<1>17. ActiveAttemptIsCurrent'
  <2>1. ASSUME NEW b \in Claimed, attempts'[b].disposition = "active"
        PROVE  /\ jobs'[attempts'[b].job_id].state \in Active
               /\ jobs'[attempts'[b].job_id].attempt_id = b
    <3>1. ~Dropped(b) /\ attempts'[b] = attempts[b]
      BY <2>1, <1>6, <1>10
    <3>2. /\ jobs[attempts[b].job_id].state \in Active
          /\ jobs[attempts[b].job_id].attempt_id = b
      BY <2>1, <3>1 DEF IInv, ActiveAttemptIsCurrent
    <3>3. attempts[b].job_id \notin E
      BY <2>1, <3>1, <3>2, <1>8
    <3> QED BY <3>1, <3>2, <3>3, <1>4, <1>10
  <2> QED BY <2>1, <1>10 DEF ActiveAttemptIsCurrent
<1>18. AttemptRowCheck'
  BY <1>6, <1>10 DEF IInv, AttemptRowCheck
<1>19. BudgetInv'
  <2>1. ASSUME NEW k \in E, jobs'[k].state = "PENDING"
        PROVE  WithinBudget(k, jobs[k].attempts_started + 1)
    <3>1. jobs[k].attempts_started \in Nat
      BY <1>1, <1>2 DEF JobRow
    <3>2. MaxAttempts[RunOf[k]] \in Nat /\ m \in Nat \cup {Nil}
      BY <1>1, RunAssumption, BudgetAssumption
    <3>3. jobs[k].attempts_started < EffectiveMaxAttempts(RunOf[k], m)
      BY <1>3, <2>1
    <3>4. CASE m = Nil
      BY <3>1, <3>2, <3>3, <3>4 DEF EffectiveMaxAttempts, WithinBudget
    <3>5. CASE m # Nil
      <4>1. jobs[k].attempts_started + 1 <= m
        BY <3>1, <3>2, <3>3, <3>5 DEF EffectiveMaxAttempts
      <4> QED BY <4>1, <3>5 DEF WithinBudget
    <3> QED BY <3>4, <3>5
  <2>2. ASSUME NEW k \in E, jobs'[k].terminal_reason = "LEASE_EXPIRED"
        PROVE  UsedUp(k, jobs[k].attempts_started)
    <3>1. jobs[k].attempts_started \in Nat /\ EffectiveMaxAttempts(RunOf[k], m) \in Nat
      BY <1>1, <1>2, RunAssumption, BudgetAssumption DEF JobRow, EffectiveMaxAttempts
    <3>2. ~(jobs[k].attempts_started < EffectiveMaxAttempts(RunOf[k], m))
      BY <1>3, <2>2
    <3>3. EffectiveMaxAttempts(RunOf[k], m) <= jobs[k].attempts_started
      BY <3>1, <3>2
    <3> QED BY <3>3 DEF UsedUp
  <2>3. \A k \in Job : jobs'[k].attempts_started = jobs[k].attempts_started
    BY <1>3, <1>4
  <2>4. ASSUME NEW k \in Job, jobs'[k].terminal_reason = "LEASE_EXPIRED"
        PROVE  UsedUp(k, jobs'[k].attempts_started)
    BY <1>4, <2>2, <2>3, <2>4 DEF IInv, BudgetInv
  <2>5. \A k \in Job :
          /\ WithinBudget(k, jobs'[k].attempts_started)
          /\ jobs'[k].state = "PENDING" => WithinBudget(k, jobs'[k].attempts_started + 1)
    BY <1>4, <2>1, <2>3 DEF IInv, BudgetInv
  <2> QED BY <2>4, <2>5 DEF BudgetInv, WithinBudget, UsedUp
<1> QED BY <1>5, <1>9, <1>12, <1>13, <1>14, <1>16, <1>17, <1>18, <1>19 DEF IInv, TypeOK

\* claim() keeps the invariant: the new attempt has the next fence of its job.
LEMMA ClaimJobIInv ==
    ASSUME IInv, NEW r \in Run \cup {Nil}, NEW a \in AttemptId, NEW d \in Delay,
           ClaimJob(r, a, d)
    PROVE  IInv'
<1> DEFINE swept == FailPending(SweptRuns(r))
<1>1. PICK j \in Claimable(r) :
        /\ attempts[a] = Nil
        /\ jobs' = [swept EXCEPT ![j] = ClaimedRow(jobs[j], a, d)]
        /\ attempts' = [attempts EXCEPT ![a] = NewAttempt(j, jobs[j].fence + 1)]
        /\ runs' = UpdateRuns(jobs', runs, SweptRuns(r) \cup {RunOf[j]})
  BY DEF ClaimJob
<1> DEFINE n == jobs[j].fence + 1
           new == NewAttempt(j, n)
           t == ClaimedRow(jobs[j], a, d)
<1>2. j \in Job /\ jobs[j].state = "PENDING"
  BY DEF Claimable, Pending
<1>3. /\ swept \in [Job -> JobRow]
      /\ \A k \in Job : \/ swept[k] = jobs[k]
                        \/ /\ RunOf[k] \in SweptRuns(r) /\ jobs[k].state = "PENDING"
                           /\ swept[k] = CancelledRow(jobs[k])
  BY FailPendingFacts DEF IInv
<1>4. \A k \in Job : /\ jobs[k] \in JobRow
                     /\ jobs[k].fence \in Nat
                     /\ jobs[k].attempts_started \in Nat
  BY DEF IInv, TypeOK, JobRow
<1>5. n \in Nat /\ n > 0 /\ n = jobs[j].fence + 1
  BY <1>2, <1>4
<1>6. /\ t \in JobRow /\ t.state = "CLAIMED" /\ t.fence = n
      /\ t.attempt_id = a /\ t.lease_token = a
      /\ t.lease_left # Nil
      /\ t.attempts_started = jobs[j].attempts_started + 1
      /\ t.selected_attempt_id = jobs[j].selected_attempt_id
      /\ t.terminal_reason = jobs[j].terminal_reason
  BY <1>2, <1>4, ClaimedRowFacts, LeaseRange
<1>7. /\ new \in AttemptRow /\ new # Nil /\ new.job_id = j /\ new.fence = n
      /\ new.disposition = "active" /\ new.evaluation_validity = "pending"
      /\ new.outcome = Nil
  BY <1>2, <1>5, NewAttemptFacts, NilIsNoRow
<1>8. /\ jobs' = [swept EXCEPT ![j] = t]
      /\ attempts' = [attempts EXCEPT ![a] = new]
  BY <1>1
<1> HIDE DEF swept, n, new, t
<1>9. /\ jobs' \in [Job -> JobRow]
      /\ jobs'[j] = t
      /\ \A k \in Job : k # j => jobs'[k] = swept[k]
  BY <1>2, <1>3, <1>6, <1>8
<1>10. \A k \in Job : k # j =>
        /\ \/ jobs'[k].state = jobs[k].state
           \/ /\ jobs[k].state = "PENDING" /\ jobs'[k].state = "FAILED"
              /\ RunOf[k] \in SweptRuns(r)
        /\ jobs'[k].fence = jobs[k].fence
        /\ jobs'[k].attempt_id = jobs[k].attempt_id
        /\ jobs'[k].lease_token = jobs[k].lease_token
        /\ jobs'[k].lease_left = jobs[k].lease_left
        /\ jobs'[k].attempts_started = jobs[k].attempts_started
        /\ jobs'[k].selected_attempt_id = jobs[k].selected_attempt_id
        /\ jobs'[k].terminal_reason \in {jobs[k].terminal_reason, "CANCELLED"}
  BY <1>3, <1>4, <1>9, CancelledRowFacts
<1>11. /\ attempts' \in [AttemptId -> AttemptRow \cup {Nil}]
       /\ attempts'[a] = new
       /\ \A b \in AttemptId : b # a => attempts'[b] = attempts[b]
  BY <1>7, <1>8 DEF IInv, TypeOK
<1>12. /\ Claimed' = Claimed \cup {a} /\ a \notin Claimed
       /\ \A b \in Claimed : /\ b \in AttemptId /\ b # a
                             /\ attempts[b].job_id \in Job
                             /\ attempts'[b] = attempts[b]
  BY <1>1, <1>7, <1>11, ClaimedFacts DEF IInv, Claimed
<1>13. /\ AttemptsOf(j)' = AttemptsOf(j) \cup {a}
       /\ \A k \in Job : k # j => AttemptsOf(k)' = AttemptsOf(k)
       /\ \A k \in Job : AttemptsOf(k) \subseteq Claimed
  BY <1>7, <1>11, <1>12 DEF AttemptsOf
<1>14. RunVerdict' /\ runs' \in [Run -> RunRow]
  <2>1. \A k \in Job : jobs[k].state \in Terminal => jobs'[k].state = jobs[k].state
    BY <1>2, <1>10 DEF Terminal
  <2>2. \A k \in Job : jobs'[k].state \in Terminal =>
            jobs[k].state \in Terminal \/ RunOf[k] \in SweptRuns(r) \cup {RunOf[j]}
    BY <1>10
  <2>3. runs \in [Run -> RunRow] /\ TypeOK /\ RunVerdict
    BY DEF IInv, TypeOK
  <2> QED BY <1>1, <2>1, <2>2, <2>3, RunStep
<1>15. jobs[j].selected_attempt_id = Nil
  BY <1>2 DEF IInv, LeaseInv
<1>16. LeaseInv'
  <2>1. ASSUME NEW k \in Job, jobs'[k].state \in Active
        PROVE  /\ jobs'[k].attempt_id \in AttemptsOf(k)'
               /\ jobs'[k].lease_token = jobs'[k].attempt_id
               /\ jobs'[k].lease_left # Nil
               /\ attempts'[jobs'[k].attempt_id].fence = jobs'[k].fence
               /\ attempts'[jobs'[k].attempt_id].disposition \in {"active", "stale"}
               /\ jobs'[k].selected_attempt_id = Nil
    <3>1. CASE k = j
      BY <3>1, <1>6, <1>7, <1>9, <1>11, <1>13, <1>15
    <3>2. CASE k # j
      BY <2>1, <3>2, <1>10, <1>12, <1>13 DEF IInv, LeaseInv, Active
    <3> QED BY <3>1, <3>2
  <2>2. \A k \in Job : jobs'[k].state = "PENDING" =>
            jobs'[k].attempt_id = Nil /\ jobs'[k].selected_attempt_id = Nil
    BY <1>6, <1>9, <1>10 DEF IInv, LeaseInv
  <2>3. \A k \in Job : jobs'[k].state \notin Active =>
            jobs'[k].lease_token = Nil /\ jobs'[k].lease_left = Nil
    BY <1>6, <1>9, <1>10 DEF IInv, LeaseInv, Active
  <2> QED BY <2>1, <2>2, <2>3 DEF LeaseInv
<1>17. FenceInv'
  <2>1. ASSUME NEW k \in Job, k # j
        PROVE  /\ jobs'[k].attempts_started = jobs'[k].fence
               /\ \A b \in AttemptsOf(k)' : attempts'[b].fence \in 1 .. jobs'[k].fence
               /\ \A b, c \in AttemptsOf(k)' : attempts'[b].fence = attempts'[c].fence => b = c
               /\ \A i \in 1 .. jobs'[k].fence : \E b \in AttemptsOf(k)' : attempts'[b].fence = i
    BY <2>1, <1>10, <1>12, <1>13 DEF IInv, FenceInv
  <2>2. /\ jobs[j].attempts_started = jobs[j].fence
        /\ \A b \in AttemptsOf(j) : attempts[b].fence \in 1 .. jobs[j].fence
        /\ \A b, c \in AttemptsOf(j) : attempts[b].fence = attempts[c].fence => b = c
        /\ \A i \in 1 .. jobs[j].fence : \E b \in AttemptsOf(j) : attempts[b].fence = i
    BY <1>2 DEF IInv, FenceInv
  <2>3. \A b \in AttemptsOf(j) : attempts'[b] = attempts[b]
    BY <1>12, <1>13, <1>2
  <2>4. /\ jobs'[j].attempts_started = n /\ jobs'[j].fence = n
        /\ attempts'[a].fence = n
    BY <2>2, <1>5, <1>6, <1>7, <1>9, <1>11
  <2>5. \A b \in AttemptsOf(j) : attempts'[b].fence \in 1 .. n /\ attempts'[b].fence # n
    BY <2>2, <2>3, <1>2, <1>4, <1>5
  <2>6. \A b \in AttemptsOf(j)' : attempts'[b].fence \in 1 .. n
    BY <2>4, <2>5, <1>5, <1>13
  <2>7. \A b, c \in AttemptsOf(j)' : attempts'[b].fence = attempts'[c].fence => b = c
    BY <2>2, <2>3, <2>4, <2>5, <1>13
  <2>8. \A i \in 1 .. n : \E b \in AttemptsOf(j)' : attempts'[b].fence = i
    <3>1. SUFFICES ASSUME NEW i \in 1 .. n
                   PROVE  \E b \in AttemptsOf(j)' : attempts'[b].fence = i
      OBVIOUS
    <3>2. CASE i = n
      BY <3>2, <2>4, <1>13
    <3>3. CASE i # n
      <4>1. i \in 1 .. jobs[j].fence
        BY <3>3, <1>2, <1>4, <1>5
      <4> QED BY <4>1, <2>2, <2>3, <1>13
    <3> QED BY <3>2, <3>3
  <2> QED BY <2>1, <2>4, <2>6, <2>7, <2>8 DEF FenceInv
<1>18. VerdictIntegrity'
  <2>1. ASSUME NEW b \in Claimed', attempts'[b].disposition = "authoritative"
        PROVE  jobs'[attempts'[b].job_id].selected_attempt_id = b
    <3>1. b \in Claimed
      BY <2>1, <1>7, <1>11, <1>12
    <3>2. jobs[attempts[b].job_id].selected_attempt_id = b
      BY <2>1, <3>1, <1>12 DEF IInv, VerdictIntegrity
    <3> QED BY <3>1, <3>2, <1>6, <1>9, <1>10, <1>12
  <2>2. ASSUME NEW k \in Job, jobs'[k].selected_attempt_id # Nil
        PROVE  /\ jobs'[k].state \in Terminal
               /\ jobs'[k].selected_attempt_id \in AttemptsOf(k)'
               /\ attempts'[jobs'[k].selected_attempt_id].disposition = "authoritative"
    <3>1. k # j
      BY <2>2, <1>6, <1>9, <1>15
    <3> QED BY <2>2, <3>1, <1>10, <1>12, <1>13 DEF IInv, VerdictIntegrity, Terminal
  <2>3. \A k \in Job : jobs'[k].state = "DONE" => jobs'[k].selected_attempt_id # Nil
    BY <1>6, <1>9, <1>10 DEF IInv, VerdictIntegrity
  <2> QED BY <2>1, <2>2, <2>3 DEF VerdictIntegrity
<1>19. SelectedFence'
  <2>1. ASSUME NEW k \in Job, jobs'[k].selected_attempt_id # Nil
        PROVE  attempts'[jobs'[k].selected_attempt_id].fence = jobs'[k].fence
    <3>1. k # j
      BY <2>1, <1>6, <1>9, <1>15
    <3>2. jobs[k].selected_attempt_id \in Claimed
      BY <2>1, <3>1, <1>10, <1>13 DEF IInv, VerdictIntegrity
    <3> QED BY <2>1, <3>1, <3>2, <1>10, <1>12 DEF IInv, SelectedFence
  <2> QED BY <2>1 DEF SelectedFence
<1>20. ActiveAttemptIsCurrent'
  <2>1. ASSUME NEW b \in Claimed', attempts'[b].disposition = "active"
        PROVE  /\ jobs'[attempts'[b].job_id].state \in Active
               /\ jobs'[attempts'[b].job_id].attempt_id = b
    <3>1. CASE b = a
      BY <3>1, <1>6, <1>7, <1>9, <1>11 DEF Active
    <3>2. CASE b # a
      <4>1. b \in Claimed
        BY <3>2, <1>12
      <4>2. /\ jobs[attempts[b].job_id].state \in Active
            /\ jobs[attempts[b].job_id].attempt_id = b
        BY <2>1, <4>1, <1>12 DEF IInv, ActiveAttemptIsCurrent
      <4>3. attempts[b].job_id # j
        BY <4>2, <1>2 DEF Active
      <4> QED BY <4>1, <4>2, <4>3, <1>10, <1>12 DEF Active
    <3> QED BY <3>1, <3>2
  <2> QED BY <2>1 DEF ActiveAttemptIsCurrent
<1>21. AttemptRowCheck'
  BY <1>7, <1>11, <1>12 DEF IInv, AttemptRowCheck
<1>22. BudgetInv'
  <2>1. WithinBudget(j, jobs[j].attempts_started + 1)
    BY <1>2 DEF IInv, BudgetInv
  <2>2. ASSUME NEW k \in Job
        PROVE  /\ WithinBudget(k, jobs'[k].attempts_started)
               /\ jobs'[k].state = "PENDING" => WithinBudget(k, jobs'[k].attempts_started + 1)
    BY <2>1, <1>6, <1>9, <1>10 DEF IInv, BudgetInv
  <2>3. ASSUME NEW k \in Job, jobs'[k].terminal_reason = "LEASE_EXPIRED"
        PROVE  UsedUp(k, jobs'[k].attempts_started)
    <3>1. UsedUp(k, jobs[k].attempts_started)
      BY <2>3, <1>6, <1>9, <1>10 DEF IInv, BudgetInv
    <3>2. CASE k # j
      BY <3>1, <3>2, <1>10
    <3>3. CASE k = j
      <4>1. PICK m \in ReapArgs : EffectiveMaxAttempts(RunOf[j], m) <= jobs[j].attempts_started
        BY <3>1, <3>3 DEF UsedUp
      <4>2. EffectiveMaxAttempts(RunOf[j], m) \in Nat /\ jobs[j].attempts_started \in Nat
        BY <1>2, <1>4, RunAssumption, BudgetAssumption DEF EffectiveMaxAttempts
      <4>3. EffectiveMaxAttempts(RunOf[j], m) <= jobs[j].attempts_started + 1
        BY <4>1, <4>2
      <4> QED BY <3>3, <4>3, <1>6, <1>9 DEF UsedUp
    <3> QED BY <3>2, <3>3
  <2> QED BY <2>2, <2>3 DEF BudgetInv, WithinBudget, UsedUp
<1> QED BY <1>9, <1>11, <1>14, <1>16, <1>17, <1>18, <1>19, <1>20, <1>21, <1>22
        DEF IInv, TypeOK

-----------------------------------------------------------------------------
(* The theorems. *)

\* Every step of the queue keeps the inductive invariant.
LEMMA NextIInv == IInv /\ [Next]_vars => IInv'
<1> SUFFICES ASSUME IInv, [Next]_vars PROVE IInv'
  OBVIOUS
<1>1. ASSUME NEW d \in Delay, Claim(d) PROVE IInv'
  BY <1>1, ClaimJobIInv DEF Claim
<1>2. ASSUME NEW r \in Run \cup {Nil}, ClaimNone(r) PROVE IInv'
  <2>1. runs \in [Run -> RunRow]
    BY DEF IInv, TypeOK
  <2> QED BY <1>2, <2>1, FailPendingIInv DEF ClaimNone
<1>3. ASSUME NEW h \in Claimed, NEW d \in Delay, MarkRunning(h, d) PROVE IInv'
  BY <1>3, MarkRunningRenews, RenewedIInv
<1>4. ASSUME NEW h \in Claimed, NEW d \in Delay, Heartbeat(h, d) PROVE IInv'
  BY <1>4, HeartbeatRenews, RenewedIInv
<1>5. ASSUME NEW h \in Claimed, NEW d \in Delay, NEW o \in Outcome,
             NEW a \in Submittable(h), Complete(h, a, o, d)
      PROVE  IInv'
  <2>1. a \in Claimed
    BY <1>5 DEF Submittable
  <2> QED BY <1>5, <2>1, CompleteStaleIInv, CompleteCommitIInv DEF Complete
<1>6. ASSUME NEW m \in ReapArgs, NEW d \in Delay, ReapExpired(m, d) PROVE IInv'
  BY <1>6, ReapExpiredIInv
<1>7. ASSUME NEW r \in Run, RequestCancel(r) PROVE IInv'
  <2> DEFINE flagged == [runs EXCEPT ![r] = [@ EXCEPT !.cancel_requested = TRUE]]
  <2>1. /\ flagged \in [Run -> RunRow]
        /\ \A q \in Run : /\ flagged[q].state = runs[q].state
                          /\ runs[q].cancel_requested => flagged[q].cancel_requested
    BY DEF IInv, TypeOK, RunRow
  <2>2. /\ jobs' = FailPending({r})
        /\ runs' = UpdateRuns(jobs', flagged, {r})
        /\ UNCHANGED attempts
    BY <1>7 DEF RequestCancel
  <2> HIDE DEF flagged
  <2> QED BY <2>1, <2>2, FailPendingIInv
<1>8. CASE Tick
  BY <1>8, TickRenews, RenewedIInv
<1>9. CASE UNCHANGED vars
  BY <1>9 DEF IInv, TypeOK, LeaseInv, FenceInv, VerdictIntegrity, SelectedFence,
              ActiveAttemptIsCurrent, AttemptRowCheck, BudgetInv, RunVerdict,
              AttemptsOf, Claimed, WithinBudget, UsedUp, vars
<1> QED BY <1>1, <1>2, <1>3, <1>4, <1>5, <1>6, <1>7, <1>8, <1>9 DEF Next

\* The inductive invariant holds of every behaviour of the queue.
THEOREM Invariance == Spec => []IInv
BY InitIInv, NextIInv, PTL DEF Spec

\* Every row keeps the types of its columns, and no lease outlasts its duration.
THEOREM TypeCorrect == Spec => []TypeOK
<1>1. IInv => TypeOK
  BY DEF IInv
<1> QED BY <1>1, Invariance, PTL

\* complete() never leaves a verdict without its attempt or an attempt without
\* its verdict, whatever else runs in between.
THEOREM VerdictsAreSound == Spec => []VerdictIntegrity
<1>1. IInv => VerdictIntegrity
  BY DEF IInv
<1> QED BY <1>1, Invariance, PTL

\* Fencing works: the verdict of a job comes from its last claim.
THEOREM FencingIsSound == Spec => []VerdictFromLastClaim
<1>1. IInv => VerdictFromLastClaim
  <2> SUFFICES ASSUME IInv, NEW a \in Claimed, attempts[a].disposition = "authoritative",
                      NEW b \in AttemptsOf(attempts[a].job_id)
               PROVE  attempts[b].fence <= attempts[a].fence
    BY DEF VerdictFromLastClaim
  <2> DEFINE j == attempts[a].job_id
  <2>1. j \in Job /\ jobs[j].fence \in Nat /\ a # Nil
    BY ClaimedFacts, NilAssumption DEF IInv, JobRow
  <2>2. jobs[j].selected_attempt_id = a
    BY DEF IInv, VerdictIntegrity
  <2>3. attempts[a].fence = jobs[j].fence
    BY <2>1, <2>2 DEF IInv, SelectedFence
  <2>4. attempts[b].fence \in 1 .. jobs[j].fence
    BY <2>1 DEF IInv, FenceInv
  <2> QED BY <2>1, <2>3, <2>4
<1> QED BY <1>1, Invariance, PTL

\* At most one attempt of a job is live, and it is the one the job names.
THEOREM OneLiveAttempt == Spec => []ActiveAttemptIsCurrent
<1>1. IInv => ActiveAttemptIsCurrent
  BY DEF IInv
<1> QED BY <1>1, Invariance, PTL

\* No interleaving runs into the CHECK of table evaluation_attempts.
THEOREM RowCheckHolds == Spec => []AttemptRowCheck
<1>1. IInv => AttemptRowCheck
  BY DEF IInv
<1> QED BY <1>1, Invariance, PTL

\* The attempts of a job carry the fences 1, 2, ... up to the job's, each once.
THEOREM FencesAreDense == Spec => []FenceHistory
<1>1. IInv => FenceHistory
  <2> SUFFICES ASSUME IInv, NEW j \in Job
               PROVE  /\ {attempts[a].fence : a \in AttemptsOf(j)} = 1 .. jobs[j].fence
                      /\ \A a, b \in AttemptsOf(j) :
                            attempts[a].fence = attempts[b].fence => a = b
                      /\ jobs[j].attempts_started = jobs[j].fence
    BY DEF FenceHistory
  <2> QED BY DEF IInv, FenceInv
<1> QED BY <1>1, Invariance, PTL

\* No job is started more often than its manifest or an override allows.
THEOREM BudgetIsKept == Spec => []RetryBudget
<1>1. IInv => RetryBudget
  BY DEF IInv, BudgetInv, RetryBudget
<1> QED BY <1>1, Invariance, PTL

\* A run is final exactly when its jobs are, with the verdict they imply.
THEOREM RunsAgree == Spec => []RunVerdict
<1>1. IInv => RunVerdict
  BY DEF IInv
<1> QED BY <1>1, Invariance, PTL

-----------------------------------------------------------------------------
(* The action properties, and that the queue implements the register of      *)
(* module FencedRegister.  Every step moves each job in one of a few ways;   *)
(* the properties follow from that alone.                                    *)

\* The ways a step may move job j.
Kept(j) ==
    /\ Phase(jobs'[j].state) = Phase(jobs[j].state)
    /\ jobs'[j].fence = jobs[j].fence
    /\ jobs'[j].attempt_id = jobs[j].attempt_id
    /\ jobs'[j].selected_attempt_id = jobs[j].selected_attempt_id
    /\ jobs[j].state \notin Active => jobs'[j] = jobs[j]

Taken(j) ==
    /\ ~runs[RunOf[j]].cancel_requested
    /\ jobs[j].state = "PENDING" /\ jobs'[j].state = "CLAIMED"
    /\ jobs'[j].fence = jobs[j].fence + 1
    /\ jobs'[j].selected_attempt_id = jobs[j].selected_attempt_id

Dropped(j) ==
    /\ jobs[j].state = "PENDING" /\ jobs'[j].state = "FAILED"
    /\ jobs'[j].fence = jobs[j].fence
    /\ jobs'[j].selected_attempt_id = jobs[j].selected_attempt_id

Reaped(j) ==
    /\ jobs[j].state \in Active /\ jobs'[j].state \in {"PENDING", "FAILED"}
    /\ jobs'[j].state = "PENDING" => ~runs[RunOf[j]].cancel_requested
    /\ ~(jobs[j].lease_left > 0)
    /\ jobs'[j].fence = jobs[j].fence
    /\ jobs'[j].selected_attempt_id = jobs[j].selected_attempt_id

Won(j) ==
    /\ jobs[j].state \in Active /\ jobs'[j].state \in Terminal
    /\ jobs'[j].fence = jobs[j].fence
    /\ jobs'[j].attempt_id = jobs[j].attempt_id
    /\ jobs'[j].selected_attempt_id = jobs[j].attempt_id
    /\ jobs'[j].state = IF attempts'[jobs[j].attempt_id].outcome = "error"
                        THEN "FAILED" ELSE "DONE"

\* A row that a step inserts or changes: an active one has no outcome.
Rewritten(row) == row.disposition = "active" => row.outcome = Nil

\* What every step does.
StepShape ==
    /\ \A j \in Job : Kept(j) \/ Taken(j) \/ Dropped(j) \/ Reaped(j) \/ Won(j)
    /\ \A i, j \in Job : Taken(i) /\ Taken(j) => i = j
    /\ \A i, j \in Job : Won(i) /\ Won(j) => i = j
    /\ \A a \in Claimed : /\ attempts'[a].fence = attempts[a].fence
                          /\ attempts[a].disposition = "authoritative" =>
                                attempts'[a] = attempts[a]
    /\ \A a \in AttemptId : attempts'[a] = attempts[a] \/ Rewritten(attempts'[a])
    /\ \A r \in Run : runs[r].state \in FinalRun => runs'[r].state = runs[r].state

\* _update_run_state leaves a final run alone.
LEMMA FinalRunsStay ==
    ASSUME NEW js, NEW R, NEW rs \in [Run -> RunRow],
           \A r \in Run : rs[r].state = runs[r].state,
           runs' = UpdateRuns(js, rs, R)
    PROVE  \A r \in Run : runs[r].state \in FinalRun => runs'[r].state = runs[r].state
BY UpdateRunsFacts DEF RunStateAfter

\* A renewal moves no job.
LEMMA RenewedShape == IInv /\ Renewed => StepShape
<1> SUFFICES ASSUME IInv, Renewed PROVE StepShape
  OBVIOUS
<1>1. \A j \in Job : Kept(j)
  BY DEF Renewed, Kept, Phase, Active
<1>2. \A j \in Job : ~Taken(j) /\ ~Won(j)
  BY DEF Renewed, Taken, Won, Active, Terminal
<1>3. UNCHANGED <<attempts, runs>>
  BY DEF Renewed
<1> QED BY <1>1, <1>2, <1>3 DEF StepShape

\* A cancellation drops jobs from the queue.
LEMMA FailPendingShape ==
    ASSUME IInv, NEW R, NEW rs \in [Run -> RunRow],
           \A r \in Run : rs[r].state = runs[r].state,
           jobs' = FailPending(R), runs' = UpdateRuns(jobs', rs, R), UNCHANGED attempts
    PROVE  StepShape
<1>1. \A j \in Job : \/ jobs'[j] = jobs[j]
                     \/ jobs[j].state = "PENDING" /\ jobs'[j] = CancelledRow(jobs[j])
  BY FailPendingFacts DEF IInv
<1>2. \A j \in Job : \/ jobs'[j] = jobs[j]
                     \/ Dropped(j)
  BY <1>1, CancelledRowFacts DEF IInv, TypeOK, Dropped
<1>3. \A j \in Job : Kept(j) \/ Dropped(j)
  BY <1>2 DEF Kept
<1>4. \A j \in Job : ~Taken(j) /\ ~Won(j)
  BY <1>2 DEF Taken, Won, Dropped, Active, Terminal
<1>5. \A r \in Run : runs[r].state \in FinalRun => runs'[r].state = runs[r].state
  BY FinalRunsStay
<1> QED BY <1>3, <1>4, <1>5 DEF StepShape

\* claim() takes one job and may drop some.
LEMMA ClaimJobShape ==
    ASSUME IInv, NEW r \in Run \cup {Nil}, NEW a \in AttemptId, NEW d \in Delay,
           ClaimJob(r, a, d)
    PROVE  StepShape
<1> DEFINE swept == FailPending(SweptRuns(r))
<1>1. PICK j \in Claimable(r) :
        /\ attempts[a] = Nil
        /\ jobs' = [swept EXCEPT ![j] = ClaimedRow(jobs[j], a, d)]
        /\ attempts' = [attempts EXCEPT ![a] = NewAttempt(j, jobs[j].fence + 1)]
        /\ runs' = UpdateRuns(jobs', runs, SweptRuns(r) \cup {RunOf[j]})
  BY DEF ClaimJob
<1>2. /\ j \in Job /\ jobs[j].state = "PENDING" /\ jobs[j] \in JobRow
      /\ ~runs[RunOf[j]].cancel_requested
  BY DEF Claimable, Pending, IInv, TypeOK
<1>3. /\ swept \in [Job -> JobRow]
      /\ \A k \in Job : \/ swept[k] = jobs[k]
                        \/ jobs[k].state = "PENDING" /\ swept[k] = CancelledRow(jobs[k])
  BY FailPendingFacts DEF IInv
<1> HIDE DEF swept
<1>4. /\ jobs'[j] = ClaimedRow(jobs[j], a, d)
      /\ \A k \in Job : k # j => jobs'[k] = swept[k]
  BY <1>1, <1>2, <1>3
<1>5. Taken(j)
  BY <1>2, <1>4, ClaimedRowFacts DEF Taken
<1>6. \A k \in Job : k # j => jobs'[k] = jobs[k] \/ Dropped(k)
  BY <1>3, <1>4, CancelledRowFacts DEF IInv, TypeOK, Dropped
<1>7. \A k \in Job : k # j => Kept(k) \/ Dropped(k)
  BY <1>6 DEF Kept
<1>8. \A k \in Job : /\ k # j => ~Taken(k)
                     /\ ~Won(k)
  BY <1>5, <1>6 DEF Taken, Won, Dropped, Active, Terminal
<1>9. \A b \in Claimed : attempts'[b] = attempts[b]
  BY <1>1 DEF Claimed, IInv, TypeOK
<1>10. \A q \in Run : runs[q].state \in FinalRun => runs'[q].state = runs[q].state
  BY <1>1, FinalRunsStay DEF IInv, TypeOK
<1>11. \A b \in AttemptId : attempts'[b] = attempts[b] \/ Rewritten(attempts'[b])
  <2>1. Rewritten(NewAttempt(j, jobs[j].fence + 1))
    BY <1>2, NewAttemptFacts DEF JobRow, Rewritten
  <2> QED BY <1>1, <2>1 DEF IInv, TypeOK
<1> QED BY <1>5, <1>7, <1>8, <1>9, <1>10, <1>11 DEF StepShape

\* A stale completion moves no job and spares authoritative rows.
LEMMA CompleteStaleShape ==
    ASSUME IInv, NEW h \in Claimed, NEW a \in Claimed, NEW o \in Outcome, NEW d \in Delay,
           CompleteStale(h, a, o, d)
    PROVE  StepShape
<1>1. /\ UNCHANGED <<jobs, runs>>
      /\ \/ UNCHANGED attempts
         \/ /\ attempts[a].disposition \in {"active", "abandoned"}
            /\ attempts' = [attempts EXCEPT ![a] = QuarantinedRow(attempts[a], o)]
  BY DEF CompleteStale, MarkAttemptStale
<1>2. \A j \in Job : Kept(j) /\ ~Taken(j) /\ ~Won(j)
  BY <1>1 DEF Kept, Taken, Won, Active, Terminal
<1>3. \A b \in Claimed : /\ attempts'[b].fence = attempts[b].fence
                         /\ attempts[b].disposition = "authoritative" =>
                               attempts'[b] = attempts[b]
  <2>1. QuarantinedRow(attempts[a], o).fence = attempts[a].fence
    BY ClaimedFacts, AttemptRowFacts DEF IInv
  <2> QED BY <1>1, <2>1 DEF IInv, TypeOK, Claimed
<1>4. \A b \in AttemptId : attempts'[b] = attempts[b] \/ Rewritten(attempts'[b])
  <2>1. Rewritten(QuarantinedRow(attempts[a], o))
    BY ClaimedFacts, AttemptRowFacts DEF IInv, Rewritten
  <2> QED BY <1>1, <2>1 DEF IInv, TypeOK
<1> QED BY <1>1, <1>2, <1>3, <1>4 DEF StepShape

\* A commit gives one job its verdict.
LEMMA CompleteCommitShape ==
    ASSUME IInv, NEW h \in Claimed, NEW a \in Claimed, NEW o \in Outcome, NEW d \in Delay,
           CompleteCommit(h, a, o, d)
    PROVE  StepShape
<1> DEFINE j == attempts[h].job_id
           t == DecidedRow(jobs[j], a, o)
<1>1. /\ j \in Job /\ a \in AttemptId /\ jobs[j] \in JobRow /\ attempts[a] \in AttemptRow
      /\ jobs[j].state \notin Terminal /\ jobs[j].lease_left # Nil
      /\ jobs[j].attempt_id = a /\ attempts[a].job_id = j
      /\ attempts' = [attempts EXCEPT ![a] = CommittedRow(attempts[a], o)]
      /\ jobs' = [jobs EXCEPT ![j] = t]
      /\ runs' = UpdateRuns(jobs', runs, {RunOf[j]})
  BY ClaimedFacts DEF IInv, CompleteCommit, LeaseUnexpired
<1>2. /\ t.state \in Terminal /\ t.fence = jobs[j].fence
      /\ t.attempt_id = jobs[j].attempt_id /\ t.selected_attempt_id = a
  BY <1>1, DecidedRowFacts DEF Terminal
<1>2a. t.state = IF attempts'[a].outcome = "error" THEN "FAILED" ELSE "DONE"
  <2>1. t.state = IF o = "error" THEN "FAILED" ELSE "DONE"
    BY <1>1, DecidedRowFacts
  <2>2. attempts'[a].outcome = o
    BY <1>1, AttemptRowFacts DEF IInv, TypeOK
  <2> QED BY <2>1, <2>2
<1> HIDE DEF j, t
<1>3. /\ jobs[j].state \in Active
      /\ attempts[a].disposition \in {"active", "stale"}
  BY <1>1 DEF IInv, LeaseInv
<1>4. jobs'[j] = t /\ \A k \in Job : k # j => jobs'[k] = jobs[k]
  BY <1>1 DEF IInv, TypeOK
<1>5. Won(j)
  BY <1>1, <1>2, <1>2a, <1>3, <1>4 DEF Won
<1>6. \A k \in Job : k # j => Kept(k) /\ ~Won(k)
  BY <1>4 DEF Kept, Won, Active, Terminal
<1>7. \A k \in Job : ~Taken(k)
  BY <1>2, <1>4 DEF Taken, Terminal
<1>8. \A b \in Claimed : /\ attempts'[b].fence = attempts[b].fence
                         /\ attempts[b].disposition = "authoritative" =>
                               attempts'[b] = attempts[b]
  <2>1. CommittedRow(attempts[a], o).fence = attempts[a].fence
    BY <1>1, AttemptRowFacts
  <2> QED BY <1>1, <1>3, <2>1 DEF IInv, TypeOK, Claimed
<1>9. \A r \in Run : runs[r].state \in FinalRun => runs'[r].state = runs[r].state
  BY <1>1, FinalRunsStay DEF IInv, TypeOK
<1>10. \A b \in AttemptId : attempts'[b] = attempts[b] \/ Rewritten(attempts'[b])
  <2>1. Rewritten(CommittedRow(attempts[a], o))
    BY <1>1, AttemptRowFacts DEF Rewritten
  <2> QED BY <1>1, <2>1 DEF IInv, TypeOK
<1> QED BY <1>5, <1>6, <1>7, <1>8, <1>9, <1>10 DEF StepShape

\* The reaper touches expired leases only.
LEMMA ReapExpiredShape ==
    ASSUME IInv, NEW m \in ReapArgs, NEW d \in Delay, ReapExpired(m, d)
    PROVE  StepShape
<1> DEFINE E == Expired(d)
           Hit(b) == /\ \E j \in E : jobs[j].attempt_id = b
                     /\ attempts[b] # Nil
                     /\ attempts[b].disposition = "active"
<1>1. /\ jobs' = [j \in Job |-> IF j \in E THEN ReapedRow(j, m) ELSE jobs[j]]
      /\ attempts' = [b \in AttemptId |->
            IF Hit(b) THEN AbandonedRow(attempts[b]) ELSE attempts[b]]
      /\ runs' = UpdateRuns(jobs', runs, {RunOf[j] : j \in E})
  BY DEF ReapExpired
<1>2. \A j \in E : /\ j \in Job /\ jobs[j].state \in Active
                   /\ ~(jobs[j].lease_left > 0)
  <2>1. \A j \in E : /\ j \in Job /\ jobs[j].state \in Active
                     /\ jobs[j].lease_left # Nil /\ jobs[j].lease_left + d <= 0
    BY DEF Expired
  <2>2. \A j \in E : jobs[j].lease_left \in Int /\ d \in Nat
    BY <2>1, TimeAssumption DEF IInv, TypeOK, JobRow, LeaseLeft, Delay
  <2>3. \A x \in Int, y \in Nat : x + y <= 0 => ~(x > 0)
    OBVIOUS
  <2> QED BY <2>1, <2>2, <2>3
<1> HIDE DEF E
<1>3. \A j \in E : Reaped(j)
  BY <1>1, <1>2, ReapedRowFacts DEF IInv, TypeOK, Reaped
<1>4. \A j \in Job : j \notin E => jobs'[j] = jobs[j]
  BY <1>1
<1>5. \A j \in Job : j \notin E => Kept(j)
  BY <1>4 DEF Kept
<1>6. \A j \in Job : ~Taken(j)
  BY <1>3, <1>4 DEF Taken, Reaped
<1>7. \A j \in Job : ~Won(j)
  <2>1. \A j \in E : jobs'[j].selected_attempt_id # jobs[j].attempt_id
    BY <1>2, <1>3, NilAssumption DEF Reaped, IInv, LeaseInv, AttemptsOf, Claimed
  <2> QED BY <2>1, <1>4 DEF Won, Active, Terminal
<1>8. \A b \in Claimed : /\ attempts'[b].fence = attempts[b].fence
                         /\ attempts[b].disposition = "authoritative" =>
                               attempts'[b] = attempts[b]
  <2>1. \A b \in Claimed : AbandonedRow(attempts[b]).fence = attempts[b].fence
    BY ClaimedFacts, AbandonedRowFacts DEF IInv
  <2>2. \A b \in Claimed : attempts'[b] = IF Hit(b) THEN AbandonedRow(attempts[b])
                                          ELSE attempts[b]
    BY <1>1 DEF Claimed
  <2>3. \A b \in Claimed : Hit(b) => attempts[b].disposition # "authoritative"
    OBVIOUS
  <2> HIDE DEF Hit
  <2> QED BY <2>1, <2>2, <2>3
<1>9. \A r \in Run : runs[r].state \in FinalRun => runs'[r].state = runs[r].state
  BY <1>1, FinalRunsStay DEF IInv, TypeOK
<1>10. \A b \in AttemptId : attempts'[b] = attempts[b] \/ Rewritten(attempts'[b])
  <2>1. \A b \in AttemptId : Hit(b) => Rewritten(AbandonedRow(attempts[b]))
    BY ClaimedFacts, AbandonedRowFacts DEF IInv, Claimed, Rewritten
  <2> HIDE DEF Hit
  <2> QED BY <1>1, <2>1
<1> QED BY <1>3, <1>5, <1>6, <1>7, <1>8, <1>9, <1>10 DEF StepShape

\* Every step of the queue has that shape.
LEMMA NextShape == IInv /\ Next => StepShape
<1> SUFFICES ASSUME IInv, Next PROVE StepShape
  OBVIOUS
<1>1. ASSUME NEW d \in Delay, Claim(d) PROVE StepShape
  BY <1>1, ClaimJobShape DEF Claim
<1>2. ASSUME NEW r \in Run \cup {Nil}, ClaimNone(r) PROVE StepShape
  <2>1. runs \in [Run -> RunRow]
    BY DEF IInv, TypeOK
  <2> QED BY <1>2, <2>1, FailPendingShape DEF ClaimNone
<1>3. ASSUME NEW h \in Claimed, NEW d \in Delay, MarkRunning(h, d) PROVE StepShape
  BY <1>3, MarkRunningRenews, RenewedShape
<1>4. ASSUME NEW h \in Claimed, NEW d \in Delay, Heartbeat(h, d) PROVE StepShape
  BY <1>4, HeartbeatRenews, RenewedShape
<1>5. ASSUME NEW h \in Claimed, NEW d \in Delay, NEW o \in Outcome,
             NEW a \in Submittable(h), Complete(h, a, o, d)
      PROVE  StepShape
  <2>1. a \in Claimed
    BY <1>5 DEF Submittable
  <2> QED BY <1>5, <2>1, CompleteStaleShape, CompleteCommitShape DEF Complete
<1>6. ASSUME NEW m \in ReapArgs, NEW d \in Delay, ReapExpired(m, d) PROVE StepShape
  BY <1>6, ReapExpiredShape
<1>7. ASSUME NEW r \in Run, RequestCancel(r) PROVE StepShape
  <2> DEFINE flagged == [runs EXCEPT ![r] = [@ EXCEPT !.cancel_requested = TRUE]]
  <2>1. /\ flagged \in [Run -> RunRow]
        /\ \A q \in Run : flagged[q].state = runs[q].state
    BY DEF IInv, TypeOK, RunRow
  <2>2. /\ jobs' = FailPending({r})
        /\ runs' = UpdateRuns(jobs', flagged, {r})
        /\ UNCHANGED attempts
    BY <1>7 DEF RequestCancel
  <2> HIDE DEF flagged
  <2> QED BY <2>1, <2>2, FailPendingShape
<1>8. CASE Tick
  BY <1>8, TickRenews, RenewedShape
<1> QED BY <1>1, <1>2, <1>3, <1>4, <1>5, <1>6, <1>7, <1>8 DEF Next

-----------------------------------------------------------------------------
(* The theorems. *)

\* No call changes a terminal job, an authoritative attempt or a final run.
THEOREM FinalityHolds == Spec => TerminalIsFinal
<1>1. IInv /\ [Next]_vars =>
        [/\ \A j \in Job : jobs[j].state \in Terminal => jobs'[j] = jobs[j]
         /\ \A a \in Claimed : attempts[a].disposition = "authoritative" =>
               attempts'[a] = attempts[a]
         /\ \A r \in Run : runs[r].state \in FinalRun =>
               runs'[r].state = runs[r].state]_vars
  <2> SUFFICES ASSUME IInv, Next
               PROVE  /\ \A j \in Job : jobs[j].state \in Terminal => jobs'[j] = jobs[j]
                      /\ \A a \in Claimed : attempts[a].disposition = "authoritative" =>
                            attempts'[a] = attempts[a]
                      /\ \A r \in Run : runs[r].state \in FinalRun =>
                            runs'[r].state = runs[r].state
    OBVIOUS
  <2>1. StepShape
    BY NextShape
  <2>2. \A j \in Job : jobs[j].state \in Terminal => jobs'[j] = jobs[j]
    BY <2>1 DEF StepShape, Kept, Taken, Dropped, Reaped, Won, Active, Terminal
  <2> QED BY <2>1, <2>2 DEF StepShape
<1> QED BY <1>1, Invariance, PTL DEF Spec, TerminalIsFinal

\* A cancelled run starts nothing any more and requeues nothing.
THEOREM CancellationHolds == Spec => CancelStopsWork
<1>1. IInv /\ [Next]_vars =>
        [\A j \in Job : runs[RunOf[j]].cancel_requested =>
            /\ jobs'[j].fence = jobs[j].fence
            /\ jobs'[j].state = "PENDING" => jobs[j].state = "PENDING"]_vars
  <2> SUFFICES ASSUME IInv, Next, NEW j \in Job, runs[RunOf[j]].cancel_requested
               PROVE  /\ jobs'[j].fence = jobs[j].fence
                      /\ jobs'[j].state = "PENDING" => jobs[j].state = "PENDING"
    OBVIOUS
  <2>1. Kept(j) \/ Taken(j) \/ Dropped(j) \/ Reaped(j) \/ Won(j)
    BY NextShape DEF StepShape
  <2>2. CASE Kept(j)
    BY <2>2 DEF Kept, Phase
  <2>3. CASE Taken(j) \/ Dropped(j) \/ Reaped(j) \/ Won(j)
    BY <2>3 DEF Taken, Dropped, Reaped, Won, Terminal
  <2> QED BY <2>1, <2>2, <2>3
<1> QED BY <1>1, Invariance, PTL DEF Spec, CancelStopsWork

\* Nobody renews a lease that is over for every caller, or commits under it.
LEMMA DeadLease ==
    ASSUME IInv, Next, NEW j \in Job,
           jobs[j].state \in Active, jobs[j].lease_left <= -MaxDelay
    PROVE  /\ jobs'[j].lease_left \in {jobs[j].lease_left, Nil}
           /\ jobs'[j].selected_attempt_id = jobs[j].selected_attempt_id
<1> DEFINE Left == /\ jobs'[j].lease_left \in {jobs[j].lease_left, Nil}
                   /\ jobs'[j].selected_attempt_id = jobs[j].selected_attempt_id
<1>0. jobs \in [Job -> JobRow] /\ jobs[j].lease_left \in Int /\ MaxDelay \in Nat
  BY TimeAssumption DEF IInv, TypeOK, LeaseInv, JobRow, LeaseLeft
<1>1. \A d \in Delay : ~LeaseUnexpired(j, d)
  BY <1>0 DEF LeaseUnexpired, Delay
<1>2. ASSUME NEW R PROVE FailPending(R)[j] = jobs[j]
  BY DEF FailPending, Active
<1>3. ASSUME NEW d \in Delay, Claim(d) PROVE Left
  <2>0. PICK r \in Run \cup {Nil}, a \in AttemptId : ClaimJob(r, a, d)
    BY <1>3 DEF Claim
  <2>1. PICK k \in Claimable(r) :
           jobs' = [FailPending(SweptRuns(r)) EXCEPT ![k] = ClaimedRow(jobs[k], a, d)]
    BY <2>0 DEF ClaimJob
  <2>2. k # j
    BY DEF Claimable, Pending, Active
  <2>3. jobs'[j] = FailPending(SweptRuns(r))[j]
    BY <2>1, <2>2 DEF FailPending
  <2> QED BY <1>2, <2>3
<1>4. ASSUME NEW r \in Run \cup {Nil}, ClaimNone(r) PROVE Left
  BY <1>2, <1>4 DEF ClaimNone
<1>5. ASSUME NEW h \in Claimed, NEW d \in Delay, MarkRunning(h, d) \/ Heartbeat(h, d) PROVE Left
  <2>1. attempts[h].job_id # j
    BY <1>1, <1>5 DEF MarkRunning, Heartbeat, HoldsLease
  <2> QED BY <1>0, <1>5, <2>1 DEF MarkRunning, Heartbeat
<1>6. ASSUME NEW h \in Claimed, NEW d \in Delay, NEW o \in Outcome,
             NEW a \in Submittable(h), Complete(h, a, o, d)
      PROVE  Left
  <2>1. CASE CompleteStale(h, a, o, d)
    BY <2>1 DEF CompleteStale
  <2>2. CASE CompleteCommit(h, a, o, d)
    <3>1. attempts[h].job_id # j
      BY <1>1, <2>2 DEF CompleteCommit
    <3> QED BY <1>0, <2>2, <3>1 DEF CompleteCommit
  <2> QED BY <1>6, <2>1, <2>2 DEF Complete
<1>7. ASSUME NEW m \in ReapArgs, NEW d \in Delay, ReapExpired(m, d) PROVE Left
  <2>1. jobs'[j] = jobs[j] \/ jobs'[j] = ReapedRow(j, m)
    BY <1>7 DEF ReapExpired
  <2> QED BY <1>0, <2>1, ReapedRowFacts
<1>8. ASSUME NEW r \in Run, RequestCancel(r) PROVE Left
  BY <1>2, <1>8 DEF RequestCancel
<1>9. CASE Tick
  <2>1. ~(jobs[j].lease_left > -MaxDelay)
    BY <1>0
  <2> QED BY <1>9, <2>1 DEF Tick
<1> QED BY <1>3, <1>4, <1>5, <1>6, <1>7, <1>8, <1>9 DEF Next

\* While a lease lasts its job is not taken from its holder, and once it is over
\* for the oldest clock reading it is of no use to him.
THEOREM LeasesHold == Spec => LiveLeaseIsKept
<1>1. IInv /\ [Next]_vars =>
        [\A j \in Job : jobs[j].state \in Active =>
          /\ jobs[j].lease_left > 0 =>
                jobs'[j].attempt_id = jobs[j].attempt_id /\ jobs'[j].state # "PENDING"
          /\ jobs[j].lease_left <= -MaxDelay =>
                /\ jobs'[j].lease_left \in {jobs[j].lease_left, Nil}
                /\ jobs'[j].selected_attempt_id = jobs[j].selected_attempt_id]_vars
  <2> SUFFICES ASSUME IInv, Next, NEW j \in Job, jobs[j].state \in Active
               PROVE
          /\ jobs[j].lease_left > 0 =>
                jobs'[j].attempt_id = jobs[j].attempt_id /\ jobs'[j].state # "PENDING"
          /\ jobs[j].lease_left <= -MaxDelay =>
                /\ jobs'[j].lease_left \in {jobs[j].lease_left, Nil}
                /\ jobs'[j].selected_attempt_id = jobs[j].selected_attempt_id
    OBVIOUS
  <2>1. Kept(j) \/ Taken(j) \/ Dropped(j) \/ Reaped(j) \/ Won(j)
    BY NextShape DEF StepShape
  <2>2. jobs[j].lease_left > 0 => ~Taken(j) /\ ~Dropped(j) /\ ~Reaped(j)
    BY DEF Taken, Dropped, Reaped, Active
  <2>3. Kept(j) => jobs'[j].attempt_id = jobs[j].attempt_id /\ jobs'[j].state # "PENDING"
    BY DEF Kept, Phase, Active
  <2>4. Won(j) => jobs'[j].attempt_id = jobs[j].attempt_id /\ jobs'[j].state # "PENDING"
    BY DEF Won, Terminal
  <2> QED BY <2>1, <2>2, <2>3, <2>4, DeadLease
<1> QED BY <1>1, Invariance, PTL DEF Spec, LiveLeaseIsKept

\* What the slot of job j is, given the fence n and the selection sel of its row.
SlotOf(state, n, sel) ==
    [phase |-> Phase(state), gen |-> n, winner |-> IF sel = Nil THEN 0 ELSE n]

\* Under the invariant the winner of a slot is its current generation or 0.
LEMMA SlotFacts ==
    ASSUME NEW j \in Job
    PROVE  /\ IInv => slotBar[j] = SlotOf(jobs[j].state, jobs[j].fence,
                                         jobs[j].selected_attempt_id)
           /\ IInv' => slotBar'[j] = SlotOf(jobs'[j].state, jobs'[j].fence,
                                           jobs'[j].selected_attempt_id)
BY DEF slotBar, SlotOf, IInv, SelectedFence

\* Each way to move a job is a way to move its slot; only Taken grants and only
\* Won decides.
LEMMA SlotMoves ==
    ASSUME IInv, IInv', NEW j \in Job,
           Kept(j) \/ Taken(j) \/ Dropped(j) \/ Reaped(j) \/ Won(j)
    PROVE  /\ Register!Moved(slotBar[j], slotBar'[j])
           /\ Register!Granted(slotBar[j], slotBar'[j]) => Taken(j)
           /\ Register!Decided(slotBar[j], slotBar'[j]) => Won(j)
<1> DEFINE s == slotBar[j]
           t == slotBar'[j]
           n == jobs[j].fence
           sel == jobs[j].selected_attempt_id
<1>1. /\ s = SlotOf(jobs[j].state, n, sel)
      /\ t = SlotOf(jobs'[j].state, jobs'[j].fence, jobs'[j].selected_attempt_id)
  BY SlotFacts
<1>2. n \in Nat
  BY DEF IInv, TypeOK, JobRow
<1>3. jobs[j].state \in Active => n # 0 /\ sel = Nil /\ jobs[j].attempt_id # Nil
  <2>1. jobs[j].state \in Active => /\ jobs[j].attempt_id \in AttemptsOf(j)
                                    /\ attempts[jobs[j].attempt_id].fence = n
                                    /\ sel = Nil
    BY DEF IInv, LeaseInv
  <2>2. \A a \in AttemptsOf(j) : attempts[a].fence \in 1 .. n /\ a # Nil
    BY NilAssumption DEF IInv, FenceInv, AttemptsOf, Claimed
  <2> QED BY <1>2, <2>1, <2>2
<1>4. jobs[j].state = "PENDING" => sel = Nil
  BY DEF IInv, LeaseInv
<1>5. /\ s.phase = Phase(jobs[j].state) /\ t.phase = Phase(jobs'[j].state)
      /\ s.gen = n /\ t.gen = jobs'[j].fence
      /\ s.winner = IF sel = Nil THEN 0 ELSE n
      /\ t.winner = IF jobs'[j].selected_attempt_id = Nil THEN 0 ELSE jobs'[j].fence
  BY <1>1 DEF SlotOf
<1>6. CASE Kept(j)
  <2>1. s = t
    BY <1>1, <1>6 DEF Kept, SlotOf
  <2>2. ~Register!Granted(s, t) /\ ~Register!Decided(s, t)
    BY <2>1 DEF Register!Granted, Register!Decided
  <2> QED BY <2>1, <2>2 DEF Register!Moved
<1> HIDE DEF s, t, n, sel
<1>7. CASE Taken(j)
  <2>1. Register!Granted(s, t) /\ ~Register!Decided(s, t)
    BY <1>4, <1>5, <1>7 DEF Taken, Phase, Active, n, sel, Register!Granted, Register!Decided
  <2> QED BY <1>7, <2>1 DEF Register!Moved, s, t
<1>8. CASE Dropped(j)
  <2>1. Register!Closed(s, t) /\ ~Register!Granted(s, t) /\ ~Register!Decided(s, t)
    BY <1>4, <1>5, <1>8 DEF Dropped, Phase, Active, n, sel,
       Register!Granted, Register!Decided, Register!Closed
  <2> QED BY <2>1 DEF Register!Moved, s, t
<1>9. CASE Reaped(j)
  <2>1. /\ Register!Released(s, t) \/ Register!Closed(s, t)
        /\ ~Register!Granted(s, t) /\ ~Register!Decided(s, t)
    BY <1>2, <1>3, <1>5, <1>9 DEF Reaped, Phase, Active, n, sel,
       Register!Granted, Register!Decided, Register!Closed, Register!Released
  <2> QED BY <2>1 DEF Register!Moved, s, t
<1>10. CASE Won(j)
  <2>1. Register!Decided(s, t) /\ ~Register!Granted(s, t)
    BY <1>3, <1>5, <1>10 DEF Won, Phase, Active, Terminal, n, sel,
       Register!Granted, Register!Decided
  <2> QED BY <1>10, <2>1 DEF Register!Moved, s, t
<1> QED BY <1>6, <1>7, <1>8, <1>9, <1>10

\* Every step of the queue is a step of the register or leaves it as it is.
LEMMA SlotStep == IInv /\ IInv' /\ [Next]_vars => [Register!Next]_slotBar
<1> SUFFICES ASSUME IInv, IInv', [Next]_vars PROVE [Register!Next]_slotBar
  OBVIOUS
<1>1. CASE UNCHANGED vars
  BY <1>1 DEF vars, slotBar
<1>2. CASE Next
  <2>1. StepShape
    BY <1>2, NextShape
  <2>2. \A j \in Job :
          /\ Register!Moved(slotBar[j], slotBar'[j])
          /\ Register!Granted(slotBar[j], slotBar'[j]) => Taken(j)
          /\ Register!Decided(slotBar[j], slotBar'[j]) => Won(j)
    BY <2>1, SlotMoves DEF StepShape
  <2>3. slotBar' \in [Job -> Register!Slot]
    <3>1. \A j \in Job : slotBar'[j] \in Register!Slot
      <4>1. \A j \in Job : jobs'[j].fence \in Nat
        BY DEF IInv, TypeOK, JobRow
      <4>2. \A state, sel : \A n \in Nat : SlotOf(state, n, sel) \in Register!Slot
        BY DEF SlotOf, Phase, Register!Slot
      <4> QED BY <4>1, <4>2, SlotFacts
    <3>2. slotBar' = [j \in Job |-> slotBar'[j]]
      BY DEF slotBar
    <3> QED BY <3>1, <3>2
  <2>4. \A i, j \in Job :
          /\ Taken(i) /\ Taken(j) => i = j
          /\ Won(i) /\ Won(j) => i = j
    BY <2>1 DEF StepShape
  <2> QED BY <2>2, <2>3, <2>4 DEF Register!Next
<1> QED BY <1>1, <1>2

\* The queue implements one write-once, generation-guarded register per job.
THEOREM Refinement == Spec => ImplementsFencedRegister
<1>1. Init => Register!Init
  BY DEF Init, Register!Init, Register!Fresh, slotBar, Phase
<1> QED BY <1>1, SlotStep, Invariance, PTL DEF Spec, ImplementsFencedRegister, Register!Spec

=============================================================================
