------------------------------ MODULE JobQueue ------------------------------
(***************************************************************************)
(* The lease-fenced job queue of execution/jobs.py: the tables jobs,       *)
(* evaluation_attempts and audit_runs, and one action for each function    *)
(* that changes them.  Every function runs inside one BEGIN IMMEDIATE      *)
(* transaction, so each is one atomic step; what interleaves is the calls. *)
(*                                                                         *)
(* Callers.  claim() returns a Job object, the handle, that is passed back *)
(* to mark_running, heartbeat and complete.  A handle's fence, attempt_id, *)
(* lease_token and worker_id were drawn together by one claim, so a handle *)
(* is named here by its attempt id, and a lease token by the attempt drawn *)
(* with it; worker_id is set, cleared and compared exactly when            *)
(* lease_token is, and is left out.  Any handle ever returned may be used  *)
(* at any time and any number of times: that covers late, repeated and     *)
(* reordered calls, and a crashed worker is one that calls no more.        *)
(*                                                                         *)
(* Time.  The code compares lease_expires_ms with a now_ms argument and    *)
(* sets it to now_ms + duration, nothing else.  The row keeps lease_left,  *)
(* the time from now to lease_expires_ms, in ticks.  A caller reads the    *)
(* clock before it waits for the write lock, so its now_ms may lie up to   *)
(* MaxDelay ticks in the past: the d of the actions.  Below -MaxDelay a    *)
(* lease looks expired to every caller, so lease_left stops there and the  *)
(* model needs no bound on time.                                           *)
(***************************************************************************)
EXTENDS Integers

CONSTANTS
    Job,            \* job ids; ORDER BY job_id is the order of numbers
    Run,            \* audit runs
    RunOf,          \* jobs.run_id
    AttemptId,      \* the uuids that claim() can draw
    MaxAttempts,    \* audit_manifests.max_attempts_per_job of each run
    ReapArgs,       \* what reap_expired is given as max_attempts, Nil for None
    LeaseMs,        \* lease_duration_ms and extension_ms, in ticks
    MaxDelay,       \* the oldest now_ms a caller may bring, in ticks
    Outcome,        \* outcomes that complete() is given
    MixedUp,        \* TRUE: complete() may be given another attempt's id
    Nil             \* SQL NULL

ASSUME JobAssumption == Job \subseteq Nat
ASSUME RunAssumption == RunOf \in [Job -> Run]
ASSUME BudgetAssumption ==
    /\ MaxAttempts \in [Run -> Nat \ {0}]
    /\ ReapArgs \subseteq (Nat \ {0}) \cup {Nil}
ASSUME TimeAssumption == LeaseMs \in Nat \ {0} /\ MaxDelay \in Nat
ASSUME OutcomeAssumption ==
    Outcome \subseteq {"accept", "reject", "invalid_evaluation", "error"}
ASSUME NilAssumption ==
    /\ Nil \notin AttemptId
    /\ Nil \notin Run
    /\ Nil \notin Int
    /\ Nil \notin {"accept", "reject", "invalid_evaluation", "error"}
    /\ Nil # "LEASE_EXPIRED"
ASSUME MixedUpAssumption == MixedUp \in BOOLEAN

VARIABLES
    jobs,           \* table jobs, by job_id
    attempts,       \* table evaluation_attempts, by attempt_id; Nil: no row
    runs            \* table audit_runs, by run_id

vars == <<jobs, attempts, runs>>

-----------------------------------------------------------------------------
(* The rows. *)

JobState == {"PENDING", "CLAIMED", "RUNNING", "DONE", "FAILED"}
Active == {"CLAIMED", "RUNNING"}
Terminal == {"DONE", "FAILED"}
FinalRun == {"COMPLETE", "CANCELLED", "FAILED"}
RunState == {"PLANNED", "RUNNING"} \cup FinalRun
Disposition == {"active", "authoritative", "stale", "abandoned"}
Verdict == {"accept", "reject", "invalid_evaluation", "error"}
Reason == {"CANCELLED", "LEASE_EXPIRED", "EVALUATION_ERROR"}

LeaseLeft == (-MaxDelay .. LeaseMs) \cup {Nil}

JobRow ==
    [state : JobState,
     fence : Nat,
     attempt_id : AttemptId \cup {Nil},
     lease_token : AttemptId \cup {Nil},
     lease_left : LeaseLeft,
     attempts_started : Nat,
     selected_attempt_id : AttemptId \cup {Nil},
     terminal_reason : Reason \cup {Nil}]

AttemptRow ==
    [job_id : Job,
     fence : Nat,
     outcome : Verdict \cup {Nil},
     evaluation_validity : {"pending", "valid", "invalid"},
     disposition : Disposition]

ASSUME NilIsNoRow == Nil \notin AttemptRow

RunRow == [state : RunState, cancel_requested : BOOLEAN]

\* The handles that claim() has returned so far.
Claimed == {a \in AttemptId : attempts[a] # Nil}

Delay == 0 .. MaxDelay

-----------------------------------------------------------------------------
(* Helpers of the transactions. *)

JobsOf(r) == {j \in Job : RunOf[j] = r}

\* Mutant: any failed job ends the run at once.
RunStateFailFast(js, rs, r) ==
    LET states == {js[j].state : j \in JobsOf(r)}
    IN  IF rs[r].state \in FinalRun \/ states = {} THEN rs[r].state
        ELSE IF "FAILED" \in states /\ ~rs[r].cancel_requested THEN "FAILED"
        ELSE IF ~(states \subseteq Terminal) THEN "RUNNING"
        ELSE IF rs[r].cancel_requested THEN "CANCELLED"
        ELSE "COMPLETE"

\* The state _update_run_state leaves run r in, given the tables js and rs as
\* they stand when it is called.
RunStateAfter(js, rs, r) ==
    LET states == {js[j].state : j \in JobsOf(r)}
    IN  IF rs[r].state \in FinalRun \/ states = {} THEN rs[r].state
        ELSE IF ~(states \subseteq Terminal) THEN "RUNNING"
        ELSE IF rs[r].cancel_requested THEN "CANCELLED"
        ELSE IF "FAILED" \in states THEN "FAILED"
        ELSE "COMPLETE"

\* The table audit_runs after _update_run_state has been called on the runs R.
UpdateRuns(js, rs, R) ==
    [r \in Run |->
        IF r \in R THEN [rs[r] EXCEPT !.state = RunStateAfter(js, rs, r)]
                   ELSE rs[r]]

CancelledRow(row) ==
    [row EXCEPT !.state = "FAILED", !.terminal_reason = "CANCELLED"]

\* Mutant: the WHERE clause forgets the state.
FailAll(R) ==
    [j \in Job |-> IF RunOf[j] \in R THEN CancelledRow(jobs[j]) ELSE jobs[j]]

\* The table jobs once the PENDING jobs of the runs R are failed as cancelled.
FailPending(R) ==
    [j \in Job |->
        IF RunOf[j] \in R /\ jobs[j].state = "PENDING"
        THEN CancelledRow(jobs[j])
        ELSE jobs[j]]

\* lease_expires_ms is not NULL and lies after the caller's now_ms.
LeaseUnexpired(j, d) == jobs[j].lease_left # Nil /\ jobs[j].lease_left + d > 0

\* The row still carries the fence and the token of handle h.
LeaseIdentityValid(j, h) ==
    jobs[j].fence = attempts[h].fence /\ jobs[j].lease_token = h

\* What mark_running and heartbeat demand; anything else raises LeaseLost.
HoldsLease(h, d) ==
    LET j == attempts[h].job_id
    IN  /\ LeaseIdentityValid(j, h)
        /\ jobs[j].attempt_id = h
        /\ LeaseUnexpired(j, d)
        /\ jobs[j].state \in Active

-----------------------------------------------------------------------------
(* claim *)

\* The jobs that the SELECT of claim(run_id = r) ranges over; Nil: no filter.
Pending(r) == {j \in Job : jobs[j].state = "PENDING" /\ r \in {RunOf[j], Nil}}

Claimable(r) == {j \in Pending(r) : ~runs[RunOf[j]].cancel_requested}

\* The cancelled runs that the loop meets, and sweeps, before the first job
\* it can claim.
SweptRuns(r) ==
    {RunOf[j] : j \in {k \in Pending(r) \ Claimable(r) :
                           \A c \in Claimable(r) : k < c}}

ClaimedRow(row, a, d) ==
    [row EXCEPT !.state = "CLAIMED",
                !.fence = row.fence + 1,
                !.attempt_id = a,
                !.lease_token = a,
                !.lease_left = LeaseMs - d,
                !.attempts_started = row.attempts_started + 1]

NewAttempt(j, n) ==
    [job_id |-> j,
     fence |-> n,
     outcome |-> Nil,
     evaluation_validity |-> "pending",
     disposition |-> "active"]

\* claim() finds a job: the least claimable one gets the next fence, a fresh
\* attempt and a fresh token.
ClaimJob(r, a, d) ==
    LET swept == FailPending(SweptRuns(r))
    IN  \E j \in Claimable(r) :
          /\ \A k \in Claimable(r) : j <= k
          /\ attempts[a] = Nil
          /\ jobs' = [swept EXCEPT ![j] = ClaimedRow(jobs[j], a, d)]
          /\ attempts' = [attempts EXCEPT ![a] = NewAttempt(j, jobs[j].fence + 1)]
          /\ runs' = UpdateRuns(jobs', runs, SweptRuns(r) \cup {RunOf[j]})

\* claim() finds none and returns None, but commits what the loop swept.
ClaimNone(r) ==
    /\ Claimable(r) = {}
    /\ SweptRuns(r) # {}
    /\ jobs' = FailPending(SweptRuns(r))
    /\ runs' = UpdateRuns(jobs', runs, SweptRuns(r))
    /\ UNCHANGED attempts

-----------------------------------------------------------------------------
(* mark_running and heartbeat *)

MarkRunning(h, d) ==
    /\ HoldsLease(h, d)
    /\ jobs' = [jobs EXCEPT ![attempts[h].job_id] = [@ EXCEPT !.state = "RUNNING"]]
    /\ UNCHANGED <<attempts, runs>>

\* Mutant: the extension is added to the old expiry, not to now.
HeartbeatAccumulates(h, d) ==
    /\ HoldsLease(h, d)
    /\ jobs' = [jobs EXCEPT
          ![attempts[h].job_id] = [@ EXCEPT !.lease_left = @ + LeaseMs]]
    /\ UNCHANGED <<attempts, runs>>

Heartbeat(h, d) ==
    /\ HoldsLease(h, d)
    /\ jobs' = [jobs EXCEPT
          ![attempts[h].job_id] = [@ EXCEPT !.lease_left = LeaseMs - d]]
    /\ UNCHANGED <<attempts, runs>>

-----------------------------------------------------------------------------
(* complete: handle h, submitted attempt a with the handle's job and fence *)

\* Mutant: the quarantine keeps the decisive outcome.
QuarantinedRowKeepsOutcome(row, o) ==
    [row EXCEPT !.disposition = "stale",
                !.evaluation_validity = "invalid",
                !.outcome = o]

\* _mark_attempt_stale: quarantine the submitted evidence.  A decisive
\* outcome is dropped, a diagnostic one is kept.
QuarantinedRow(row, o) ==
    [row EXCEPT !.disposition = "stale",
                !.evaluation_validity = "invalid",
                !.outcome = IF o \in {"invalid_evaluation", "error"} THEN o ELSE Nil]

\* j is the job of the handle.  The code takes attempt.job_id, which run_one sets to
\* it: what a caller may mix up is the attempt's id.
MarkAttemptStale(j, a, o) ==
    attempts' = IF /\ attempts[a].job_id = j
                   /\ attempts[a].disposition \in {"active", "abandoned"}
                THEN [attempts EXCEPT ![a] = QuarantinedRow(@, o)]
                ELSE attempts

\* "duplicate" and IdentityConflict change nothing and are not actions.
CompleteStale(h, a, o, d) ==
    LET j == attempts[h].job_id
    IN  /\ IF jobs[j].state \in Terminal
           THEN jobs[j].selected_attempt_id # a
           ELSE \/ ~LeaseUnexpired(j, d)
                \/ ~LeaseIdentityValid(j, h)
                \/ jobs[j].attempt_id # a
        /\ MarkAttemptStale(j, a, o)
        /\ UNCHANGED <<jobs, runs>>

CommittedRow(row, o) ==
    [row EXCEPT !.disposition = "authoritative",
                !.outcome = o,
                !.evaluation_validity =
                    IF o \in {"accept", "reject"} THEN "valid" ELSE "invalid"]

\* Mutant: an error puts the job back into the queue.
DecidedRowRetriesError(row, a, o) ==
    [row EXCEPT !.state = IF o = "error" THEN "PENDING" ELSE "DONE",
                !.attempt_id = IF o = "error" THEN Nil ELSE row.attempt_id,
                !.selected_attempt_id = IF o = "error" THEN Nil ELSE a,
                !.lease_token = Nil,
                !.lease_left = Nil]

DecidedRow(row, a, o) ==
    [row EXCEPT !.state = IF o = "error" THEN "FAILED" ELSE "DONE",
                !.selected_attempt_id = a,
                !.lease_token = Nil,
                !.lease_left = Nil,
                !.terminal_reason = IF o = "error" THEN "EVALUATION_ERROR" ELSE Nil]

\* Mutant: the lease is checked but not which attempt it belongs to.
CompleteCommitAnyAttempt(h, a, o, d) ==
    LET j == attempts[h].job_id
    IN  /\ jobs[j].state \notin Terminal
        /\ LeaseUnexpired(j, d)
        /\ LeaseIdentityValid(j, h)
        /\ attempts[a].job_id = j
        /\ attempts' = [attempts EXCEPT ![a] = CommittedRow(@, o)]
        /\ jobs' = [jobs EXCEPT ![j] = DecidedRow(@, a, o)]
        /\ runs' = UpdateRuns(jobs', runs, {RunOf[j]})

CompleteCommit(h, a, o, d) ==
    LET j == attempts[h].job_id
    IN  /\ jobs[j].state \notin Terminal
        /\ LeaseUnexpired(j, d)
        /\ LeaseIdentityValid(j, h)
        /\ jobs[j].attempt_id = a
        /\ attempts[a].job_id = j /\ attempts[a].fence = attempts[h].fence
        /\ attempts' = [attempts EXCEPT ![a] = CommittedRow(@, o)]
        /\ jobs' = [jobs EXCEPT ![j] = DecidedRow(@, a, o)]
        /\ runs' = UpdateRuns(jobs', runs, {RunOf[j]})

-----------------------------------------------------------------------------
(* reap_expired and request_cancel *)

\* Mutant: every active job counts as expired.
ExpiredAlways(d) == {j \in Job : jobs[j].state \in Active}

Expired(d) == {j \in Job : /\ jobs[j].state \in Active
                           /\ jobs[j].lease_left # Nil
                           /\ jobs[j].lease_left + d <= 0}

EffectiveMaxAttempts(r, m) == IF m = Nil THEN MaxAttempts[r] ELSE m

AbandonedRow(row) ==
    [row EXCEPT !.disposition = "abandoned",
                !.evaluation_validity = "invalid",
                !.outcome = Nil]

\* Mutant: the budget is off by one.
ReapedRowOneMore(j, m) ==
    LET cancelled == runs[RunOf[j]].cancel_requested
        retry == /\ ~cancelled
                 /\ jobs[j].attempts_started <= EffectiveMaxAttempts(RunOf[j], m)
    IN  [jobs[j] EXCEPT
            !.state = IF retry THEN "PENDING" ELSE "FAILED",
            !.attempt_id = Nil,
            !.lease_token = Nil,
            !.lease_left = Nil]

\* Mutant: the cancellation of the run is not looked at.
ReapedRowIgnoresCancel(j, m) ==
    LET retry == jobs[j].attempts_started < EffectiveMaxAttempts(RunOf[j], m)
    IN  [jobs[j] EXCEPT
            !.state = IF retry THEN "PENDING" ELSE "FAILED",
            !.attempt_id = Nil,
            !.lease_token = Nil,
            !.lease_left = Nil]

\* Mutant: requeueing starts the job afresh.
ReapedRowFresh(j, m) ==
    LET cancelled == runs[RunOf[j]].cancel_requested
        retry == /\ ~cancelled
                 /\ jobs[j].attempts_started < EffectiveMaxAttempts(RunOf[j], m)
    IN  [jobs[j] EXCEPT
            !.state = IF retry THEN "PENDING" ELSE "FAILED",
            !.fence = IF retry THEN 0 ELSE @,
            !.attempt_id = Nil,
            !.lease_token = Nil,
            !.lease_left = Nil]

\* An expired job goes back to the queue while its run wants it and its
\* budget lasts, and fails otherwise; the lease is cleared in every case.
ReapedRow(j, m) ==
    LET cancelled == runs[RunOf[j]].cancel_requested
        retry == /\ ~cancelled
                 /\ jobs[j].attempts_started < EffectiveMaxAttempts(RunOf[j], m)
    IN  [jobs[j] EXCEPT
            !.state = IF retry THEN "PENDING" ELSE "FAILED",
            !.attempt_id = Nil,
            !.lease_token = Nil,
            !.lease_left = Nil,
            !.terminal_reason = IF retry THEN Nil
                                ELSE IF cancelled THEN "CANCELLED"
                                ELSE "LEASE_EXPIRED"]

\* Mutant: the attempt of a reaped job is left as it is.
ReapLeavesAttempt(m, d) ==
    /\ Expired(d) # {}
    /\ jobs' = [j \in Job |-> IF j \in Expired(d) THEN ReapedRow(j, m) ELSE jobs[j]]
    /\ runs' = UpdateRuns(jobs', runs, {RunOf[j] : j \in Expired(d)})
    /\ UNCHANGED attempts

\* Mutant: the UPDATE of the attempt does not ask whether it is active.
ReapAnyAttempt(m, d) ==
    /\ Expired(d) # {}
    /\ jobs' = [j \in Job |-> IF j \in Expired(d) THEN ReapedRow(j, m) ELSE jobs[j]]
    /\ attempts' = [a \in AttemptId |->
          IF (\E j \in Expired(d) : jobs[j].attempt_id = a) /\ attempts[a] # Nil
          THEN AbandonedRow(attempts[a])
          ELSE attempts[a]]
    /\ runs' = UpdateRuns(jobs', runs, {RunOf[j] : j \in Expired(d)})

ReapExpired(m, d) ==
    /\ Expired(d) # {}
    /\ jobs' = [j \in Job |-> IF j \in Expired(d) THEN ReapedRow(j, m) ELSE jobs[j]]
    /\ attempts' = [a \in AttemptId |->
          IF /\ \E j \in Expired(d) : jobs[j].attempt_id = a
             /\ attempts[a] # Nil
             /\ attempts[a].disposition = "active"
          THEN AbandonedRow(attempts[a])
          ELSE attempts[a]]
    /\ runs' = UpdateRuns(jobs', runs, {RunOf[j] : j \in Expired(d)})

RequestCancel(r) ==
    LET flagged == [runs EXCEPT ![r] = [@ EXCEPT !.cancel_requested = TRUE]]
    IN  /\ jobs' = FailPending({r})
        /\ runs' = UpdateRuns(jobs', flagged, {r})
        /\ UNCHANGED attempts

\* One tick of the controller's clock.
Tick ==
    /\ \E j \in Job : jobs[j].lease_left # Nil /\ jobs[j].lease_left > -MaxDelay
    /\ jobs' = [j \in Job |->
          IF jobs[j].lease_left # Nil /\ jobs[j].lease_left > -MaxDelay
          THEN [jobs[j] EXCEPT !.lease_left = @ - 1]
          ELSE jobs[j]]
    /\ UNCHANGED <<attempts, runs>>

-----------------------------------------------------------------------------

\* A planned audit: the job rows planner.expand describes.  request_cancel may
\* have come before the controller inserted them, when a run without jobs only
\* has its flag set: so the flag may be either value.
Init ==
    /\ jobs = [j \in Job |->
          [state |-> "PENDING", fence |-> 0, attempt_id |-> Nil,
           lease_token |-> Nil, lease_left |-> Nil, attempts_started |-> 0,
           selected_attempt_id |-> Nil, terminal_reason |-> Nil]]
    /\ attempts = [a \in AttemptId |-> Nil]
    /\ \E flags \in [Run -> BOOLEAN] :
          runs = [r \in Run |-> [state |-> "PLANNED", cancel_requested |-> flags[r]]]

Claim(d) == \E r \in Run \cup {Nil} : \E a \in AttemptId : ClaimJob(r, a, d)

Complete(h, a, o, d) == CompleteStale(h, a, o, d) \/ CompleteCommit(h, a, o, d)

\* The attempt a caller may submit along with its handle.
Submittable(h) == IF MixedUp THEN Claimed ELSE {h}

Next ==
    \/ \E d \in Delay : Claim(d)
    \/ \E r \in Run \cup {Nil} : ClaimNone(r)
    \/ \E h \in Claimed, d \in Delay : MarkRunning(h, d)
    \/ \E h \in Claimed, d \in Delay : Heartbeat(h, d)
    \/ \E h \in Claimed, d \in Delay, o \in Outcome :
          \E a \in Submittable(h) : Complete(h, a, o, d)
    \/ \E m \in ReapArgs, d \in Delay : ReapExpired(m, d)
    \/ \E r \in Run : RequestCancel(r)
    \/ Tick

Spec == Init /\ [][Next]_vars

-----------------------------------------------------------------------------
(* Properties *)

AttemptsOf(j) == {a \in Claimed : attempts[a].job_id = j}

\* The rows keep their columns' types; above all a lease never runs longer
\* than one duration from now, however often it is renewed.
TypeOK ==
    /\ jobs \in [Job -> JobRow]
    /\ attempts \in [AttemptId -> AttemptRow \cup {Nil}]
    /\ runs \in [Run -> RunRow]

\* complete(): the selected attempt of a job is an authoritative row of that
\* very job, the job is terminal, and there is no other authoritative row,
\* which the index attempt_authority_idx would refuse in mid-transaction.
VerdictIntegrity ==
    /\ \A j \in Job : jobs[j].selected_attempt_id # Nil =>
          /\ jobs[j].state \in Terminal
          /\ jobs[j].selected_attempt_id \in AttemptsOf(j)
          /\ attempts[jobs[j].selected_attempt_id].disposition = "authoritative"
    /\ \A j \in Job : jobs[j].state = "DONE" => jobs[j].selected_attempt_id # Nil
    /\ \A a \in Claimed : attempts[a].disposition = "authoritative" =>
          jobs[attempts[a].job_id].selected_attempt_id = a

\* Fencing: the verdict comes from the last claim of its job; a holder whose
\* job was claimed again can no longer commit.
VerdictFromLastClaim ==
    \A a \in Claimed : attempts[a].disposition = "authoritative" =>
        \A b \in AttemptsOf(attempts[a].job_id) : attempts[b].fence <= attempts[a].fence

\* reap_expired and complete leave no active row behind: an active attempt is
\* the one its job is being run under, hence there is one per job at most.
ActiveAttemptIsCurrent ==
    \A a \in Claimed : attempts[a].disposition = "active" =>
        LET j == attempts[a].job_id
        IN  jobs[j].state \in Active /\ jobs[j].attempt_id = a

\* The CHECK of table evaluation_attempts holds of every row any interleaving
\* writes, so that no transaction is aborted by it.
AttemptRowCheck ==
    \A a \in Claimed :
        LET row == attempts[a]
        IN  \/ /\ row.evaluation_validity = "pending"
               /\ row.outcome = Nil /\ row.disposition = "active"
            \/ /\ row.evaluation_validity = "valid"
               /\ row.outcome \in {"accept", "reject"}
               /\ row.disposition = "authoritative"
            \/ /\ row.evaluation_validity = "invalid"
               /\ \/ row.outcome \in {"invalid_evaluation", "error"}
                  \/ row.outcome = Nil /\ row.disposition \in {"abandoned", "stale"}

\* claim(): the attempts of a job carry the fences 1 to the job's own, each
\* once; none is lost, repeated or skipped, and attempts_started counts them.
FenceHistory ==
    \A j \in Job :
        /\ {attempts[a].fence : a \in AttemptsOf(j)} = 1 .. jobs[j].fence
        /\ \A a, b \in AttemptsOf(j) : attempts[a].fence = attempts[b].fence => a = b
        /\ jobs[j].attempts_started = jobs[j].fence

\* n attempts of job j are within a budget.
WithinBudget(j, n) ==
    n <= MaxAttempts[RunOf[j]] \/ \E m \in ReapArgs \ {Nil} : n <= m

\* ... and having been started n times has used up one of these limits.
UsedUp(j, n) == \E m \in ReapArgs : EffectiveMaxAttempts(RunOf[j], m) <= n

\* reap_expired, neither too generous nor too strict: a job is started at most as
\* often as the manifest, or an override the reaper was given, allows; and one
\* that failed because its lease expired was started as often as that.
RetryBudget ==
    \A j \in Job :
        /\ WithinBudget(j, jobs[j].attempts_started)
        /\ jobs[j].terminal_reason = "LEASE_EXPIRED" => UsedUp(j, jobs[j].attempts_started)

\* _update_run_state is called wherever it has to be: a run with jobs is final
\* exactly when all its jobs are, and its verdict agrees with theirs.
RunVerdict ==
    \A r \in Run : JobsOf(r) # {} =>
        /\ runs[r].state \in FinalRun <=> \A j \in JobsOf(r) : jobs[j].state \in Terminal
        /\ runs[r].state = "COMPLETE" => \A j \in JobsOf(r) : jobs[j].state = "DONE"
        /\ runs[r].state = "FAILED" => \E j \in JobsOf(r) : jobs[j].state = "FAILED"
        /\ runs[r].state = "CANCELLED" => runs[r].cancel_requested

\* No call, however late or repeated, changes a terminal job, an authoritative
\* attempt (the trigger attempts_authoritative_no_update never fires) or the
\* final state of a run.
TerminalIsFinal ==
    [][/\ \A j \in Job : jobs[j].state \in Terminal => jobs'[j] = jobs[j]
       /\ \A a \in Claimed : attempts[a].disposition = "authoritative" =>
             attempts'[a] = attempts[a]
       /\ \A r \in Run : runs[r].state \in FinalRun =>
             runs'[r].state = runs[r].state]_vars

\* request_cancel: once a run is cancelled none of its jobs is started again or
\* goes back to the queue; what was under way may only end.
CancelStopsWork ==
    [][\A j \in Job : runs[RunOf[j]].cancel_requested =>
          /\ jobs'[j].fence = jobs[j].fence
          /\ jobs'[j].state = "PENDING" => jobs[j].state = "PENDING"]_vars

\* reap_expired agrees with heartbeat and complete on when a lease ends: while it
\* lasts, its job is not taken from the holder; and once it is over for the oldest
\* clock reading, the holder neither renews it nor commits under it.
LiveLeaseIsKept ==
    [][\A j \in Job : jobs[j].state \in Active =>
          /\ jobs[j].lease_left > 0 =>
                jobs'[j].attempt_id = jobs[j].attempt_id /\ jobs'[j].state # "PENDING"
          /\ jobs[j].lease_left <= -MaxDelay =>
                /\ jobs'[j].lease_left \in {jobs[j].lease_left, Nil}
                /\ jobs'[j].selected_attempt_id = jobs[j].selected_attempt_id]_vars

\* complete() returned "stale" for good: no later heartbeat, complete or reap
\* takes a quarantined attempt out of quarantine.  The queue alone does not
\* promise it: a second complete() whose clock reading is older than the first
\* one's finds the lease still live.  The workers, who call complete() once per
\* claim, keep it (checked of the composed system of WorkerProcess).
QuarantineIsFinal ==
    [][\A a \in Claimed : attempts[a].disposition = "stale" =>
          attempts'[a].disposition = "stale"]_vars

-----------------------------------------------------------------------------
(* The inductive invariant. *)

\* A job is held under the attempt and token of its last claim, with no verdict
\* yet; a job that is not held has no lease.
LeaseInv ==
    \A j \in Job :
        /\ jobs[j].state \in Active =>
              /\ jobs[j].attempt_id \in AttemptsOf(j)
              /\ jobs[j].lease_token = jobs[j].attempt_id
              /\ jobs[j].lease_left # Nil
              /\ attempts[jobs[j].attempt_id].fence = jobs[j].fence
              /\ attempts[jobs[j].attempt_id].disposition \in {"active", "stale"}
              /\ jobs[j].selected_attempt_id = Nil
        /\ jobs[j].state = "PENDING" =>
              jobs[j].attempt_id = Nil /\ jobs[j].selected_attempt_id = Nil
        /\ jobs[j].state \notin Active =>
              jobs[j].lease_token = Nil /\ jobs[j].lease_left = Nil

\* FenceHistory, without the set of all fences.
FenceInv ==
    \A j \in Job :
        /\ jobs[j].attempts_started = jobs[j].fence
        /\ \A a \in AttemptsOf(j) : attempts[a].fence \in 1 .. jobs[j].fence
        /\ \A a, b \in AttemptsOf(j) : attempts[a].fence = attempts[b].fence => a = b
        /\ \A n \in 1 .. jobs[j].fence : \E a \in AttemptsOf(j) : attempts[a].fence = n

\* The selected attempt has the fence of its job.
SelectedFence ==
    \A j \in Job : jobs[j].selected_attempt_id # Nil =>
        attempts[jobs[j].selected_attempt_id].fence = jobs[j].fence

\* A job in the queue may be started once more.
BudgetInv ==
    \A j \in Job :
        /\ WithinBudget(j, jobs[j].attempts_started)
        /\ jobs[j].state = "PENDING" => WithinBudget(j, jobs[j].attempts_started + 1)
        /\ jobs[j].terminal_reason = "LEASE_EXPIRED" => UsedUp(j, jobs[j].attempts_started)

\* The inductive invariant: what every interleaving of the queue's transactions
\* keeps, and from which the safety properties above follow.
IInv ==
    /\ TypeOK
    /\ LeaseInv
    /\ FenceInv
    /\ VerdictIntegrity
    /\ SelectedFence
    /\ ActiveAttemptIsCurrent
    /\ AttemptRowCheck
    /\ BudgetInv
    /\ RunVerdict

-----------------------------------------------------------------------------
(* The queue implements a write-once register per job. *)

Phase(state) == IF state = "PENDING" THEN "open"
                ELSE IF state \in Active THEN "held" ELSE "closed"

slotBar == [j \in Job |->
    [phase |-> Phase(jobs[j].state),
     gen |-> jobs[j].fence,
     winner |-> IF jobs[j].selected_attempt_id = Nil THEN 0
                ELSE attempts[jobs[j].selected_attempt_id].fence]]

Register == INSTANCE FencedRegister WITH slot <- slotBar

\* Seen through its fences, the queue behaves as FencedRegister: a generation
\* per claim, a verdict only by the generation in charge, and once only.
ImplementsFencedRegister == Register!Spec

=============================================================================
