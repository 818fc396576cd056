---------------------------- MODULE WorkerProcess ----------------------------
(***************************************************************************)
(* Worker processes (execution/worker.py) on the job queue: run_one as a   *)
(* sequence of steps, the heartbeat thread that each run_one starts, the   *)
(* controller's reaper and cancellations, and worker crashes.              *)
(*                                                                         *)
(* A call of run_one claims one attempt, so its local state (stop_heartbeat*)
(* and lease_lost, the heartbeat thread) is kept per attempt id: a thread  *)
(* that outlives its run_one, because join() timed out, stays in the model.*)
(* The clock is read before the transaction that uses it.  For heartbeat   *)
(* and complete the reading is a step of its own and age counts the ticks  *)
(* since; claim and mark_running choose their delay when they run.         *)
(* conn_lock: the main thread holds it from reading the clock until        *)
(* complete() returns (pc "committing"), when no heartbeat can run; its    *)
(* other critical sections are single steps.                               *)
(***************************************************************************)
EXTENDS JobQueue

CONSTANT Worker         \* worker processes

ASSUME WorkerAssumption == Nil \notin Worker

VARIABLES
    worker,             \* the main thread of each process
    thread,             \* run_one's shared locals and heartbeat thread, by attempt
    workspaces          \* the attempts with a directory under work_dir/attempts

localVars == <<worker, thread, workspaces>>
allVars == <<jobs, attempts, runs, worker, thread, workspaces>>

Diagnostic == {"invalid_evaluation", "error"}

MainPC == {"idle", "claimed", "resolve", "prepare", "build", "execute", "stop",
           "join", "collect", "commit", "committing", "finally", "leave"}

WorkerState ==
    [pc : MainPC,
     job : AttemptId \cup {Nil},        \* current_job, by its attempt_id
     outcome : Outcome \cup {Nil},      \* what the capture will be parsed to
     age : Delay,                       \* of the clock reading for complete
     again : BOOLEAN]                   \* the loop over run_one goes on

ThreadState ==
    [pc : {"none", "waiting", "ready", "gone"},
     age : Delay,                       \* of hb_time
     stop : BOOLEAN,                    \* stop_heartbeat
     lost : BOOLEAN,                    \* lease_lost
     owner : Worker \cup {Nil}]

Idle == [pc |-> "idle", job |-> Nil, outcome |-> Nil, age |-> 0, again |-> FALSE]

-----------------------------------------------------------------------------
(* run_one, the main thread of worker w *)

At(w, p) == worker[w].pc = p

\* What w's main thread does next; nothing else of it changes.
Goto(w, p) == worker' = [worker EXCEPT ![w] = [@ EXCEPT !.pc = p]]

\* The capture of this attempt will be parsed to o.
Yield(w, o) ==
    worker' = [worker EXCEPT ![w] = [@ EXCEPT !.pc = "stop", !.outcome = o]]

\* An exception leaves run_one through its finally, and the loop with it.
Raise(w) ==
    worker' = [worker EXCEPT ![w] = [@ EXCEPT !.pc = "finally", !.again = FALSE]]

ClaimOne(w) ==
    /\ At(w, "idle") /\ worker[w].again
    /\ \E r \in Run \cup {Nil}, a \in AttemptId, d \in Delay :
          /\ ClaimJob(r, a, d)
          /\ worker' = [worker EXCEPT ![w] = [@ EXCEPT !.pc = "claimed", !.job = a]]
          /\ thread' = [thread EXCEPT ![a] = [@ EXCEPT !.owner = w]]
    /\ UNCHANGED workspaces

\* claim() returns None, or raises and changes nothing: the loop ends.
ClaimNothing(w) ==
    /\ At(w, "idle") /\ worker[w].again
    /\ (\E r \in Run \cup {Nil} : ClaimNone(r)) \/ UNCHANGED vars
    /\ worker' = [worker EXCEPT ![w] = Idle]
    /\ UNCHANGED <<thread, workspaces>>

\* mark_running raises LeaseLost, or the database an error.
EnterRunning(w) ==
    /\ At(w, "claimed")
    /\ \/ \E d \in Delay : MarkRunning(worker[w].job, d) /\ Goto(w, "resolve")
       \/ Raise(w) /\ UNCHANGED vars
    /\ UNCHANGED <<thread, workspaces>>

\* Snapshot, diff and manifest are found and the heartbeat thread is started,
\* or the error becomes a diagnostic capture.
Resolve(w) ==
    /\ At(w, "resolve")
    /\ \/ /\ thread' = [thread EXCEPT ![worker[w].job] = [@ EXCEPT !.pc = "waiting"]]
          /\ Goto(w, "prepare")
       \/ /\ \E o \in Diagnostic \cap Outcome : Yield(w, o)
          /\ UNCHANGED thread
    /\ UNCHANGED <<vars, workspaces>>

\* prepare_workspace makes the directory first, then copies and patches.
Prepare(w) ==
    /\ At(w, "prepare")
    /\ workspaces' = workspaces \cup {worker[w].job}
    /\ \/ Goto(w, "build")
       \/ \E o \in Diagnostic \cap Outcome : Yield(w, o)
    /\ UNCHANGED <<vars, thread>>

\* The build command, if there is one.  A failure is an invalid evaluation.
Build(w) ==
    /\ At(w, "build")
    /\ \/ Goto(w, "execute")
       \/ "invalid_evaluation" \in Outcome /\ Yield(w, "invalid_evaluation")
       \/ Raise(w)
    /\ UNCHANGED <<vars, thread, workspaces>>

\* Mutant: the state of the capture is taken for an outcome.
ExecuteYieldsTimeout(w) ==
    /\ At(w, "execute")
    /\ \E o \in Outcome \cup {"timeout"} : Yield(w, o)
    /\ UNCHANGED <<vars, thread, workspaces>>

\* The verification command; what it left behind decides the outcome.
Execute(w) ==
    /\ At(w, "execute")
    /\ \/ \E o \in Outcome : Yield(w, o)
       \/ Raise(w)
    /\ UNCHANGED <<vars, thread, workspaces>>

SetStop(w) ==
    thread' = [thread EXCEPT ![worker[w].job] = [@ EXCEPT !.stop = TRUE]]

StopHeartbeat(w) ==
    /\ At(w, "stop")
    /\ SetStop(w)
    /\ Goto(w, "join")
    /\ UNCHANGED <<vars, workspaces>>

\* join(timeout) outlasts a thread that sleeps and was told to stop.  It does
\* not outlast one that is inside the database, or was not told.
Joined(w) ==
    LET t == thread[worker[w].job] IN ~(t.pc = "waiting" /\ t.stop)

JoinHeartbeat(w) ==
    /\ At(w, "join")
    /\ Joined(w)
    /\ Goto(w, "collect")
    /\ UNCHANGED <<vars, thread, workspaces>>

\* The artifacts are stored and registered and the capture is parsed.
Collect(w) ==
    /\ At(w, "collect")
    /\ Goto(w, "commit") \/ Raise(w)
    /\ UNCHANGED <<vars, thread, workspaces>>

\* Mutant: the clock is read before conn_lock is waited for.
ReadClockBeforeLock(w) ==
    /\ At(w, "commit")
    /\ \E d \in Delay :
          worker' = [worker EXCEPT ![w] = [@ EXCEPT !.pc = "committing", !.age = d]]
    /\ UNCHANGED <<vars, thread, workspaces>>

\* conn_lock is taken and the clock is read.
ReadClock(w) ==
    /\ At(w, "commit")
    /\ worker' = [worker EXCEPT ![w] = [@ EXCEPT !.pc = "committing", !.age = 0]]
    /\ UNCHANGED <<vars, thread, workspaces>>

\* complete(); what it returns is not looked at.  Or it raises.
CompleteOne(w) ==
    /\ At(w, "committing")
    /\ \/ /\ Complete(worker[w].job, worker[w].job, worker[w].outcome, worker[w].age)
          /\ worker' = [worker EXCEPT ![w] = [@ EXCEPT !.pc = "finally", !.age = 0]]
       \/ /\ worker' = [worker EXCEPT ![w] =
                [@ EXCEPT !.pc = "finally", !.age = 0, !.again = FALSE]]
          /\ UNCHANGED vars
    /\ UNCHANGED <<thread, workspaces>>

\* Mutant: stop_heartbeat is set at the end of the execution only.
FinallyForgetsStop(w) ==
    /\ At(w, "finally")
    /\ Goto(w, "leave")
    /\ UNCHANGED <<vars, thread, workspaces>>

Finally(w) ==
    /\ At(w, "finally")
    /\ SetStop(w)
    /\ Goto(w, "leave")
    /\ UNCHANGED <<vars, workspaces>>

\* The second join and cleanup_attempt; run_one returns or raises.  The loop of
\* run_until_terminal goes on, unless max_iterations is reached or run_one was
\* called alone.
Leave(w) ==
    /\ At(w, "leave")
    /\ Joined(w)
    /\ workspaces' = workspaces \ {worker[w].job}
    /\ \E b \in {worker[w].again, FALSE} :
          worker' = [worker EXCEPT ![w] = [Idle EXCEPT !.again = b]]
    /\ UNCHANGED <<vars, thread>>

MainStep(w) ==
    \/ ClaimOne(w) \/ ClaimNothing(w) \/ EnterRunning(w) \/ Resolve(w)
    \/ Prepare(w) \/ Build(w) \/ Execute(w) \/ StopHeartbeat(w)
    \/ JoinHeartbeat(w) \/ Collect(w) \/ ReadClock(w) \/ CompleteOne(w)
    \/ Finally(w) \/ Leave(w)

-----------------------------------------------------------------------------
(* _heartbeat_worker, the thread of attempt h *)

ThreadGoto(h, p) ==
    thread' = [thread EXCEPT ![h] = [@ EXCEPT !.pc = p, !.age = 0]]

\* The interval passes and hb_time is read.
Wake(h) ==
    /\ thread[h].pc = "waiting"
    /\ ~thread[h].stop
    /\ ThreadGoto(h, "ready")
    /\ UNCHANGED <<vars, worker, workspaces>>

SeeStop(h) ==
    /\ thread[h].pc = "waiting"
    /\ thread[h].stop
    /\ ThreadGoto(h, "gone")
    /\ UNCHANGED <<vars, worker, workspaces>>

LockFree(h) == \A w \in Worker : ~(At(w, "committing") /\ worker[w].job = h)

\* Mutant: hb_time is compared, but with the lease of whoever holds the job.
BeatAnyLease(h) ==
    /\ thread[h].pc = "ready"
    /\ LockFree(h)
    /\ jobs[attempts[h].job_id].state \in Active
    /\ jobs' = [jobs EXCEPT ![attempts[h].job_id] =
                   [@ EXCEPT !.lease_left = LeaseMs - thread[h].age]]
    /\ ThreadGoto(h, "waiting")
    /\ UNCHANGED <<attempts, runs, worker, workspaces>>

Beat(h) ==
    /\ thread[h].pc = "ready"
    /\ LockFree(h)
    /\ Heartbeat(h, thread[h].age)
    /\ ThreadGoto(h, "waiting")
    /\ UNCHANGED <<worker, workspaces>>

\* heartbeat() raises LeaseLost: lease_lost is set and the thread ends.
BeatLost(h) ==
    /\ thread[h].pc = "ready"
    /\ LockFree(h)
    /\ ~HoldsLease(h, thread[h].age)
    /\ thread' = [thread EXCEPT ![h] =
                     [@ EXCEPT !.pc = "gone", !.age = 0, !.lost = TRUE]]
    /\ UNCHANGED <<vars, worker, workspaces>>

\* Any other exception ends the thread and tells nobody.
BeatError(h) ==
    /\ thread[h].pc = "ready"
    /\ ThreadGoto(h, "gone")
    /\ UNCHANGED <<vars, worker, workspaces>>

ThreadStep(h) == Wake(h) \/ SeeStop(h) \/ Beat(h) \/ BeatLost(h) \/ BeatError(h)

-----------------------------------------------------------------------------
(* The environment *)

\* Whoever operates process w calls run_until_terminal or run_one in it: the
\* first time, or after the last call returned or raised.
Start(w) ==
    /\ At(w, "idle") /\ ~worker[w].again
    /\ worker' = [worker EXCEPT ![w] = [Idle EXCEPT !.again = TRUE]]
    /\ UNCHANGED <<vars, thread, workspaces>>

\* Process w dies, its threads with it; another is started in its place.
\* Whatever it had on disk stays.
Crash(w) ==
    /\ worker[w] # Idle \/ \E h \in AttemptId : /\ thread[h].owner = w
                                                /\ thread[h].pc \in {"waiting", "ready"}
    /\ worker' = [worker EXCEPT ![w] = Idle]
    /\ thread' = [h \in AttemptId |->
          IF thread[h].owner = w THEN [thread[h] EXCEPT !.pc = "gone", !.age = 0]
                                 ELSE thread[h]]
    /\ UNCHANGED <<vars, workspaces>>

\* The controller calls reap_expired and request_cancel.
Reap ==
    /\ \E m \in ReapArgs, d \in Delay : ReapExpired(m, d)
    /\ UNCHANGED localVars

Cancel ==
    /\ \E r \in Run : RequestCancel(r)
    /\ UNCHANGED localVars

\* Time passes, for the leases and for the clock readings in flight.
PassTime ==
    /\ Tick
    /\ \A w \in Worker : At(w, "committing") => worker[w].age < MaxDelay
    /\ \A h \in AttemptId : thread[h].pc = "ready" => thread[h].age < MaxDelay
    /\ worker' = [w \in Worker |->
          IF At(w, "committing") THEN [worker[w] EXCEPT !.age = @ + 1] ELSE worker[w]]
    /\ thread' = [h \in AttemptId |->
          IF thread[h].pc = "ready" THEN [thread[h] EXCEPT !.age = @ + 1] ELSE thread[h]]
    /\ UNCHANGED workspaces

SystemInit ==
    /\ Init
    /\ worker = [w \in Worker |-> Idle]
    /\ thread = [h \in AttemptId |->
          [pc |-> "none", age |-> 0, stop |-> FALSE, lost |-> FALSE, owner |-> Nil]]
    /\ workspaces = {}

SystemNext ==
    \/ \E w \in Worker : MainStep(w) \/ Start(w) \/ Crash(w)
    \/ \E h \in AttemptId : ThreadStep(h)
    \/ Reap
    \/ Cancel
    \/ PassTime

SystemSpec == SystemInit /\ [][SystemNext]_allVars

\* A claim that gets a job, or sweeps those of a cancelled run.
ClaimWorks(w) == (ClaimOne(w) \/ ClaimNothing(w)) /\ vars' # vars

\* The threads of a live process are scheduled, subprocesses are bounded by
\* their timeouts, and time passes.  Two things that no code under src/ does are
\* assumed of the operator: reap_expired is called again and again, and a worker
\* whose loop ended is started again (Start).  SF: when there is something to
\* claim again and again, claim() does not raise every time.
\* Crashes and cancellations may or may not come.
Fairness ==
    /\ \A w \in Worker : WF_allVars(MainStep(w)) /\ SF_allVars(ClaimWorks(w))
    /\ \A w \in Worker : WF_allVars(Start(w))
    /\ \A h \in AttemptId : WF_allVars(ThreadStep(h))
    /\ WF_allVars(Reap)
    /\ WF_allVars(PassTime)

FairSpec == SystemSpec /\ Fairness

-----------------------------------------------------------------------------
(* Properties *)

\* The workers' and threads' locals have their types.
WorkerTypeOK ==
    /\ worker \in [Worker -> WorkerState]
    /\ thread \in [AttemptId -> ThreadState]
    /\ workspaces \subseteq AttemptId

\* run_one's finally: a heartbeat thread that nobody has told to stop belongs
\* to a run_one still under way.  Otherwise it would renew the lease of an
\* attempt nobody works on, and the reaper would never free the job.
HeartbeatsEndWithRun ==
    \A h \in AttemptId :
        thread[h].pc \in {"waiting", "ready"} /\ ~thread[h].stop =>
            \E w \in Worker : worker[w].job = h /\ ~At(w, "leave")

\* "After lease loss ... never an authoritative result": once the heartbeat of
\* an attempt has seen LeaseLost, complete() never makes that attempt
\* authoritative, although run_one does not consult lease_lost before it.
LostLeaseNeverCommits ==
    [][\A a \in AttemptId : thread[a].lost =>
          /\ attempts[a] # Nil
          /\ attempts'[a].disposition = "authoritative" =>
                attempts[a].disposition = "authoritative"]_allVars

\* Every step of the workers, threads and controller is a step of the queue's
\* specification, or leaves the tables alone.
ImplementsQueue == Spec

\* Every run ends, if somebody goes on calling the worker's loop and the reaper:
\* whatever raises, crashes, expires or is lost on the way, the jobs are retried
\* until they are decided or their budget is spent.
RunsFinish == \A r \in Run : <>(runs[r].state \in FinalRun)

\* The module docstring of worker.py: "After lease loss: terminate execution".
\* No command is started for an attempt whose heartbeat has seen LeaseLost.
LostLeaseStartsNothing ==
    [][\A w \in Worker :
          worker'[w].pc = "execute" /\ worker[w].pc # "execute" =>
              ~thread[worker[w].job].lost]_allVars

-----------------------------------------------------------------------------
(* The inductive invariant. *)

\* A run_one under way has an attempt of its own, known to the queue.
HandleInv ==
    /\ \A w \in Worker :
          IF At(w, "idle") THEN worker[w].job = Nil
          ELSE /\ worker[w].job \in Claimed
               /\ thread[worker[w].job].owner = w
    /\ \A v, w \in Worker : worker[v].job = worker[w].job => v = w \/ At(w, "idle")
    /\ \A w \in Worker :
          /\ At(w, "claimed") \/ At(w, "resolve") => thread[worker[w].job].pc = "none"
          /\ worker[w].pc \in {"stop", "join", "collect", "commit", "committing"} =>
                worker[w].outcome \in Outcome

\* A thread was started by a run_one, and a thread that lost its lease is gone.
ThreadInv ==
    \A h \in AttemptId :
        /\ thread[h].pc # "none" \/ thread[h].owner # Nil => h \in Claimed
        /\ thread[h].lost => thread[h].pc = "gone"

\* A lease seen as lost is expired if the attempt is still on the row, and
\* expired for the clock reading that complete() is about to use, too.
LostInv ==
    \A a \in Claimed :
        LET row == jobs[attempts[a].job_id]
        IN  thread[a].lost /\ row.attempt_id = a /\ row.state \in Active =>
              /\ row.lease_left <= 0
              /\ \A w \in Worker : At(w, "committing") /\ worker[w].job = a =>
                    row.lease_left + worker[w].age <= 0

\* complete() is called once per claim: the run_one of a quarantined attempt is
\* past it.
QuarantineInv ==
    \A w \in Worker :
        ~At(w, "idle") /\ attempts[worker[w].job].disposition = "stale" =>
            worker[w].pc \in {"finally", "leave"}

\* What every step of the workers, their threads and the controller keeps.
WorkerInv ==
    /\ WorkerTypeOK
    /\ HandleInv
    /\ ThreadInv
    /\ LostInv
    /\ HeartbeatsEndWithRun

=============================================================================
