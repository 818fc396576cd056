---------------------------- MODULE MatrixProofs ----------------------------
(***************************************************************************)
(* Proofs about AcceptanceMatrix, for any plan, any number of repetitions  *)
(* and any interleaving of the two reads with the queue: what a matrix     *)
(* once decided stands.                                                    *)
(***************************************************************************)
EXTENDS AcceptanceMatrix, JobQueueProofs

-----------------------------------------------------------------------------
(* The attempts of a repetition are the attempts of its job. *)

\* expand(): the repetitions of a cell are jobs of the audit.
LEMMA PlanFacts ==
    /\ \A j \in JobsOf(Audit) : /\ j \in Job /\ RunOf[j] = Audit
                                /\ CellOf[j] \in Cells /\ RepetitionOf[j] \in Repetition
    /\ \A c \in Cells, n \in Repetition :
          \E j \in JobsOf(Audit) : CellOf[j] = c /\ RepetitionOf[j] = n
BY PlanAssumption DEF JobsOf, Cells

\* repetition_to_attempts groups by job.
LEMMA RepIsJob ==
    ASSUME TypeOK, NEW j \in JobsOf(Audit)
    PROVE  RepAttempts(CellOf[j], RepetitionOf[j]) = AttemptsOf(j)
<1>1. \A a \in Claimed : attempts[a] \in AttemptRow /\ attempts[a].job_id \in Job
  BY ClaimedFacts
<1>2. \A i \in Job : RunOf[i] = Audit /\ CellOf[i] = CellOf[j]
                        /\ RepetitionOf[i] = RepetitionOf[j] <=> i = j
  BY PlanAssumption, PlanFacts DEF JobsOf
<1> QED BY <1>1, <1>2 DEF RepAttempts, AttemptsOf

\* The last claim of a job is found by max over the fences.
LEMMA LatestFacts ==
    ASSUME IInv, NEW j \in Job
    PROVE  /\ AttemptsOf(j) # {} => Latest(AttemptsOf(j)) \in AttemptsOf(j)
           /\ \A a \in AttemptsOf(j) : Latest({a}) = a
<1>1. jobs[j].fence \in Nat
  BY DEF IInv, TypeOK, JobRow
<1>2. \A a \in AttemptsOf(j) : attempts[a].fence \in 1 .. jobs[j].fence
  BY DEF IInv, FenceInv
<1>3. ASSUME AttemptsOf(j) # {} PROVE Latest(AttemptsOf(j)) \in AttemptsOf(j)
  <2>1. jobs[j].fence \in 1 .. jobs[j].fence
    BY <1>1, <1>2, <1>3
  <2>2. PICK m \in AttemptsOf(j) : attempts[m].fence = jobs[j].fence
    BY <2>1 DEF IInv, FenceInv
  <2>3. \A b \in AttemptsOf(j) : attempts[b].fence <= attempts[m].fence
    BY <1>1, <1>2, <2>2
  <2> QED BY <2>3 DEF Latest
<1>4. ASSUME NEW a \in AttemptsOf(j) PROVE Latest({a}) = a
  <2>1. attempts[a].fence <= attempts[a].fence
    BY <1>1, <1>2
  <2> QED BY <2>1 DEF Latest
<1> QED BY <1>3, <1>4

-----------------------------------------------------------------------------
(* What the reducer makes of one repetition, and of one cell. *)

\* A repetition whose job has a verdict is represented by it; any other is
\* pending, and represented, if at all, by an attempt still at work.
RepetitionsFollow ==
    \A j \in JobsOf(Audit) :
        LET a == SelectedAttempt(CellOf[j], RepetitionOf[j])
            o == RepetitionOutcome(CellOf[j], RepetitionOf[j])
            v == jobs[j].selected_attempt_id
        IN  /\ a \in AttemptId \cup {Nil}
            /\ v # Nil => a = v /\ o = attempts[v].outcome /\ o \in Verdict
            /\ v = Nil => o = "pending" /\ (a # Nil => jobs[j].state \in Active)

\* complete() and aggregate_cell select alike.
LEMMA RepetitionsFollowQueue == IInv /\ ActiveIsOpen => RepetitionsFollow
<1> SUFFICES ASSUME IInv, ActiveIsOpen, NEW j \in JobsOf(Audit)
             PROVE  LET a == SelectedAttempt(CellOf[j], RepetitionOf[j])
                        o == RepetitionOutcome(CellOf[j], RepetitionOf[j])
                        v == jobs[j].selected_attempt_id
                    IN  /\ a \in AttemptId \cup {Nil}
                        /\ v # Nil => a = v /\ o = attempts[v].outcome /\ o \in Verdict
                        /\ v = Nil => o = "pending" /\ (a # Nil => jobs[j].state \in Active)
  BY DEF RepetitionsFollow
<1> DEFINE c == CellOf[j]
           n == RepetitionOf[j]
           v == jobs[j].selected_attempt_id
           all == AttemptsOf(j)
           auth == {a \in all : attempts[a].disposition = "authoritative"}
<1>1. j \in Job /\ RepAttempts(c, n) = all
  BY RepIsJob, PlanFacts DEF IInv
<1>2. SelectedAttempt(c, n) =
        IF auth # {} THEN Latest(auth)
        ELSE IF all = {} THEN Nil
        ELSE IF attempts[Latest(all)].disposition \in {"stale", "abandoned"} THEN Nil
        ELSE Latest(all)
  BY <1>1 DEF SelectedAttempt
<1>3. \A a \in all : /\ a \in Claimed /\ a \in AttemptId /\ a # Nil
                     /\ attempts[a].job_id = j /\ attempts[a] \in AttemptRow
  BY NilAssumption, ClaimedFacts DEF AttemptsOf, Claimed, IInv
<1>4. \A a \in auth : v = a
  BY <1>3 DEF IInv, VerdictIntegrity
<1>5. CASE v # Nil
  <2>1. v \in all /\ attempts[v].disposition = "authoritative"
    BY <1>1, <1>5 DEF IInv, VerdictIntegrity
  <2>2. auth = {v}
    BY <1>4, <2>1
  <2>3. SelectedAttempt(c, n) = v
    BY <1>1, <1>2, <2>1, <2>2, LatestFacts
  <2>4. attempts[v].outcome \in Verdict /\ attempts[v].outcome # Nil
    BY <1>3, <2>1, NilAssumption DEF IInv, AttemptRowCheck, Verdict
  <2>5. RepetitionOutcome(c, n) = attempts[v].outcome
    BY <1>5, <2>3, <2>4 DEF RepetitionOutcome
  <2> QED BY <1>3, <1>5, <2>1, <2>3, <2>4, <2>5
<1>6. CASE v = Nil
  <2>1. auth = {}
    BY <1>3, <1>4, <1>6
  <2>2. CASE all = {}
    <3>1. SelectedAttempt(c, n) = Nil
      BY <1>2, <2>1, <2>2
    <3> QED BY <1>6, <3>1 DEF RepetitionOutcome
  <2>3. CASE all # {}
    <3> DEFINE b == Latest(all)
    <3>1. b \in all /\ b \notin auth
      BY <1>1, <2>1, <2>3, LatestFacts
    <3>2. SelectedAttempt(c, n) =
            IF attempts[b].disposition \in {"stale", "abandoned"} THEN Nil ELSE b
      BY <1>2, <2>1, <2>3
    <3> HIDE DEF b
    <3>3. CASE attempts[b].disposition \in {"stale", "abandoned"}
      <4>1. SelectedAttempt(c, n) = Nil
        BY <3>2, <3>3
      <4> QED BY <1>6, <4>1 DEF RepetitionOutcome
    <3>4. CASE attempts[b].disposition \notin {"stale", "abandoned"}
      <4>1. attempts[b].disposition = "active"
        BY <1>3, <3>1, <3>4 DEF AttemptRow, Disposition
      <4>2. SelectedAttempt(c, n) = b /\ b \in Claimed /\ b \in AttemptId /\ b # Nil
        BY <1>3, <3>1, <3>2, <3>4
      <4>3. jobs[j].state \in Active
        BY <1>3, <3>1, <4>1, <4>2 DEF IInv, ActiveAttemptIsCurrent
      <4>4. attempts[b].outcome = Nil
        BY <4>1, <4>2 DEF ActiveIsOpen
      <4>5. RepetitionOutcome(c, n) = "pending"
        BY <4>2, <4>4 DEF RepetitionOutcome
      <4> QED BY <1>6, <4>2, <4>3, <4>5
    <3> QED BY <3>3, <3>4
  <2> QED BY <2>2, <2>3
<1> QED BY <1>5, <1>6


\* A cell is incomplete exactly while it is not decided, and then not graded.
CellsFollow ==
    \A c \in Cells :
        /\ AggregateCell(c) \in CellRecord
        /\ AggregateCell(c).incomplete <=> ~CellDecided(c)
        /\ AggregateCell(c).incomplete => AggregateCell(c).outcome = "invalid_evaluation"

\* The outcomes of the repetitions decide the outcome of the cell.
LEMMA CellOutcomeFacts ==
    ASSUME NEW S
    PROVE  /\ CellOutcome(S) \in {"accept", "reject", "flaky", "error", "invalid_evaluation"}
           /\ "pending" \in S => CellOutcome(S) = "invalid_evaluation"
           /\ CellOutcome(S) = "accept" => S = {"accept"}
           /\ CellOutcome(S) = "reject" => S = {"reject"}
BY DEF CellOutcome

\* A reduced cell has its type, grades only what is decided, and is incomplete
\* exactly while a repetition is not decided.
LEMMA CellsFollowQueue == RepetitionsFollow => CellsFollow
<1> SUFFICES ASSUME RepetitionsFollow, NEW c \in Cells
             PROVE  /\ AggregateCell(c) \in CellRecord
                    /\ AggregateCell(c).incomplete <=> ~CellDecided(c)
                    /\ AggregateCell(c).incomplete =>
                          AggregateCell(c).outcome = "invalid_evaluation"
  BY DEF CellsFollow
<1> DEFINE outcomes == {RepetitionOutcome(c, n) : n \in Repetition}
           sel == [n \in Repetition |-> SelectedAttempt(c, n)]
           o == CellOutcome(outcomes)
           inc == "pending" \in outcomes
<1>1. AggregateCell(c) = [outcome |-> o, selected |-> sel, incomplete |-> inc]
  BY DEF AggregateCell
<1>2. sel \in [Repetition -> AttemptId \cup {Nil}]
  BY PlanFacts DEF RepetitionsFollow
<1>3. /\ o \in {"accept", "reject", "flaky", "error", "invalid_evaluation"}
      /\ inc => o = "invalid_evaluation"
  BY CellOutcomeFacts
<1>4. inc <=> ~CellDecided(c)
  <2>1. \A j \in JobsOf(Audit) :
          RepetitionOutcome(CellOf[j], RepetitionOf[j]) = "pending" <=>
              jobs[j].selected_attempt_id = Nil
    BY DEF RepetitionsFollow, Verdict
  <2>2. inc <=> \E n \in Repetition : RepetitionOutcome(c, n) = "pending"
    OBVIOUS
  <2>3. inc => ~CellDecided(c)
    BY <2>1, <2>2, PlanFacts DEF CellDecided
  <2>4. ~CellDecided(c) => inc
    BY <2>1, <2>2, PlanFacts DEF CellDecided
  <2> QED BY <2>3, <2>4
<1>5. inc \in BOOLEAN
  OBVIOUS
<1> HIDE DEF o, sel, inc
<1> QED BY <1>1, <1>2, <1>3, <1>4, <1>5 DEF CellRecord

\* The two together, now and after a step.
QueueSide == IInv /\ VerdictState /\ ActiveIsOpen

\* What a reader computes from the tables.
Followed == RepetitionsFollow /\ CellsFollow

\* Whatever the queue keeps, the reductions follow.
LEMMA QueueFollowed == QueueSide => Followed
BY RepetitionsFollowQueue, CellsFollowQueue DEF QueueSide, Followed

-----------------------------------------------------------------------------
(* A step of the queue. *)

\* A verdict is for ever: of the job, and of the attempt that gave it.
Settled ==
    \A j \in Job :
        /\ jobs[j].state \in Terminal => jobs'[j].state \in Terminal
        /\ jobs[j].selected_attempt_id # Nil =>
              /\ jobs'[j].selected_attempt_id = jobs[j].selected_attempt_id
              /\ attempts'[jobs[j].selected_attempt_id] =
                    attempts[jobs[j].selected_attempt_id]

\* Every step of the queue leaves the verdicts alone.
LEMMA StepSettles == IInv /\ [Next]_vars => Settled
<1> SUFFICES ASSUME IInv, [Next]_vars PROVE Settled
  OBVIOUS
<1>1. CASE UNCHANGED vars
  BY <1>1 DEF vars, Settled
<1>2. CASE Next
  <2>1. StepShape
    BY <1>2, NextShape
  <2>2. \A j \in Job : jobs[j].state \in Terminal => jobs'[j] = jobs[j]
    BY <2>1 DEF StepShape, Kept, Taken, Dropped, Reaped, Won, Active, Terminal
  <2>3. \A j \in Job : jobs[j].selected_attempt_id # Nil =>
          /\ jobs[j].state \in Terminal
          /\ jobs[j].selected_attempt_id \in Claimed
          /\ attempts[jobs[j].selected_attempt_id].disposition = "authoritative"
    BY DEF IInv, VerdictIntegrity, AttemptsOf
  <2> QED BY <2>1, <2>2, <2>3 DEF StepShape, Settled
<1> QED BY <1>1, <1>2

\* Every step of the queue keeps its invariant and the two facts on verdicts.
LEMMA QueueSideStep == QueueSide /\ [Next]_vars => QueueSide'
<1> SUFFICES ASSUME QueueSide, [Next]_vars PROVE QueueSide'
  OBVIOUS
<1>1. IInv /\ IInv'
  BY NextIInv DEF QueueSide
<1>2. CASE UNCHANGED vars
  BY <1>1, <1>2 DEF QueueSide, vars, VerdictState, ActiveIsOpen, Claimed
<1>3. CASE Next
  <2>1. StepShape /\ Settled
    BY <1>1, <1>3, NextShape, StepSettles
  <2>2. VerdictState'
    <3> SUFFICES ASSUME NEW j \in Job, jobs'[j].selected_attempt_id # Nil
                 PROVE  jobs'[j].state =
                          IF attempts'[jobs'[j].selected_attempt_id].outcome = "error"
                          THEN "FAILED" ELSE "DONE"
      BY DEF VerdictState
    <3>1. CASE jobs[j].selected_attempt_id # Nil
      <4>1. jobs[j].state \in Terminal
        BY <1>1, <3>1 DEF IInv, VerdictIntegrity
      <4>2. jobs'[j] = jobs[j]
        BY <2>1, <4>1 DEF StepShape, Kept, Taken, Dropped, Reaped, Won, Active, Terminal
      <4> QED BY <2>1, <3>1, <4>2 DEF Settled, QueueSide, VerdictState
    <3>2. CASE jobs[j].selected_attempt_id = Nil
      <4>1. Won(j)
        BY <2>1, <3>2 DEF StepShape, Kept, Taken, Dropped, Reaped
      <4> QED BY <4>1 DEF Won
    <3> QED BY <3>1, <3>2
  <2>3. ActiveIsOpen'
    <3> SUFFICES ASSUME NEW a \in AttemptId, attempts'[a] # Nil,
                        attempts'[a].disposition = "active"
                 PROVE  attempts'[a].outcome = Nil
      BY DEF ActiveIsOpen, Claimed
    <3>1. attempts'[a] = attempts[a] \/ Rewritten(attempts'[a])
      BY <2>1 DEF StepShape
    <3> QED BY <3>1 DEF QueueSide, ActiveIsOpen, Claimed, Rewritten
  <2> QED BY <1>1, <2>2, <2>3 DEF QueueSide
<1> QED BY <1>2, <1>3

\* A decided cell stays decided and is reduced to the same for ever.
LEMMA DecidedCellStays ==
    ASSUME Followed, Followed', Settled, NEW c \in Cells, CellDecided(c)
    PROVE  CellDecided(c)' /\ AggregateCell(c)' = AggregateCell(c)
<1>1. CellDecided(c)'
  BY PlanFacts DEF CellDecided, Settled
<1>2. ASSUME NEW n \in Repetition
      PROVE  /\ SelectedAttempt(c, n)' = SelectedAttempt(c, n)
             /\ RepetitionOutcome(c, n)' = RepetitionOutcome(c, n)
  <2>1. PICK j \in JobsOf(Audit) : CellOf[j] = c /\ RepetitionOf[j] = n
    BY PlanFacts
  <2> DEFINE v == jobs[j].selected_attempt_id
  <2>2. j \in Job /\ v # Nil
    BY <2>1, PlanFacts DEF CellDecided
  <2>3. v' = v /\ attempts'[v] = attempts[v]
    BY <2>2 DEF Settled
  <2>4. SelectedAttempt(c, n) = v /\ RepetitionOutcome(c, n) = attempts[v].outcome
    BY <2>1, <2>2 DEF Followed, RepetitionsFollow
  <2>5. SelectedAttempt(c, n)' = v' /\ RepetitionOutcome(c, n)' = attempts'[v'].outcome
    BY <2>1, <2>2, <2>3 DEF Followed, RepetitionsFollow
  <2> QED BY <2>3, <2>4, <2>5
<1>3. {RepetitionOutcome(c, n)' : n \in Repetition} = {RepetitionOutcome(c, n) : n \in Repetition}
  BY <1>2
<1>4. [n \in Repetition |-> SelectedAttempt(c, n)'] = [n \in Repetition |-> SelectedAttempt(c, n)]
  BY <1>2
<1>5. AggregateCell(c)' = AggregateCell(c)
  BY <1>3, <1>4, Zenon DEF AggregateCell
<1> QED BY <1>1, <1>5

-----------------------------------------------------------------------------
(* The invariant of the reducer. *)

\* Nothing read and no matrix: the invariant holds.
LEMMA ReducerInit == MatrixInit => ReducerInv
<1> SUFFICES ASSUME MatrixInit PROVE ReducerInv
  OBVIOUS
<1>1. IInv
  BY InitIInv DEF MatrixInit
<1>2. \A j \in Job : jobs[j].selected_attempt_id = Nil
  BY DEF MatrixInit, Init
<1>3. Claimed = {}
  BY DEF MatrixInit, Init, Claimed
<1>4. VerdictState /\ ActiveIsOpen
  BY <1>2, <1>3 DEF VerdictState, ActiveIsOpen
<1>5. MatrixTypeOK /\ seen.terminal = Nil /\ seen.cells = Nil /\ matrix = Nil
  BY DEF MatrixInit, Unread, MatrixTypeOK
<1>6. SeenInv /\ MatrixInv /\ SeenAfterMatrix
  BY <1>5 DEF SeenInv, MatrixInv, SeenAfterMatrix
<1> QED BY <1>1, <1>4, <1>5, <1>6 DEF ReducerInv

\* CellsStand of the next state, for cells reduced before the step.
StandNext(cells) ==
    \A c \in Cells :
        IF cells[c].incomplete THEN cells[c].outcome = "invalid_evaluation"
        ELSE CellDecided(c)' /\ cells[c] = AggregateCell(c)'

\* What is common to all steps: the queue takes one or none, and what was
\* reduced before it stands after it.
Moved ==
    /\ QueueSide /\ Followed /\ Followed' /\ QueueSide'
    /\ AllTerminal => AllTerminal'
    /\ \A cells : CellsStand(cells) => StandNext(cells)

\* Every step of the queue and the reducer moves them so.
LEMMA StepMoves == ReducerInv /\ [MatrixNext]_matrixVars => Moved
<1> SUFFICES ASSUME ReducerInv, [MatrixNext]_matrixVars PROVE Moved
  OBVIOUS
<1>1. [Next]_vars
  BY DEF MatrixNext, QueueStep, ReadJobs, ReadAttempts, BuildMatrix, matrixVars, vars
<1>2. QueueSide /\ IInv
  BY DEF ReducerInv, QueueSide
<1>3. QueueSide'
  BY <1>1, <1>2, QueueSideStep
<1>4. Followed /\ Followed'
  <2>1. (QueueSide => Followed) /\ (QueueSide => Followed)'
    BY QueueFollowed, PTL
  <2> QED BY <1>2, <1>3, <2>1
<1>5. Settled
  BY <1>1, <1>2, StepSettles
<1>6. AllTerminal => AllTerminal'
  BY <1>5, PlanFacts DEF AllTerminal, Settled
<1>7. ASSUME NEW cells, CellsStand(cells) PROVE StandNext(cells)
  BY <1>4, <1>5, <1>7, DecidedCellStays DEF CellsStand, StandNext
<1> QED BY <1>2, <1>3, <1>4, <1>6, <1>7 DEF Moved

\* Cells as the reducer makes them of the tables of the moment.
LEMMA ReadCells ==
    ASSUME IInv, Followed
    PROVE  /\ AggregateCells \in CellTable
           /\ \A c \in Cells : AggregateCells[c] = AggregateCell(c)
           /\ CellsStand(AggregateCells)
           /\ AllTerminal => CellsFinal(AggregateCells)
<1>1. \A c \in Cells : AggregateCells[c] = AggregateCell(c)
  BY DEF AggregateCells
<1>2. \A c \in Cells : /\ AggregateCell(c) \in CellRecord
                       /\ AggregateCell(c).incomplete <=> ~CellDecided(c)
                       /\ AggregateCell(c).incomplete =>
                             AggregateCell(c).outcome = "invalid_evaluation"
  BY DEF Followed, CellsFollow
<1>3. AggregateCells \in CellTable
  BY <1>2 DEF AggregateCells, CellTable
<1>4. CellsStand(AggregateCells)
  BY <1>1, <1>2 DEF CellsStand
<1>5. ASSUME AllTerminal, NEW c \in Cells, AggregateCell(c).incomplete
      PROVE  \E n \in Repetition : AggregateCell(c).selected[n] = Nil
  <2>1. PICK j \in JobsOf(Audit) : CellOf[j] = c /\ jobs[j].selected_attempt_id = Nil
    BY <1>2, <1>5 DEF CellDecided
  <2>2. jobs[j].state \notin Active
    BY <1>5 DEF AllTerminal, Terminal, Active
  <2>3. SelectedAttempt(c, RepetitionOf[j]) = Nil
    BY <2>1, <2>2 DEF Followed, RepetitionsFollow
  <2>4. AggregateCell(c).selected[RepetitionOf[j]] = Nil
    BY <2>3, PlanFacts DEF AggregateCell
  <2> QED BY <2>4, PlanFacts
<1> QED BY <1>1, <1>3, <1>4, <1>5 DEF CellsFinal

\* What does not touch the reducer's variables leaves its invariant alone.
LEMMA QueueKeepsReducer ==
    ASSUME ReducerInv, Moved, UNCHANGED <<seen, matrix>>
    PROVE  SeenInv' /\ MatrixInv' /\ SeenAfterMatrix'
<1>1. SeenInv'
  BY DEF ReducerInv, Moved, SeenInv, StandNext, CellsStand, CellsFinal
<1>2. MatrixInv'
  BY DEF ReducerInv, Moved, MatrixInv, StandNext, CellsStand
<1>3. SeenAfterMatrix'
  BY DEF ReducerInv, SeenAfterMatrix
<1> QED BY <1>1, <1>2, <1>3

\* Every step of the queue and the reducer keeps the invariant.
LEMMA ReducerStep == ReducerInv /\ [MatrixNext]_matrixVars => ReducerInv'
<1> SUFFICES ASSUME ReducerInv, [MatrixNext]_matrixVars PROVE ReducerInv'
  OBVIOUS
<1>1. Moved
  BY StepMoves
<1>2. QueueSide'
  BY <1>1 DEF Moved
<1>3. IInv /\ Followed
  BY <1>1 DEF Moved, QueueSide
<1> SUFFICES MatrixTypeOK' /\ SeenInv' /\ MatrixInv' /\ SeenAfterMatrix'
  BY <1>2 DEF ReducerInv, QueueSide
<1>4. ASSUME UNCHANGED <<seen, matrix>>
      PROVE  MatrixTypeOK' /\ SeenInv' /\ MatrixInv' /\ SeenAfterMatrix'
  <2>1. MatrixTypeOK'
    BY <1>4 DEF ReducerInv, MatrixTypeOK, CellTable, CellRecord, Cells
  <2> QED BY <1>1, <1>4, <2>1, QueueKeepsReducer
<1>5. CASE ReadJobs
  <2>1. /\ seen.terminal = Nil /\ seen' = [seen EXCEPT !.terminal = AllTerminal]
        /\ UNCHANGED vars /\ matrix' = matrix
    BY <1>5 DEF ReadJobs
  <2>2. AllTerminal \in BOOLEAN /\ AllTerminal' = AllTerminal
    BY <2>1 DEF AllTerminal, vars
  <2>3. /\ seen'.terminal = AllTerminal /\ seen'.cells = seen.cells
        /\ seen'.jobs_first = seen.jobs_first
    BY <2>1 DEF ReducerInv, MatrixTypeOK
  <2>4. MatrixTypeOK'
    BY <2>1, <2>2 DEF ReducerInv, MatrixTypeOK
  <2>5. SeenInv'
    BY <1>1, <2>1, <2>2, <2>3 DEF ReducerInv, SeenInv, Moved, StandNext, CellsStand, CellsFinal
  <2>6. MatrixInv'
    BY <1>1, <2>1, <2>2 DEF ReducerInv, Moved, MatrixInv, StandNext, CellsStand
  <2>7. SeenAfterMatrix'
    BY <2>1, <2>3 DEF ReducerInv, SeenAfterMatrix
  <2> QED BY <2>4, <2>5, <2>6, <2>7
<1>6. CASE ReadAttempts
  <2>1. /\ seen.cells = Nil
        /\ seen' = [seen EXCEPT !.cells = AggregateCells,
                                !.jobs_first = (seen.terminal # Nil)]
        /\ UNCHANGED vars /\ matrix' = matrix
    BY <1>6 DEF ReadAttempts
  <2>2. /\ seen'.terminal = seen.terminal /\ seen'.cells = AggregateCells
        /\ seen'.jobs_first = (seen.terminal # Nil)
    BY <2>1 DEF ReducerInv, MatrixTypeOK
  <2>3. /\ AggregateCells \in CellTable
        /\ \A c \in Cells : AggregateCells[c] = AggregateCell(c)
        /\ CellsStand(AggregateCells)
        /\ AllTerminal => CellsFinal(AggregateCells)
    BY <1>3, ReadCells
  <2>4. MatrixTypeOK'
    BY <2>1, <2>3 DEF ReducerInv, MatrixTypeOK
  <2>5. SeenInv'
    <3>1. CellsStand(seen.cells)'
      BY <1>1, <2>2, <2>3 DEF Moved, StandNext, CellsStand
    <3>2. seen.terminal # Nil /\ seen.terminal => AllTerminal /\ AllTerminal'
      BY <1>1 DEF ReducerInv, SeenInv, Moved
    <3>3. AllTerminal => CellsFinal(seen.cells)'
      BY <2>2, <2>3 DEF CellsFinal
    <3> QED BY <2>2, <3>1, <3>2, <3>3 DEF SeenInv
  <2>6. MatrixInv'
    BY <1>1, <2>1 DEF ReducerInv, Moved, MatrixInv, StandNext, CellsStand
  <2>7. SeenAfterMatrix'
    BY <2>1, <2>2, <2>3 DEF ReducerInv, MatrixInv, CellsStand, SeenAfterMatrix
  <2> QED BY <2>4, <2>5, <2>6, <2>7
<1>7. CASE BuildMatrix
  <2> DEFINE complete == IsComplete(seen.terminal, seen.cells)
  <2>1. /\ seen.terminal # Nil /\ seen.cells # Nil
        /\ matrix' = [cells |-> seen.cells, complete |-> complete,
                      jobs_first |-> seen.jobs_first]
        /\ seen' = [terminal |-> Nil, cells |-> Nil, jobs_first |-> FALSE]
    BY <1>7 DEF BuildMatrix, Unread
  <2>2. /\ seen.terminal \in BOOLEAN /\ seen.cells \in CellTable
        /\ seen.jobs_first \in BOOLEAN
    BY <2>1 DEF ReducerInv, MatrixTypeOK
  <2>3. complete \in BOOLEAN /\ (complete => seen.terminal)
    BY <2>2 DEF IsComplete
  <2>4. \A c \in Cells, n \in Repetition : complete => seen.cells[c].selected[n] # Nil
    BY DEF IsComplete
  <2> HIDE DEF complete
  <2>5. /\ matrix'.cells = seen.cells /\ matrix'.complete = complete
        /\ matrix'.jobs_first = seen.jobs_first
        /\ seen'.terminal = Nil /\ seen'.cells = Nil
    BY <2>1
  <2>6. MatrixTypeOK'
    BY <2>1, <2>2, <2>3 DEF MatrixTypeOK
  <2>7. SeenInv' /\ SeenAfterMatrix'
    BY <2>5 DEF SeenInv, SeenAfterMatrix
  <2>8. CellsStand(matrix.cells)'
    BY <1>1, <2>1, <2>5 DEF ReducerInv, SeenInv, Moved, StandNext, CellsStand
  <2>9. complete => AllTerminal'
    BY <1>1, <2>1, <2>3 DEF ReducerInv, SeenInv, Moved
  <2>10. complete /\ seen.jobs_first => \A c \in Cells : ~seen.cells[c].incomplete
    BY <2>1, <2>3, <2>4 DEF ReducerInv, SeenInv, CellsFinal
  <2>11. MatrixInv'
    BY <2>5, <2>8, <2>9, <2>10 DEF MatrixInv
  <2> QED BY <2>6, <2>7, <2>11
<1> QED BY <1>4, <1>5, <1>6, <1>7 DEF MatrixNext, QueueStep, matrixVars

\* What the reducer has read stands, whatever the queue does meanwhile.
THEOREM ReducerInvariance == MatrixSpec => []ReducerInv
BY ReducerInit, ReducerStep, PTL DEF MatrixSpec

\* A cell graded accept or reject stands on a verdict of every repetition.
THEOREM GradesStandOnVerdicts == MatrixSpec => []GradesAreVerdicts
<1>1. ReducerInv => Followed
  BY QueueFollowed DEF ReducerInv, QueueSide
<1>2. ReducerInv => GradesAreVerdicts
  <2> SUFFICES ASSUME ReducerInv, matrix # Nil, NEW j \in JobsOf(Audit),
                      matrix.cells[CellOf[j]].outcome \in {"accept", "reject"}
               PROVE
        LET cell == matrix.cells[CellOf[j]]
        IN  /\ jobs[j].state = "DONE"
            /\ jobs[j].selected_attempt_id = cell.selected[RepetitionOf[j]]
            /\ attempts[jobs[j].selected_attempt_id].outcome = cell.outcome
    BY DEF GradesAreVerdicts
  <2> DEFINE c == CellOf[j]
             n == RepetitionOf[j]
             v == jobs[j].selected_attempt_id
             outcomes == {RepetitionOutcome(c, k) : k \in Repetition}
  <2>1. j \in Job /\ c \in Cells /\ n \in Repetition
    BY PlanFacts
  <2>2. CellDecided(c) /\ matrix.cells[c] = AggregateCell(c)
    BY <2>1 DEF ReducerInv, MatrixInv, CellsStand
  <2>3. v # Nil
    BY <2>2 DEF CellDecided
  <2>4. SelectedAttempt(c, n) = v /\ RepetitionOutcome(c, n) = attempts[v].outcome
    BY <1>1, <2>3 DEF Followed, RepetitionsFollow
  <2>5. /\ AggregateCell(c).outcome = CellOutcome(outcomes)
        /\ AggregateCell(c).selected[n] = v
    BY <2>1, <2>4 DEF AggregateCell
  <2>6. RepetitionOutcome(c, n) \in outcomes
    BY <2>1
  <2>7. RepetitionOutcome(c, n) = matrix.cells[c].outcome
    BY <2>2, <2>5, <2>6, CellOutcomeFacts
  <2>8. jobs[j].state = "DONE"
    BY <2>1, <2>3, <2>4, <2>7 DEF ReducerInv, VerdictState
  <2> QED BY <2>2, <2>4, <2>5, <2>7, <2>8
<1> QED BY <1>2, ReducerInvariance, PTL

\* Once decided, a cell is the same in every later matrix.
THEOREM GradesStay == MatrixSpec => GradesAreStable
<1>1. ReducerInv /\ [MatrixNext]_matrixVars =>
        [matrix # Nil =>
            \A c \in Cells :
                LET cell == matrix.cells[c]
                IN  cell.outcome # "invalid_evaluation" \/ ~cell.incomplete =>
                        matrix'.cells[c] = cell]_matrixVars
  <2> SUFFICES ASSUME ReducerInv, MatrixNext, matrix # Nil, NEW c \in Cells,
                      \/ matrix.cells[c].outcome # "invalid_evaluation"
                      \/ ~matrix.cells[c].incomplete
               PROVE  matrix'.cells[c] = matrix.cells[c]
    OBVIOUS
  <2>1. ~matrix.cells[c].incomplete
    BY DEF ReducerInv, MatrixInv, CellsStand
  <2>2. CASE BuildMatrix
    BY <2>1, <2>2 DEF BuildMatrix, ReducerInv, SeenAfterMatrix
  <2>3. CASE ~BuildMatrix
    BY <2>3 DEF MatrixNext, QueueStep, ReadJobs, ReadAttempts
  <2> QED BY <2>2, <2>3
<1> QED BY <1>1, ReducerInvariance, PTL DEF MatrixSpec, GradesAreStable

\* A complete matrix is of a run that is over; read in the right order, each
\* of its repetitions has an outcome; and completeness is the queue's own.
THEOREM CompletenessIsSound == MatrixSpec => []CompleteMatrixIsDecided
<1>1. ReducerInv => Followed
  BY QueueFollowed DEF ReducerInv, QueueSide
<1>2. ReducerInv => CompleteMatrixIsDecided
  <2> SUFFICES ASSUME ReducerInv PROVE CompleteMatrixIsDecided
    OBVIOUS
  <2>1. Followed /\ IInv
    BY <1>1 DEF ReducerInv
  <2>2. ASSUME matrix # Nil, matrix.complete
        PROVE  /\ Cells # {} => runs[Audit].state \in FinalRun
               /\ matrix.jobs_first => \A c \in Cells : ~matrix.cells[c].incomplete
    <3>1. AllTerminal
      BY <2>2 DEF ReducerInv, MatrixInv
    <3>2. Cells # {} => runs[Audit].state \in FinalRun
      BY <2>1, <3>1, PlanAssumption DEF IInv, RunVerdict, AllTerminal, Cells
    <3> QED BY <2>2, <3>2 DEF ReducerInv, MatrixInv
  <2>3. \A c \in Cells, n \in Repetition :
          AggregateCells[c].selected[n] = SelectedAttempt(c, n)
    BY DEF AggregateCells, AggregateCell
  <2>4. ASSUME IsComplete(AllTerminal, AggregateCells), NEW j \in JobsOf(Audit)
        PROVE  jobs[j].selected_attempt_id # Nil
    <3>1. SelectedAttempt(CellOf[j], RepetitionOf[j]) # Nil /\ jobs[j].state \in Terminal
      BY <2>3, <2>4, PlanFacts DEF IsComplete, AllTerminal
    <3> QED BY <2>1, <3>1 DEF Followed, RepetitionsFollow, Terminal, Active
  <2>5. ASSUME \A j \in JobsOf(Audit) : jobs[j].selected_attempt_id # Nil
        PROVE  IsComplete(AllTerminal, AggregateCells)
    <3>1. AllTerminal
      BY <2>1, <2>5, PlanFacts DEF AllTerminal, IInv, VerdictIntegrity
    <3>2. \A c \in Cells, n \in Repetition : SelectedAttempt(c, n) # Nil
      BY <2>1, <2>5, PlanFacts DEF Followed, RepetitionsFollow
    <3> QED BY <2>3, <3>1, <3>2 DEF IsComplete
  <2>6. ASSUME runs[Audit].state = "COMPLETE"
        PROVE  \A j \in JobsOf(Audit) : jobs[j].selected_attempt_id # Nil
    <3>1. \A j \in JobsOf(Audit) : jobs[j].state = "DONE"
      BY <2>1, <2>6, PlanAssumption DEF IInv, RunVerdict
    <3> QED BY <2>1, <3>1, PlanFacts DEF IInv, VerdictIntegrity
  <2> QED BY <2>2, <2>4, <2>5, <2>6 DEF CompleteMatrixIsDecided
<1> QED BY <1>2, ReducerInvariance, PTL

=============================================================================
