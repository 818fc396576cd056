-------------------------- MODULE AcceptanceMatrix --------------------------
(***************************************************************************)
(* The reducer of execution/matrix.py over the tables of the job queue.    *)
(* build_matrix is given the job rows and the attempt rows of one audit as *)
(* two sequences, which its caller selects from the live database while    *)
(* workers, reaper and cancellation go on.  Between the two reads, and     *)
(* between a read and the use of the matrix, anything may happen.          *)
(*                                                                         *)
(* Of the jobs the reducer uses the coordinates, which never change, and   *)
(* whether all are terminal; of the attempts what the cells are reduced    *)
(* to.  That is what a read keeps.  The reducer is a function of its       *)
(* inputs, so reducing at the time of the read is the same as later.       *)
(***************************************************************************)
EXTENDS JobQueue

CONSTANTS
    Audit,              \* the run whose matrix is built
    Cell,               \* the triples task, case, verifier
    CellOf,             \* the cell of each job
    RepetitionOf,       \* jobs.repetition
    MaxRepetitions      \* audit_manifests.max_repetitions

Repetition == 0 .. MaxRepetitions - 1

\* expand() plans every repetition of every cell once.
ASSUME PlanAssumption ==
    /\ Audit \in Run
    /\ MaxRepetitions \in Nat \ {0}
    /\ CellOf \in [Job -> Cell]
    /\ RepetitionOf \in [Job -> Repetition]
    /\ \A i, j \in JobsOf(Audit) :
          CellOf[i] = CellOf[j] /\ RepetitionOf[i] = RepetitionOf[j] => i = j
    /\ \A i \in JobsOf(Audit), n \in Repetition :
          \E j \in JobsOf(Audit) : CellOf[j] = CellOf[i] /\ RepetitionOf[j] = n

VARIABLES
    seen,               \* what has been read for the matrix being built
    matrix              \* the matrix built last, Nil before the first

matrixVars == <<jobs, attempts, runs, seen, matrix>>

-----------------------------------------------------------------------------
(* aggregate_cell *)

Cells == {CellOf[j] : j \in JobsOf(Audit)}

\* repetition_to_attempts.
RepAttempts(c, n) ==
    {a \in Claimed :
        LET j == attempts[a].job_id
        IN  RunOf[j] = Audit /\ CellOf[j] = c /\ RepetitionOf[j] = n}

\* max by fence; the attempts of one repetition never share one.
Latest(S) == CHOOSE a \in S : \A b \in S : attempts[b].fence <= attempts[a].fence

\* The attempt that stands for a repetition, Nil if none does.
SelectedAttempt(c, n) ==
    LET all == RepAttempts(c, n)
        authoritative == {a \in all : attempts[a].disposition = "authoritative"}
    IN  IF authoritative # {} THEN Latest(authoritative)
        ELSE IF all = {} THEN Nil
        ELSE IF attempts[Latest(all)].disposition \in {"stale", "abandoned"} THEN Nil
        ELSE Latest(all)

RepetitionOutcome(c, n) ==
    LET a == SelectedAttempt(c, n)
    IN  IF a = Nil THEN "pending"
        ELSE IF attempts[a].outcome = Nil THEN "pending"
        ELSE attempts[a].outcome

\* Mutant: one repetition that can be graded is enough.
CellOutcomeLenient(outcomes) ==
    LET graded == outcomes \cap {"accept", "reject"}
    IN  IF graded = {"accept"} THEN "accept"
        ELSE IF graded = {"reject"} THEN "reject"
        ELSE IF graded # {} THEN "flaky"
        ELSE "invalid_evaluation"

\* Mutant: repetitions still to come are not waited for.
CellOutcomeEager(outcomes) ==
    LET completed == outcomes \ {"pending"}
    IN  IF completed = {"accept"} THEN "accept"
        ELSE IF completed = {"reject"} THEN "reject"
        ELSE IF completed = {"accept", "reject"} THEN "flaky"
        ELSE IF completed = {"error"} THEN "error"
        ELSE "invalid_evaluation"

\* The outcome of a cell from those of its repetitions: no majority voting.
CellOutcome(outcomes) ==
    IF "pending" \in outcomes THEN "invalid_evaluation"
    ELSE IF outcomes = {"accept"} THEN "accept"
    ELSE IF outcomes = {"reject"} THEN "reject"
    ELSE IF outcomes = {"accept", "reject"} THEN "flaky"
    ELSE IF outcomes = {"error"} THEN "error"
    ELSE "invalid_evaluation"

AggregateCell(c) ==
    LET outcomes == {RepetitionOutcome(c, n) : n \in Repetition}
    IN  [outcome |-> CellOutcome(outcomes),
         selected |-> [n \in Repetition |-> SelectedAttempt(c, n)],
         incomplete |-> "pending" \in outcomes]

AggregateCells == [c \in Cells |-> AggregateCell(c)]

-----------------------------------------------------------------------------
(* build_matrix *)

AllTerminal == \A j \in JobsOf(Audit) : jobs[j].state \in Terminal

\* Mutant: the states of the jobs are not looked at.
IsCompleteBySelection(terminal, cells) ==
    \A c \in Cells, n \in Repetition : cells[c].selected[n] # Nil

IsComplete(terminal, cells) ==
    /\ terminal
    /\ \A c \in Cells, n \in Repetition : cells[c].selected[n] # Nil

\* jobs_first only records the order of the two reads.
Unread == [terminal |-> Nil, cells |-> Nil, jobs_first |-> FALSE]

ReadJobs ==
    /\ seen.terminal = Nil
    /\ seen' = [seen EXCEPT !.terminal = AllTerminal]
    /\ UNCHANGED <<vars, matrix>>

ReadAttempts ==
    /\ seen.cells = Nil
    /\ seen' = [seen EXCEPT !.cells = AggregateCells,
                             !.jobs_first = (seen.terminal # Nil)]
    /\ UNCHANGED <<vars, matrix>>

BuildMatrix ==
    /\ seen.terminal # Nil /\ seen.cells # Nil
    /\ matrix' = [cells |-> seen.cells,
                  complete |-> IsComplete(seen.terminal, seen.cells),
                  jobs_first |-> seen.jobs_first]
    /\ seen' = Unread
    /\ UNCHANGED vars

MatrixInit == Init /\ seen = Unread /\ matrix = Nil

QueueStep == Next /\ UNCHANGED <<seen, matrix>>

MatrixNext == QueueStep \/ ReadJobs \/ ReadAttempts \/ BuildMatrix

MatrixSpec == MatrixInit /\ [][MatrixNext]_matrixVars

-----------------------------------------------------------------------------
(* Properties *)

\* aggregate_cell: a cell graded accept or reject stands on a verdict of every
\* repetition: its job is done, and the attempt selected is the one complete()
\* selected, with that outcome.  Whatever was read when, no grade rests on an
\* abandoned, quarantined or unfinished attempt.
GradesAreVerdicts ==
    matrix # Nil =>
        \A j \in JobsOf(Audit) :
            LET cell == matrix.cells[CellOf[j]]
            IN  cell.outcome \in {"accept", "reject"} =>
                  /\ jobs[j].state = "DONE"
                  /\ jobs[j].selected_attempt_id = cell.selected[RepetitionOf[j]]
                  /\ attempts[jobs[j].selected_attempt_id].outcome = cell.outcome

\* "No majority voting", and no second thoughts: once a matrix grades a cell,
\* calls it flaky or failed, or has an outcome for all its repetitions, every
\* later matrix has the same cell.
GradesAreStable ==
    [][matrix # Nil =>
          \A c \in Cells :
              LET cell == matrix.cells[c]
              IN  cell.outcome # "invalid_evaluation" \/ ~cell.incomplete =>
                      matrix'.cells[c] = cell]_matrixVars

\* build_matrix and the queue agree on what is finished.  A matrix called
\* complete has an outcome for each repetition of each cell, and its run is over;
\* it takes a caller that reads the jobs before the attempts: in the other order
\* only the run is known to be over.  (A plan without jobs has an empty matrix,
\* which counts as complete, and a run that nothing ever ends.)  And the matrix
\* of the tables as they are now is complete exactly when complete() has selected
\* an attempt for every job; in particular when the run is COMPLETE.
CompleteMatrixIsDecided ==
    /\ matrix # Nil /\ matrix.complete =>
          /\ Cells # {} => runs[Audit].state \in FinalRun
          /\ matrix.jobs_first => \A c \in Cells : ~matrix.cells[c].incomplete
    /\ IsComplete(AllTerminal, AggregateCells) <=>
          \A j \in JobsOf(Audit) : jobs[j].selected_attempt_id # Nil
    /\ runs[Audit].state = "COMPLETE" => IsComplete(AllTerminal, AggregateCells)

-----------------------------------------------------------------------------
(* The inductive invariant. *)

CellRecord ==
    [outcome : {"accept", "reject", "flaky", "error", "invalid_evaluation"},
     selected : [Repetition -> AttemptId \cup {Nil}],
     incomplete : BOOLEAN]

CellTable == [Cells -> CellRecord]

MatrixTypeOK ==
    /\ seen \in [terminal : BOOLEAN \cup {Nil},
                 cells : CellTable \cup {Nil},
                 jobs_first : BOOLEAN]
    /\ matrix \in [cells : CellTable, complete : BOOLEAN, jobs_first : BOOLEAN] \cup {Nil}

\* A job that has a verdict is FAILED exactly if the verdict is an error.
VerdictState ==
    \A j \in Job : jobs[j].selected_attempt_id # Nil =>
        jobs[j].state = IF attempts[jobs[j].selected_attempt_id].outcome = "error"
                        THEN "FAILED" ELSE "DONE"

\* An attempt still at work has no outcome.
ActiveIsOpen ==
    \A a \in Claimed : attempts[a].disposition = "active" => attempts[a].outcome = Nil

\* Every repetition of cell c has its verdict.
CellDecided(c) ==
    \A j \in JobsOf(Audit) : CellOf[j] = c => jobs[j].selected_attempt_id # Nil

\* Cells reduced at some time in the past: one that was not incomplete then is
\* decided, and reduced now gives the same; the others were not graded.
CellsStand(cells) ==
    \A c \in Cells :
        IF cells[c].incomplete THEN cells[c].outcome = "invalid_evaluation"
        ELSE CellDecided(c) /\ cells[c] = AggregateCell(c)

\* Cells reduced when all jobs were known to be terminal: an attempt stands for
\* each repetition of a cell only if the cell is decided.
CellsFinal(cells) ==
    \A c \in Cells :
        cells[c].incomplete => \E n \in Repetition : cells[c].selected[n] = Nil

SeenInv ==
    /\ seen.terminal # Nil /\ seen.terminal => AllTerminal
    /\ seen.cells # Nil => CellsStand(seen.cells)
    /\ seen.cells # Nil /\ seen.jobs_first =>
          seen.terminal # Nil /\ (seen.terminal => CellsFinal(seen.cells))

MatrixInv ==
    /\ matrix # Nil => CellsStand(matrix.cells)
    /\ matrix # Nil /\ matrix.complete =>
          AllTerminal /\ (matrix.jobs_first => \A c \in Cells : ~matrix.cells[c].incomplete)

\* What is read after a matrix was built agrees with it where it was decided.
SeenAfterMatrix ==
    matrix # Nil /\ seen.cells # Nil =>
        \A c \in Cells : ~matrix.cells[c].incomplete => seen.cells[c] = matrix.cells[c]

\* The invariant of the reducer on top of the queue's: what was read, however
\* long ago, still stands where it was decided.
ReducerInv ==
    /\ IInv
    /\ VerdictState
    /\ ActiveIsOpen
    /\ MatrixTypeOK
    /\ SeenInv
    /\ MatrixInv
    /\ SeenAfterMatrix

=============================================================================
