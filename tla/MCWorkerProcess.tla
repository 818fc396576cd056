--------------------------- MODULE MCWorkerProcess ---------------------------
(***************************************************************************)
(* Small instances of WorkerProcess for TLC.                               *)
(***************************************************************************)
EXTENDS WorkerProcess, TLC

MCOneRun == [j \in Job |-> "r1"]
MCBudget == [r \in Run |-> 2]

\* Attempt ids and workers are only compared for equality.
MCSymmetry == Permutations(AttemptId) \cup Permutations(Worker)

=============================================================================
