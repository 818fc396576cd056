------------------------- MODULE MCAcceptanceMatrix -------------------------
(***************************************************************************)
(* Small instances of AcceptanceMatrix for TLC: one cell, two repetitions. *)
(***************************************************************************)
EXTENDS AcceptanceMatrix, TLC

MCOneRun == [j \in Job |-> "r1"]
MCBudget == [r \in Run |-> 2]
MCOneCell == [j \in Job |-> "cell"]
MCRepetition == [j \in Job |-> j - 1]

\* Attempt ids are only compared for equality.
MCSymmetry == Permutations(AttemptId)

=============================================================================
