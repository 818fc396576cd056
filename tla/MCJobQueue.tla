----------------------------- MODULE MCJobQueue -----------------------------
(***************************************************************************)
(* A small instance of JobQueue for TLC: two jobs of one run and one of    *)
(* another.                                                                *)
(***************************************************************************)
EXTENDS JobQueue, TLC

MCRunOf == 1 :> "r1" @@ 2 :> "r1" @@ 3 :> "r2"

\* Two attempts for the jobs of the first run, one for those of the second.
MCBudget == "r1" :> 2 @@ "r2" :> 1

\* Attempt ids are only compared for equality.
MCSymmetry == Permutations(AttemptId)

=============================================================================
