--------------------------- MODULE MCArtifactStore ---------------------------
(***************************************************************************)
(* Small instances of ArtifactStore for TLC.                               *)
(***************************************************************************)
EXTENDS ArtifactStore, TLC

\* Writers of one kind are only compared for equality.
MCSymmetry == Permutations(Worker) \cup Permutations(Importer)

=============================================================================
