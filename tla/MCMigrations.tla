---------------------------- MODULE MCMigrations ----------------------------
(***************************************************************************)
(* Two processes whose directories agree, differ by a release, hold an     *)
(* edited, a broken or a repeated version, or are not in order of version. *)
(***************************************************************************)
EXTENDS Migrations

MCFile(v, c) == [version |-> v, checksum |-> c]

MCDirectory ==
    {<<>>,
     <<MCFile(1, "a"), MCFile(2, "a")>>,
     <<MCFile(1, "a"), MCFile(2, "b"), MCFile(3, "a")>>,
     <<MCFile(1, "a"), MCFile(3, "a"), MCFile(2, "a")>>,
     <<MCFile(1, "a"), MCFile(2, "x")>>,
     <<MCFile(1, "a"), MCFile(1, "b")>>}

MCBroken == {MCFile(2, "x")}
MCRepeatable == {MCFile(1, "a"), MCFile(3, "a"), MCFile(2, "b")}

=============================================================================
