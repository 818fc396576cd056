------------------------------ MODULE MCSandbox ------------------------------
(***************************************************************************)
(* A build that may print to stdout, a verification that prints up to two  *)
(* chunks and more than the cap to stdout, and one process that each may   *)
(* leave behind.  With cap 1 a chunk is cut, with cap 2 one fills the      *)
(* buffer.                                                                 *)
(***************************************************************************)
EXTENDS Sandbox, TLC

MCOutput == "build" :> ("stdout" :> 1 @@ "stderr" :> 0)
            @@ "verify" :> ("stdout" :> 3 @@ "stderr" :> 0)

MCForked == "build" :> {"escaped"} @@ "verify" :> {"member"}

=============================================================================
