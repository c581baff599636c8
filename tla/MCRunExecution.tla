--------------------------- MODULE MCRunExecution ---------------------------
(* Bounded instances of RunExecution. *)
EXTENDS RunExecution
=============================================================================
