-------------------------- MODULE MCExecutionLease --------------------------
(* Bounded instances of ExecutionLease. *)
EXTENDS ExecutionLease
=============================================================================
