--------------------------- MODULE MCRunnerProcess --------------------------
(* The Threads of the Runs, and the keys of their engines.  The second Run  *)
(* is of the other Thread: keeping its engine evicts the one the third     *)
(* waits for, or may not reuse.                                            *)
EXTENDS RunnerProcess
CONSTANTS t1, t2, k1, k2
MCThread == {t1, t2}
MCKey == {k1, k2}

MCInit ==
  /\ ProcessInit
  /\ thread = [r \in Run |-> IF r = 2 THEN t2 ELSE t1]
  /\ key \in {[r \in Run |-> IF r = 3 THEN k ELSE k1] : k \in MCKey}

MCSpec == MCInit /\ [][ProcessNext]_processVars /\ ProcessFairness
=============================================================================
