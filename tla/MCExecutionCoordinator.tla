----------------------- MODULE MCExecutionCoordinator -----------------------
(* Two Runs of two Threads, which share one slot; the first one's queue is *)
(* paused at times and its dispatch may end with its outcome unknown; the  *)
(* Runner of the second comes and goes.                                    *)
EXTENDS ExecutionCoordinator

MCThreadOf == [c \in Command |-> c]
MCIsRun == [c \in Command |-> TRUE]
MCPausable == {1}
MCAbsent == {2}
MCUncertain == {1}
=============================================================================
