------------------------------ MODULE Triggers ------------------------------
(***************************************************************************)
(* The two halves of Triggers: the clocks that queue occurrences, module   *)
(* TriggerSchedule, and the dispatch that carries occurrences out, module  *)
(* TriggerDispatch.  They meet only in the rows of the occurrences.  The   *)
(* clocks let a row take any step the dispatch may make it take, and the   *)
(* dispatch takes no step to a row that is not among these, so each half   *)
(* is followed with the other one at rest.                                 *)
(***************************************************************************)
EXTENDS TriggerSchedule

CONSTANTS Occurrence, MaxBoot, MaxRestart, MaxFault

VARIABLES followed,  \* the half a behaviour is about: "clock" or "dispatch"
          row, command, dispatch, link, boot, owned, lost, net, taken, program, starts, said,
          restarts, faults

Dispatch == INSTANCE TriggerDispatch WITH occ <- row

ASSUME Bounds == Dispatch!DispatchBounds

dispatchVars == <<row, command, dispatch, link, boot, owned, lost, net, taken, program, starts,
                  said, restarts, faults>>
triggerVars == <<followed, vars, dispatchVars>>

TriggersInit == followed \in {"clock", "dispatch"} /\ Init /\ Dispatch!Init

TriggersNext ==
  \/ followed = "clock" /\ Next /\ UNCHANGED <<followed, dispatchVars>>
  \/ followed = "dispatch" /\ Dispatch!Next /\ UNCHANGED <<followed, vars>>

TriggersSpec ==
  /\ TriggersInit /\ [][TriggersNext]_triggerVars
  /\ followed = "clock" => WF_vars(Claim({}))
  /\ followed = "dispatch" => Dispatch!Fairness

-----------------------------------------------------------------------------
(* A program runs at most once per occurrence, and is recorded truly.      *)
ProgramsOnce == Dispatch!ProgramsOnce

(* The dispatch moves the rows only as the clocks expect.                  *)
TakesTableSteps == Dispatch!TakesTableSteps

(* What is due is claimed, and what is called running is run or comes to   *)
(* its end.                                                                *)
TriggersGoOn == DueIsHandled /\ Dispatch!RunsOrEnds
=============================================================================
