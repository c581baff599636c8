---------------------------- MODULE RunLifecycle ----------------------------
(***************************************************************************)
(* What the Host promises of the Runs of one Thread, whatever becomes of   *)
(* the connection, the Runner or the Host itself.  A Run waits, works, and *)
(* ends once.  The Runs of a Thread work one at a time and in order.  A Run*)
(* may go from work back to waiting, but not after somebody stopped it: a  *)
(* stopped Run is never worked on anew, and it ends.  RunExecution is shown*)
(* to implement this module.                                               *)
(***************************************************************************)
EXTENDS Integers

CONSTANT Run        \* the Thread's Runs: their ordinals

VARIABLES
  life,             \* what each Run is doing, or how it ended
  stopped           \* Runs somebody stopped

vars == <<life, stopped>>

Outcomes == {"completed", "failed", "interrupted"}
Ended(r) == life[r] \in Outcomes

TypeOK ==
  /\ life \in [Run -> {"waiting", "working"} \cup Outcomes]
  /\ stopped \subseteq Run

Init ==
  /\ life = [r \in Run |-> "waiting"]
  /\ stopped = {}

Start(r) ==
  /\ life[r] = "waiting" /\ r \notin stopped
  /\ \A q \in Run : q < r => Ended(q)
  /\ life' = [life EXCEPT ![r] = "working"]
  /\ UNCHANGED stopped

Return(r) ==
  /\ life[r] = "working" /\ r \notin stopped
  /\ life' = [life EXCEPT ![r] = "waiting"]
  /\ UNCHANGED stopped

(* A Run that waits ends with its stop. *)
Stop(r) ==
  /\ ~Ended(r) /\ r \notin stopped
  /\ stopped' = stopped \cup {r}
  /\ \/ life' = [life EXCEPT ![r] = "interrupted"]
     \/ life[r] = "working" /\ UNCHANGED life

End(r) ==
  /\ ~Ended(r)
  /\ \E outcome \in Outcomes : life' = [life EXCEPT ![r] = outcome]
  /\ UNCHANGED stopped

Next == \E r \in Run : Start(r) \/ Return(r) \/ Stop(r) \/ End(r)

Spec == Init /\ [][Next]_vars

-----------------------------------------------------------------------------
(* At most one Run of the Thread works, and every Run before it has ended  *)
(* (claimObservedCommand, the unique index on a Thread's active Run).      *)
InOrder ==
  \A q, r \in Run : q < r /\ life[r] = "working" => Ended(q)

(* A stopped Run works on until it ends, and never waits. *)
StoppedNeverWaits == \A r \in stopped : life[r] # "waiting"
=============================================================================
