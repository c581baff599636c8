--------------------------- MODULE ExecutionLease ---------------------------
(***************************************************************************)
(* The execution lease of one Run, with the clock that RunExecution leaves *)
(* out.  The Host keeps when its lease ends (providerSessions              *)
(* leaseExpiresAt, packages/database), the Runner its own deadline         *)
(* (leaseDeadline, apps/runner runtime.ts).  A grant carries no time of the*)
(* Host's: the Runner measures it from a moment it chose itself, before    *)
(* the Host renewed.  Both clocks run at the same rate; the time between   *)
(* them does not matter, so there is one.                                  *)
(*                                                                         *)
(* Frames in flight are sets, read in any order and after any delay.  The  *)
(* Runner's timers are not late: what is due happens before time goes on.  *)
(***************************************************************************)
EXTENDS Integers, FiniteSets

CONSTANTS
  Lease,      \* executionLeaseMs: 90 s unless configured
  MarginCap,  \* the most leaseLeadMs takes off a lease: 5 s
  Watch,      \* period of the Runner's lease watchdog: 1 s
  Grace,      \* executionStopGraceMs: 3 s
  MaxTime,    \* bound of the model: the clock
  MaxFlight   \* bound of the model: frames in flight each way

ASSUME TimeAssumption ==
  /\ Lease \in Nat \ {0} /\ MarginCap \in Nat /\ Watch \in Nat \ {0} /\ Grace \in Nat
  /\ MaxTime \in Nat /\ MaxFlight \in Nat

(* leaseLeadMs: how far ahead a grant reaches. *)
Margin == IF Lease \div 4 < MarginCap THEN Lease \div 4 ELSE MarginCap
Lead_Whole == Lease
Lead == Lease - Margin

(* The margin covers the watchdog's period, as every lease the Host can be *)
(* configured with does.                                                   *)
ASSUME MarginAssumption == Margin >= Watch

VARIABLES
  now,        \* the clock
  hostLease,  \* when the Host's lease on the binding ends
  taken,      \* the Host has taken the Run back, and the lease with it
  link,       \* the connection
  toHost,     \* frames in flight to the Host
  toRunner,   \* frames in flight to the Runner
  phase,      \* the Run at the Runner
  deadline,   \* leaseDeadline
  granted,    \* leaseCorrelated: a grant of the Host has come
  watch,      \* when the lease watchdog runs next
  haltAt,     \* when the Runner ends a stopped execution's processes itself
  attachedAt  \* #attachRequestedAt: when this connection's inventory was taken

host == <<hostLease, taken>>
wires == <<link, toHost, toRunner>>
execution == <<phase, deadline, granted, watch, haltAt>>
vars == <<now, host, wires, execution, attachedAt>>

Time == 0..MaxTime
Horizon == 0..(MaxTime + Lease)

(* "sent" is an execute command on its way; "waiting" an admitted Run that *)
(* has not begun; "stopping" one whose abort gave its engine its grace;    *)
(* "gone" one whose processes have ended or are being ended.               *)
Phase == {"sent", "waiting", "acting", "stopping", "gone"}
Holding == {"waiting", "acting", "stopping"}

TypeOK ==
  /\ now \in Time
  /\ hostLease \in Horizon
  /\ taken \in BOOLEAN
  /\ link \in BOOLEAN
  /\ toHost \subseteq [type : {"heartbeat", "attach"}, at : Time, holds : BOOLEAN]
  /\ toRunner \subseteq [type : {"execute", "renewed", "attached", "revoked"}, at : Time]
  /\ phase \in Phase
  /\ deadline \in Horizon
  /\ granted \in BOOLEAN
  /\ watch \in 0..(MaxTime + Watch)
  /\ haltAt \in 0..(MaxTime + Grace)
  /\ attachedAt \in Time

(* The Host has bound and renewed, and has written the execute command. *)
Init ==
  /\ now = 0
  /\ hostLease = Lease /\ taken = FALSE
  /\ link = TRUE /\ toHost = {} /\ toRunner = {[type |-> "execute", at |-> 0]}
  /\ phase = "sent"
  /\ deadline = 0 /\ granted = FALSE /\ watch = 0 /\ haltAt = 0
  /\ attachedAt = 0

-----------------------------------------------------------------------------
(* Time does not pass a timer of the Runner that is due. *)
Due == \/ phase \in {"waiting", "acting"} /\ watch <= now
       \/ phase = "stopping" /\ haltAt <= now

Tick ==
  /\ now < MaxTime /\ ~Due
  /\ now' = now + 1
  /\ UNCHANGED <<host, wires, execution, attachedAt>>

-----------------------------------------------------------------------------
(* The Host. *)

Answer(f, frames) ==
  /\ Cardinality(toRunner \cup frames) <= MaxFlight
  /\ toHost' = toHost \ {f}
  /\ toRunner' = toRunner \cup frames
  /\ UNCHANGED <<now, link, execution, attachedAt>>

(* renewActiveExecutionBindings for a heartbeat, and its answer: a lease   *)
(* that ran out stays out, and is not answered.                            *)
HearHeartbeat ==
  \E f \in toHost :
    /\ f.type = "heartbeat"
    /\ IF ~taken /\ hostLease > now
       THEN /\ hostLease' = now + Lease
            /\ Answer(f, {[type |-> "renewed", at |-> f.at]})
       ELSE /\ Answer(f, {}) /\ hostLease' = hostLease
    /\ UNCHANGED taken

(* attachRunnerExecutions: the Run goes on with a fresh lease if the Runner*)
(* holds it and the lease stands, and is taken back otherwise.             *)
HearAttach ==
  \E f \in toHost :
    /\ f.type = "attach"
    /\ IF f.holds /\ ~taken /\ hostLease >= now
       THEN /\ hostLease' = now + Lease /\ UNCHANGED taken
            /\ Answer(f, {[type |-> "attached", at |-> 0]})
       ELSE /\ taken' = TRUE /\ UNCHANGED hostLease
            /\ Answer(f, {[type |-> "revoked", at |-> 0]})

(* recoverRunsWithExpiredExecutionBindings. *)
Sweep ==
  /\ ~taken /\ hostLease < now
  /\ taken' = TRUE
  /\ UNCHANGED <<now, hostLease, wires, execution, attachedAt>>

(* The connection is lost, and the frames on it. *)
Disconnect ==
  /\ link
  /\ link' = FALSE /\ toHost' = {} /\ toRunner' = {}
  /\ UNCHANGED <<now, host, execution, attachedAt>>

(* restartExecutionLeases: a Host that boots gives every binding its Run   *)
(* still has a fresh lease, an expired one too.                            *)
HostRestart ==
  /\ hostLease' = IF taken THEN hostLease ELSE now + Lease
  /\ link' = FALSE /\ toHost' = {} /\ toRunner' = {}
  /\ UNCHANGED <<now, taken, execution, attachedAt>>

-----------------------------------------------------------------------------
(* The Runner. *)

(* attachInventory opens every connection. *)
Connect ==
  /\ ~link
  /\ link' = TRUE
  /\ toHost' = {[type |-> "attach", at |-> now, holds |-> phase \in Holding]}
  /\ attachedAt' = now
  /\ UNCHANGED <<now, host, toRunner, execution>>

Heartbeat ==
  /\ link /\ phase \in Holding /\ Cardinality(toHost) < MaxFlight
  /\ toHost' = toHost \cup {[type |-> "heartbeat", at |-> now, holds |-> TRUE]}
  /\ UNCHANGED <<now, host, link, toRunner, execution, attachedAt>>

(* #admitExecution: a deadline of its own, and the watchdog, which may be  *)
(* running for other Runs already.                                         *)
Admit ==
  \E f \in toRunner :
    /\ f.type = "execute" /\ phase = "sent"
    /\ toRunner' = toRunner \ {f}
    /\ phase' = "waiting" /\ deadline' = now + Lead
    /\ \E first \in 1..Watch : watch' = now + first
    /\ UNCHANGED <<now, host, link, toHost, granted, haltAt, attachedAt>>

(* #grantLease: the first grant replaces the deadline taken at admission.  *)
Extended(reach) == IF granted /\ deadline > reach THEN deadline ELSE reach

GrantLease(reach) ==
  /\ deadline' = IF phase \in Holding THEN Extended(reach) ELSE deadline
  /\ granted' = (granted \/ phase \in Holding)

(* renewLeases and attach: what each grant is measured from. *)
Measured_Arrival(f) == now
Measured(f) == IF f.type = "renewed" THEN f.at ELSE attachedAt

HearGrant ==
  \E f \in toRunner :
    /\ f.type \in {"renewed", "attached"}
    /\ toRunner' = toRunner \ {f}
    /\ GrantLease(Measured(f) + Lead)
    /\ UNCHANGED <<now, host, link, toHost, phase, watch, haltAt, attachedAt>>

(* Aborting an execution: an engine that has begun gets its grace. *)
Abort ==
  IF phase = "acting" THEN phase' = "stopping" /\ haltAt' = now + Grace
  ELSE phase' = (IF phase = "waiting" THEN "gone" ELSE phase) /\ haltAt' = haltAt

(* revokeRuns, from the answer to the attach. *)
HearRevoked ==
  \E f \in toRunner :
    /\ f.type = "revoked"
    /\ toRunner' = toRunner \ {f}
    /\ Abort
    /\ UNCHANGED <<now, host, link, toHost, deadline, granted, watch, attachedAt>>

(* #enforceLeases. *)
Watchdog ==
  /\ phase \in {"waiting", "acting"} /\ watch <= now
  /\ watch' = now + Watch
  /\ IF deadline <= now THEN Abort ELSE UNCHANGED <<phase, haltAt>>
  /\ UNCHANGED <<now, host, wires, deadline, granted, attachedAt>>

(* #execute: only a granted lease lets the engine begin, and one that is   *)
(* over already ends the Run here.                                         *)
MayBegin_Admitted == phase = "waiting"
MayBegin == phase = "waiting" /\ granted

Begin ==
  /\ MayBegin
  /\ IF deadline <= now THEN Abort ELSE phase' = "acting" /\ haltAt' = haltAt
  /\ UNCHANGED <<now, host, wires, deadline, granted, watch, attachedAt>>

(* The engine ends by itself, winds down in its grace, or is ended by the  *)
(* Runner after it: #haltAfterGrace.                                       *)
End ==
  /\ phase \in {"acting", "stopping"}
  /\ phase' = "gone"
  /\ UNCHANGED <<now, host, wires, deadline, granted, watch, haltAt, attachedAt>>

Next ==
  \/ Tick
  \/ HearHeartbeat \/ HearAttach \/ Sweep \/ Disconnect \/ HostRestart
  \/ Connect \/ Heartbeat \/ Admit \/ HearGrant \/ HearRevoked
  \/ Watchdog \/ Begin \/ End

Spec == Init /\ [][Next]_vars

-----------------------------------------------------------------------------
(* A lease the Runner has been granted ends its margin before the Host's,  *)
(* whichever renewals were lost, late, or overtaken by a new connection or *)
(* a restart of the Host: #grantLease measures each from before it.        *)
GrantIsBacked == granted => deadline + Margin <= hostLease

(* "So the Runner always stops first" (leaseLeadMs): while an engine acts  *)
(* the Host's lease has not run out, and the Host has not taken the Run.   *)
StopsFirst == phase = "acting" => now < hostLease /\ ~taken

(* And if its margin covers the grace too, the Runner has ended the        *)
(* engine's processes, or begun to, before the Host's lease runs out: the  *)
(* next attempt meets no engine of this one.                               *)
EndedFirst ==
  Margin >= Watch + Grace /\ phase \in {"acting", "stopping"} => now < hostLease /\ ~taken
=============================================================================
