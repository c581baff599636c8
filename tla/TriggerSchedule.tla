--------------------------- MODULE TriggerSchedule ---------------------------
(***************************************************************************)
(* The clock of schedule Triggers.  A Trigger's newest revision says when  *)
(* it fires: at every instant (cron) or once (at).  A loop of the Host     *)
(* claims what is due in one transaction, queues an occurrence and moves   *)
(* the clock on.  Meanwhile the owner edits, pauses, resumes, archives,    *)
(* reschedules and runs by hand, and the occurrences of older revisions    *)
(* are still dispatched, fail, succeed, are lost and are canceled.         *)
(*                                                                         *)
(* An occurrence's way through dispatch is here what the tables see of it: *)
(* TriggerDispatch has the steps in between.                               *)
(***************************************************************************)
EXTENDS Integers, Sequences, FiniteSets, SequencesExt

CONSTANTS Trigger,    \* the Triggers, all of kind "schedule"
          MaxTime,    \* the last instant
          MaxRev,     \* revisions of each Trigger
          MaxManual,  \* runs by hand
          MaxPending, \* MAX_PENDING_TRIGGER_OCCURRENCES
          Threshold   \* TRIGGER_AUTO_PAUSE_FAILURE_THRESHOLD

ASSUME ScheduleBounds ==
  /\ IsFiniteSet(Trigger)
  /\ MaxTime \in Nat /\ MaxRev \in Nat \ {0} /\ MaxManual \in Nat
  /\ MaxPending \in Nat \ {0} /\ Threshold \in Nat \ {0}

VARIABLES now,     \* the time
          trigger, \* rows of triggers: status, next (0: null), rev, failures, reason
          source,  \* the schedule of each revision: 0 for cron, or the instant of an "at"
          occ,     \* the occurrences: trigger, rev, at (0: by hand), status, new
          told     \* the occurrences with an automation failure notice

vars == <<now, trigger, source, occ, told>>

Instants  == 1..MaxTime
Schedules == {0} \cup Instants

(* firstTriggerFireAt, nextTriggerFireAfter, resumedScheduleFireAt *)
FirstFire(s)   == IF s = 0 THEN now + 1 ELSE s
FireAfter_Itself(s) == FirstFire(s)   \* mutant: an instant is not spent
FireAfter(s)   == IF s = 0 THEN now + 1 ELSE 0
ResumedFire(s) == IF s = 0 THEN now + 1 ELSE IF s > now THEN s ELSE 0

Active(s) == [status |-> "active", next |-> FirstFire(s), rev |-> 1, failures |-> 0, reason |-> "none"]

Init ==
  /\ now = 0
  /\ \E f \in [Trigger -> Schedules] :
       /\ source = [t \in Trigger |-> <<f[t]>>]
       /\ trigger = [t \in Trigger |-> Active(f[t])]
  /\ occ = <<>> /\ told = {}

------------------------------------------------------------------------------
Source(t)    == source[t][trigger[t].rev]
Pending(t)   == {i \in DOMAIN occ : occ[i].trigger = t /\ occ[i].status = "pending"}
Scheduled(i) == occ[i].at # 0
Due          == {t \in Trigger : /\ trigger[t].status = "active"
                                 /\ trigger[t].next \in 1..now}

(* enqueueOccurrence: the row, and whether there is room for it *)
Row(t, at) == [trigger |-> t, rev |-> trigger[t].rev, at |-> at, status |-> "pending", new |-> TRUE]
Full(t)    == Cardinality(Pending(t)) >= MaxPending

(* Mutant: only a tick of the newest revision collapses. *)
Collapses_Newest(t) == \E i \in Pending(t) : occ[i].at # 0 /\ occ[i].rev = trigger[t].rev

(* pendingScheduleOccurrenceExists *)
Collapses(t) == \E i \in Pending(t) : Scheduled(i)

(* claimDueSchedules: one transaction for every Trigger that is due.  Those of
   `barred` may not execute now and are paused.  A queue that is full throws,
   and nothing of the transaction is kept. *)
Claim(barred) ==
  LET fires  == Due \ barred
      queued == {t \in fires : ~Collapses(t)}
  IN /\ Due # {} /\ \A t \in queued : ~Full(t)
     /\ occ' = occ \o SetToSeq({Row(t, trigger[t].next) : t \in queued})
     /\ trigger' = [t \in Trigger |->
          IF t \in barred
          THEN [trigger[t] EXCEPT !.status = "paused", !.next = 0, !.reason = "authority"]
          ELSE IF t \in fires THEN [trigger[t] EXCEPT !.next = FireAfter(Source(t))]
          ELSE trigger[t]]
     /\ UNCHANGED <<now, source, told>>

ClaimDue == \E barred \in SUBSET Due : Claim(barred)

Tick ==
  /\ now < MaxTime /\ now' = now + 1
  /\ UNCHANGED <<trigger, source, occ, told>>

(* enqueueManual *)
Manual(t) ==
  /\ trigger[t].status # "archived" /\ ~Full(t)
  /\ Cardinality({i \in DOMAIN occ : ~Scheduled(i)}) < MaxManual
  /\ occ' = Append(occ, Row(t, 0))
  /\ UNCHANGED <<now, trigger, source, told>>

(* update, of the source: the clock is armed as a resume would. *)
UpdateSource(t, s) ==
  /\ trigger[t].status # "archived" /\ Len(source[t]) < MaxRev
  /\ source' = [source EXCEPT ![t] = Append(@, s)]
  /\ trigger' = [trigger EXCEPT ![t].rev = @ + 1, ![t].failures = 0,
                   ![t].next = IF trigger[t].status = "active" THEN ResumedFire(s) ELSE 0]
  /\ UNCHANGED <<now, occ, told>>

(* update, of the program or of the name alone *)
UpdateOther(t) ==
  /\ trigger[t].status # "archived" /\ Len(source[t]) < MaxRev
  /\ source' = [source EXCEPT ![t] = Append(@, Source(t))]
  /\ \E program \in BOOLEAN :
       trigger' = [trigger EXCEPT ![t].rev = @ + 1,
                     ![t].failures = IF program THEN 0 ELSE @]
  /\ UNCHANGED <<now, occ, told>>

(* setStatus: to paused (pauseTriggerInTransaction) *)
Pause(t) ==
  /\ trigger[t].status = "active"
  /\ trigger' = [trigger EXCEPT ![t].status = "paused", ![t].next = 0, ![t].reason = "none"]
  /\ UNCHANGED <<now, source, occ, told>>

(* setStatus: to active *)
Resume(t) ==
  /\ trigger[t].status = "paused"
  /\ trigger' = [trigger EXCEPT ![t].status = "active", ![t].failures = 0, ![t].reason = "none",
                   ![t].next = ResumedFire(Source(t))]
  /\ UNCHANGED <<now, source, occ, told>>

(* setStatus: to archived *)
Archive(t) ==
  /\ trigger[t].status # "archived"
  /\ trigger' = [trigger EXCEPT ![t].status = "archived", ![t].next = 0, ![t].reason = "none"]
  /\ UNCHANGED <<now, source, occ, told>>

(* setNextFire: only the next run of an active cron schedule *)
SetNextFire(t) ==
  /\ trigger[t].status = "active" /\ Source(t) = 0
  /\ \E i \in Instants : i > now /\ trigger' = [trigger EXCEPT ![t].next = i]
  /\ UNCHANGED <<now, source, occ, told>>

------------------------------------------------------------------------------
(* The occurrences.                                                        *)

(* startExecution; retryCommand; cancelPendingOccurrences *)
Start(i) ==
  /\ occ[i].status = "pending"
  /\ occ' = [occ EXCEPT ![i] = [@ EXCEPT !.status = "running", !.new = FALSE]]
  /\ UNCHANGED <<now, trigger, source, told>>

Retry(i) ==
  /\ occ[i].status = "running"
  /\ occ' = [occ EXCEPT ![i].status = "pending"]
  /\ UNCHANGED <<now, trigger, source, told>>

Cancel(i) ==
  /\ occ[i].status = "pending"
  /\ occ' = [occ EXCEPT ![i].status = "canceled"]
  /\ UNCHANGED <<now, trigger, source, told>>

(* failCommand: its dispatch is refused for good. *)
Refuse(i) ==
  /\ occ[i].status \in {"pending", "running"}
  /\ occ' = [occ EXCEPT ![i].status = "failed"]
  /\ UNCHANGED <<now, trigger, source, told>>

(* isFinalOccurrence: the only run a one-shot makes *)
IsFinal(i) == Scheduled(i) /\ source[occ[i].trigger][occ[i].rev] # 0

Current(i) == occ[i].rev = trigger[occ[i].trigger].rev

(* #failActive: the Runner's connection or the Host was lost. *)
Interrupt(i) ==
  /\ occ[i].status = "running"
  /\ occ' = [occ EXCEPT ![i].status = "failed"]
  /\ told' = told \cup {j \in {i} : IsFinal(j)}
  /\ UNCHANGED <<now, trigger, source>>

(* oneTimeTriggerFinished *)
Finished(t) ==
  /\ trigger[t].status # "archived" /\ trigger[t].next = 0
  /\ Source(t) # 0
  /\ trigger[t].status = "active" \/ Source(t) <= now

(* completeExecution: the program succeeded. *)
Succeed(i) ==
  LET t == occ[i].trigger
      recovered == IF Current(i) THEN [trigger[t] EXCEPT !.failures = 0] ELSE trigger[t]
  IN /\ occ[i].status = "running"
     /\ occ' = [occ EXCEPT ![i].status = "succeeded"]
     /\ trigger' = [trigger EXCEPT ![t] =
          IF Finished(t) THEN [recovered EXCEPT !.status = "archived", !.reason = "none"]
          ELSE recovered]
     /\ UNCHANGED <<now, source, told>>

(* A failure of the current revision is counted; too many pause the Trigger. *)
Counted(t) ==
  LET counted == [trigger[t] EXCEPT !.failures = @ + 1]
  IN IF trigger[t].status = "active" /\ counted.failures >= Threshold
     THEN [counted EXCEPT !.status = "paused", !.next = 0, !.reason = "failures"]
     ELSE counted

(* completeExecution: the program failed. *)
Fail(i) ==
  LET t == occ[i].trigger
  IN /\ occ[i].status = "running"
     /\ occ' = [occ EXCEPT ![i].status = "failed"]
     /\ IF Current(i)
        THEN /\ trigger' = [trigger EXCEPT ![t] = Counted(t)]
             /\ told' = told \cup {j \in {i} : IsFinal(j) \/ (trigger[t].status = "active"
                                                             /\ Counted(t).status = "paused")}
        ELSE UNCHANGED <<trigger, told>>
     /\ UNCHANGED <<now, source>>

------------------------------------------------------------------------------
Next ==
  \/ Tick \/ ClaimDue
  \/ \E t \in Trigger :
       \/ Manual(t) \/ UpdateOther(t) \/ Pause(t) \/ Resume(t) \/ Archive(t) \/ SetNextFire(t)
       \/ \E s \in Schedules : UpdateSource(t, s)
  \/ \E i \in DOMAIN occ :
       Start(i) \/ Retry(i) \/ Cancel(i) \/ Refuse(i) \/ Interrupt(i) \/ Succeed(i) \/ Fail(i)

Spec == Init /\ [][Next]_vars

(* The loop ticks every second, while the Host is up; no Trigger is barred for
   ever. *)
LiveSpec == Spec /\ WF_vars(Claim({}))

------------------------------------------------------------------------------
(* The variables have the shapes described above. *)
TypeOK ==
  /\ now \in 0..MaxTime
  /\ \A t \in Trigger :
       /\ trigger[t].status \in {"active", "paused", "archived"}
       /\ trigger[t].next \in 0..(MaxTime + 1) /\ trigger[t].failures \in Nat
       /\ trigger[t].reason \in {"none", "failures", "authority"}
       /\ source[t] \in Seq(Schedules) /\ trigger[t].rev = Len(source[t])
  /\ \A i \in DOMAIN occ :
       occ[i].status \in {"pending", "running", "succeeded", "failed", "canceled"}
  /\ told \subseteq DOMAIN occ

(* Only an active Trigger has a next run, and it has not failed too often: a
   late result, an edit, a claim and a resume never leave one that fires on in
   spite of its failures, or a paused one that keeps its clock. *)
StoppedIsStopped ==
  \A t \in Trigger :
    /\ trigger[t].next # 0 => trigger[t].status = "active"
    /\ trigger[t].status = "active" => trigger[t].failures < Threshold /\ trigger[t].reason = "none"

(* "Collapsing them keeps a backlog from forming while the clock keeps
   advancing": of the runs that never started, one at most is scheduled, and
   there is never more than the queue's limit. *)
NoBacklog ==
  \A t \in Trigger :
    LET fresh == {i \in Pending(t) : occ[i].new}
    IN Cardinality(fresh) <= MaxPending /\ Cardinality({i \in fresh : Scheduled(i)}) <= 1

(* "Editing a program or a name must never resurrect an instant that has already
   passed": no instant of a Trigger is fired twice, whatever was edited, paused,
   resumed or rescheduled, and none is fired before its time. *)
NoInstantTwice ==
  \A i \in DOMAIN occ : Scheduled(i) =>
    /\ occ[i].at <= now
    /\ \A j \in DOMAIN occ : occ[j].trigger = occ[i].trigger /\ occ[j].at = occ[i].at => i = j

(* A run that succeeds takes a Trigger off its owner's list only if it is a
   one-shot whose instant has passed: one run early by hand stays, and so does
   one that was edited to fire again. *)
ArchivedWhenOver ==
  [][\A i \in DOMAIN occ :
       LET t == occ[i].trigger
       IN Succeed(i) /\ trigger'[t].status = "archived" /\ trigger[t].status # "archived"
            => Source(t) \in 1..now]_vars

(* A schedule that is due is claimed: it fires, collapses or is paused. *)
DueIsHandled == \A t \in Trigger : t \in Due ~> t \notin Due

(* The clock of every Trigger fires what it should, once, and no Trigger that
   stopped or ended. *)
ClockSound == [](TypeOK /\ StoppedIsStopped /\ NoBacklog /\ NoInstantTwice) /\ ArchivedWhenOver

=============================================================================
