--------------------------- MODULE TriggerDispatch ---------------------------
(***************************************************************************)
(* How the occurrences of Triggers are carried out.  Each occurrence has a *)
(* durable command; the Host claims it, names the Runner that is attached, *)
(* binds the occurrence to that Runner's boot under a new generation and   *)
(* sends the program.  The dispatch lasts until the program's result comes *)
(* back on the same connection.  Meanwhile the owner cancels, the Runner   *)
(* is not ready, connections are lost, the Runner is replaced by a new     *)
(* boot and the Host restarts.                                             *)
(*                                                                         *)
(* One environment and its Runner; a program may run for as long as it     *)
(* likes.                                                                  *)
(***************************************************************************)
EXTENDS Integers, FiniteSets

CONSTANTS Occurrence,  \* the occurrences, all of them queued
          MaxBoot,     \* how many boots of the Runner there are
          MaxRestart,  \* how often the Host's process ends
          MaxFault     \* connections lost and dispatches that must be retried

DispatchBounds ==
  MaxBoot \in Nat \ {0} /\ MaxRestart \in Nat /\ MaxFault \in Nat

VARIABLES occ,      \* rows of triggerOccurrences: status, gen, boot
          command,  \* the status of each one's trigger.execute command
          dispatch, \* the coordinator's dispatch of it: at, boot
          link,     \* whether the Runner is attached
          boot,     \* the Runner's boot
          owned,    \* ownedTriggerOccurrenceIds of the connection
          lost,     \* disconnect hooks under way: boot and occurrences
          net,      \* messages on the connection
          taken,    \* results whose transaction has begun
          program,  \* the generation each program runs under on the Runner, 0: none
          starts,   \* how often a program of the occurrence was started
          said,     \* how it says it ended
          restarts, faults

tables == <<occ, command>>
runner == <<program, starts, said>>
vars == <<occ, command, dispatch, link, boot, owned, lost, net, taken, program, starts, said,
          restarts, faults>>

Outcome  == {"succeeded", "failed"}
Final    == Outcome \cup {"canceled"}
NoCall   == [at |-> "none", boot |-> 0]
Queued   == [status |-> "pending", gen |-> 0, boot |-> 0]

Init ==
  /\ occ = [o \in Occurrence |-> Queued]
  /\ command = [o \in Occurrence |-> "pending"]
  /\ dispatch = [o \in Occurrence |-> NoCall]
  /\ link = TRUE /\ boot = 1 /\ owned = {} /\ lost = {}
  /\ net = {} /\ taken = {}
  /\ program = [o \in Occurrence |-> 0]
  /\ starts = [o \in Occurrence |-> 0]
  /\ said = [o \in Occurrence |-> "none"]
  /\ restarts = 0 /\ faults = 0

Message(kind, o, gen, how) == [kind |-> kind, occ |-> o, gen |-> gen, how |-> how]

------------------------------------------------------------------------------
(* The owner and the coordinator.                                          *)

(* cancelPendingOccurrences: the command's row decides. *)
Cancel(o) ==
  /\ occ[o].status = "pending" /\ command[o] = "pending"
  /\ command' = [command EXCEPT ![o] = "failed"]
  /\ occ' = [occ EXCEPT ![o].status = "canceled"]
  /\ UNCHANGED <<dispatch, link, boot, owned, lost, net, taken, runner, restarts, faults>>

(* claimCommand, for a Runner that is attached *)
Claim(o) ==
  /\ command[o] = "pending" /\ dispatch[o].at = "none" /\ link
  /\ command' = [command EXCEPT ![o] = "dispatched"]
  /\ dispatch' = [dispatch EXCEPT ![o].at = "claimed"]
  /\ UNCHANGED <<occ, link, boot, owned, lost, net, taken, runner, restarts, faults>>

(* #dispatchTrigger names the Runner before it prepares the Workspace. *)
Name(o) ==
  /\ dispatch[o].at = "claimed"
  /\ dispatch' = [dispatch EXCEPT ![o] = IF link THEN [at |-> "named", boot |-> boot]
                                         ELSE [at |-> "retry", boot |-> 0]]
  /\ UNCHANGED <<tables, link, boot, owned, lost, net, taken, runner, restarts, faults>>

Binding(o, b) == [status |-> "running", gen |-> occ[o].gen + 1, boot |-> b]

(* startExecution *)
StartExecution(o) ==
  /\ dispatch[o].at = "named"
  /\ command[o] = "dispatched" /\ occ[o].status = "pending"
  /\ occ' = [occ EXCEPT ![o] = Binding(o, dispatch[o].boot)]
  /\ dispatch' = [dispatch EXCEPT ![o].at = "started"]
  /\ UNCHANGED <<command, link, boot, owned, lost, net, taken, runner, restarts, faults>>

(* assertActiveExecutionBinding, then RunnerRegistry.dispatch to whichever
   connection serves the environment now. *)
Send(o) ==
  /\ dispatch[o].at = "started"
  /\ occ[o].status = "running" /\ occ[o].boot = dispatch[o].boot
  /\ IF link
     THEN /\ owned' = owned \cup {o}
          /\ net' = net \cup {Message("execute", o, occ[o].gen, "none")}
          /\ dispatch' = [dispatch EXCEPT ![o].at = "sent"]
     ELSE /\ dispatch' = [dispatch EXCEPT ![o].at = "retry"]
          /\ UNCHANGED <<owned, net>>
  /\ UNCHANGED <<tables, link, boot, lost, taken, runner, restarts, faults>>

(* A step of #dispatchTrigger throws before anything is sent: the Workspace is
   unavailable for now, or the program can never run here. *)
Throws(o) ==
  /\ dispatch[o].at \in {"claimed", "named", "started"}
  /\ \/ /\ faults < MaxFault /\ faults' = faults + 1
        /\ dispatch' = [dispatch EXCEPT ![o].at = "retry"]
     \/ /\ dispatch' = [dispatch EXCEPT ![o].at = "failed"]
        /\ UNCHANGED faults
  /\ UNCHANGED <<tables, link, boot, owned, lost, net, taken, runner, restarts>>

(* retryCommand: the occurrence waits again. *)
RetryCommand(o) ==
  /\ dispatch[o].at = "retry"
  /\ dispatch' = [dispatch EXCEPT ![o] = NoCall]
  /\ IF command[o] = "dispatched"
     THEN /\ command' = [command EXCEPT ![o] = "pending"]
          /\ occ' = IF occ[o].status = "running"
                    THEN [occ EXCEPT ![o] = [@ EXCEPT !.status = "pending", !.boot = 0]]
                    ELSE occ
     ELSE UNCHANGED tables
  /\ UNCHANGED <<link, boot, owned, lost, net, taken, runner, restarts, faults>>

(* failCommand *)
FailCommand(o) ==
  /\ dispatch[o].at = "failed"
  /\ dispatch' = [dispatch EXCEPT ![o] = NoCall]
  /\ command' = [command EXCEPT ![o] = IF @ = "dispatched" THEN "failed" ELSE @]
  /\ occ' = [occ EXCEPT ![o].status = IF @ \in {"pending", "running"} THEN "failed" ELSE @]
  /\ UNCHANGED <<link, boot, owned, lost, net, taken, runner, restarts, faults>>

------------------------------------------------------------------------------
(* The Runner.                                                             *)

(* #admitTriggerProgram: it starts, or the Runner is full or draining, or the
   program cannot run here. *)
Admit(m) ==
  /\ m \in net /\ m.kind = "execute"
  /\ \/ /\ program' = [program EXCEPT ![m.occ] = m.gen]
        /\ starts' = [starts EXCEPT ![m.occ] = @ + 1]
        /\ net' = net \ {m}
        /\ UNCHANGED faults
     \/ /\ faults < MaxFault /\ faults' = faults + 1
        /\ net' = (net \ {m}) \cup {Message("rejected", m.occ, m.gen, "retry")}
        /\ UNCHANGED <<program, starts>>
     \/ /\ net' = (net \ {m}) \cup {Message("rejected", m.occ, m.gen, "failed")}
        /\ UNCHANGED <<program, starts, faults>>
  /\ UNCHANGED <<tables, dispatch, link, boot, owned, lost, taken, said, restarts>>

(* #executeTriggerProgram: the program ends, and its result is sent. *)
Ends(o) ==
  /\ program[o] # 0
  /\ \E how \in Outcome :
       /\ said' = [said EXCEPT ![o] = how]
       /\ net' = net \cup {Message("result", o, program[o], how)}
  /\ program' = [program EXCEPT ![o] = 0]
  /\ UNCHANGED <<tables, dispatch, link, boot, owned, lost, taken, starts, restarts, faults>>

------------------------------------------------------------------------------
(* What the Host hears.                                                    *)

(* runner.command-rejected: the dispatch that waits for the answer throws. *)
HearRejected(m) ==
  /\ m \in net /\ m.kind = "rejected"
  /\ net' = net \ {m}
  /\ owned' = owned \ {m.occ}
  /\ dispatch' = [dispatch EXCEPT ![m.occ].at = m.how]
  /\ UNCHANGED <<tables, link, boot, lost, taken, runner, restarts, faults>>

(* runner.trigger-result: its transaction begins, and may outlive the connection. *)
HearResult(m) ==
  /\ m \in net /\ m.kind = "result"
  /\ net' = net \ {m}
  /\ taken' = taken \cup {[occ |-> m.occ, gen |-> m.gen, how |-> m.how, boot |-> boot, live |-> TRUE]}
  /\ UNCHANGED <<tables, dispatch, link, boot, owned, lost, runner, restarts, faults>>

(* Mutant: what the connection carried is dispatched again. *)
Down_Retries ==
  /\ link' = FALSE
  /\ lost' = lost \cup {[boot |-> boot, occs |-> owned]}
  /\ owned' = {} /\ net' = {}
  /\ dispatch' = [o \in Occurrence |-> IF dispatch[o].at = "sent" THEN [dispatch[o] EXCEPT !.at = "retry"]
                                       ELSE dispatch[o]]
  /\ program' = [o \in Occurrence |-> 0]

(* The connection is gone for the Host and for the Runner: what it carried is
   lost, the dispatches that wait on it are given up and its programs end. *)
Down ==
  /\ link' = FALSE
  /\ lost' = lost \cup {[boot |-> boot, occs |-> owned]}
  /\ owned' = {} /\ net' = {}
  /\ dispatch' = [o \in Occurrence |-> IF dispatch[o].at = "sent" THEN NoCall ELSE dispatch[o]]
  /\ program' = [o \in Occurrence |-> 0]

(* What completeExecution makes of a result. *)
Stale(t)  == occ[t.occ].gen # t.gen \/ occ[t.occ].boot # t.boot
Accepts_Late(t) == ~Stale(t)   \* mutant: whatever the occurrence has become
Accepts(t) == occ[t.occ].status = "running" /\ ~Stale(t)

(* completeExecution *)
Complete(t) ==
  /\ t \in taken
  /\ IF Accepts(t)
     THEN /\ occ' = [occ EXCEPT ![t.occ].status = t.how]
          /\ command' = [command EXCEPT ![t.occ] = IF @ = "dispatched" THEN "succeeded" ELSE @]
     ELSE UNCHANGED tables
  /\ IF t.live /\ occ[t.occ].status = "running" /\ Stale(t)
     THEN Down /\ taken' = {[u EXCEPT !.live = FALSE] : u \in taken \ {t}}
     ELSE /\ taken' = taken \ {t}
          /\ owned' = owned \ (IF t.live THEN {t.occ} ELSE {})
          /\ dispatch' = [dispatch EXCEPT ![t.occ] = IF t.live THEN NoCall ELSE @]
          /\ UNCHANGED <<link, lost, net, program>>
  /\ UNCHANGED <<boot, starts, said, restarts, faults>>

(* Fails every occurrence of the set, and its command: #failActive. *)
FailActive(set) ==
  /\ occ' = [o \in Occurrence |-> IF o \in set THEN [occ[o] EXCEPT !.status = "failed"] ELSE occ[o]]
  /\ command' = [o \in Occurrence |-> IF o \in set /\ command[o] = "dispatched" THEN "failed"
                                       ELSE command[o]]

Running == {o \in Occurrence : occ[o].status = "running"}

(* failActiveForRunnerDisconnect *)
Recover(h) ==
  /\ h \in lost
  /\ lost' = lost \ {h}
  /\ FailActive({o \in Running \cap h.occs : occ[o].boot = h.boot})
  /\ UNCHANGED <<dispatch, link, boot, owned, net, taken, runner, restarts, faults>>

------------------------------------------------------------------------------
(* What goes wrong.                                                        *)

(* The connection breaks, or its lease or an acknowledgement times out. *)
Disconnect ==
  /\ link /\ faults < MaxFault /\ faults' = faults + 1
  /\ Down /\ taken' = {[t EXCEPT !.live = FALSE] : t \in taken}
  /\ UNCHANGED <<tables, boot, starts, said, restarts>>

(* The Runner comes back, while hooks of older connections may still run. *)
Attach ==
  /\ ~link /\ link' = TRUE
  /\ UNCHANGED <<tables, dispatch, boot, owned, lost, net, taken, runner, restarts, faults>>

(* The Runner's process was replaced. *)
RunnerRestart ==
  /\ ~link /\ boot < MaxBoot /\ boot' = boot + 1
  /\ UNCHANGED <<tables, dispatch, link, owned, lost, net, taken, runner, restarts, faults>>

(* The Host's process ends and starts again: failActiveAfterHostRestart. *)
HostRestart ==
  /\ restarts < MaxRestart /\ restarts' = restarts + 1
  /\ FailActive(Running)
  /\ dispatch' = [o \in Occurrence |-> NoCall]
  /\ link' = FALSE /\ owned' = {} /\ lost' = {} /\ net' = {} /\ taken' = {}
  /\ program' = [o \in Occurrence |-> 0]
  /\ UNCHANGED <<boot, starts, said, faults>>

------------------------------------------------------------------------------
Host(o) == Claim(o) \/ Name(o) \/ StartExecution(o) \/ Send(o) \/ RetryCommand(o) \/ FailCommand(o)
Hears   == \/ \E m \in net : Admit(m) \/ HearRejected(m) \/ HearResult(m)
           \/ \E t \in taken : Complete(t)
           \/ \E h \in lost : Recover(h)

Next ==
  \/ \E o \in Occurrence : Host(o) \/ Cancel(o) \/ Throws(o) \/ Ends(o)
  \/ Hears
  \/ Disconnect \/ Attach \/ RunnerRestart \/ HostRestart

Spec == Init /\ [][Next]_vars

(* The coordinator, the connection and the hooks go on; nobody has to cancel,
   a program need not end and nothing has to go wrong. *)
Fairness ==
  /\ \A o \in Occurrence : WF_vars(Host(o))
  /\ WF_vars(Hears) /\ WF_vars(Attach)

LiveSpec == Spec /\ Fairness

------------------------------------------------------------------------------
(* The variables have the shapes described above. *)
TypeOK ==
  /\ occ \in [Occurrence -> [status : Final \cup {"pending", "running"}, gen : Nat, boot : 0..MaxBoot]]
  /\ command \in [Occurrence -> {"pending", "dispatched", "succeeded", "failed"}]
  /\ dispatch \in [Occurrence -> [at : {"none", "claimed", "named", "started", "sent", "retry", "failed"},
                                  boot : 0..MaxBoot]]
  /\ link \in BOOLEAN /\ boot \in 1..MaxBoot /\ owned \subseteq Occurrence
  /\ lost \subseteq [boot : 1..MaxBoot, occs : SUBSET Occurrence]
  /\ program \in [Occurrence -> Nat] /\ starts \in [Occurrence -> Nat]
  /\ said \in [Occurrence -> Outcome \cup {"none"}]
  /\ restarts \in 0..MaxRestart /\ faults \in 0..MaxFault

(* A program has real side effects and is started at most once for an
   occurrence, whatever was retried, lost or restarted; for one that was
   canceled it is never started ("exactly one of cancel and dispatch wins"). *)
StartedOnce ==
  \A o \in Occurrence : starts[o] <= (IF occ[o].status = "canceled" THEN 0 ELSE 1)

(* An occurrence is recorded as succeeded only if its program said so, and its
   command ends with it: canceled or lost occurrences have a failed command. *)
RecordedTruly ==
  \A o \in Occurrence :
    /\ occ[o].status = "succeeded" => said[o] = "succeeded" /\ command[o] = "succeeded"
    /\ command[o] = "succeeded" => occ[o].status = said[o]
    /\ occ[o].status = "canceled" => command[o] = "failed"
    /\ occ[o].status = "running" => command[o] = "dispatched"
    /\ command[o] = "pending" => occ[o].status = "pending"

(* To the tables an occurrence takes the steps TriggerSchedule gives it and no
   other.  How it ended is never changed: a late result, a disconnect hook of an
   older connection or a dispatch that fails afterwards finds it done. *)
TableStep ==
  {<<"pending", "running">>, <<"running", "pending">>, <<"pending", "canceled">>,
   <<"running", "succeeded">>} \cup ({"pending", "running"} \X {"failed"})

TakesTableSteps ==
  [][\A o \in Occurrence : occ'[o] # occ[o] => <<occ[o].status, occ'[o].status>> \in TableStep]_vars

(* An occurrence that is called running by the boot that is there is run by it,
   again and again, until it is not: none is left running with no program that
   could end it.  One bound to a boot that was replaced before it was sent is
   left out: the newer boot runs it, its result is refused, and the row is called
   running until the Host restarts. *)
RunsOrEnds ==
  \A o \in Occurrence :
    []<>(occ[o].status # "running" \/ program[o] # 0 \/ occ[o].boot # boot)

(* Whatever is retried, lost or restarted, a program runs once at most, and what
   is recorded of it is what it said. *)
ProgramsOnce == TypeOK /\ StartedOnce /\ RecordedTruly

=============================================================================
