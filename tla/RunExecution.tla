---------------------------- MODULE RunExecution ----------------------------
(***************************************************************************)
(* One Thread's Runs from their queue to their outcome: the Host's tables  *)
(* (packages/database), its dispatcher and registry (packages/orchestration*)
(* and apps/host), and the Runner that executes them (apps/runner), across *)
(* lost connections and restarts of either side.                           *)
(*                                                                         *)
(* The Runs are the Thread's queue in order of run_ordinal and share one   *)
(* provider session.  One database transaction, one turn of the Runner and *)
(* one frame taken from the wire are each one step.  What the Runner has   *)
(* to report waits in its journal and is committed one entry at a time     *)
(* while it is connected.  The wall clock is left out: a binding's lease   *)
(* is live or expired, and LeaseExpires says when it may run out.          *)
(***************************************************************************)
EXTENDS Integers, Sequences

CONSTANTS
  MaxRun,         \* bound of the model: Runs in the Thread
  MaxGen,         \* bound of the model: binding generations of the session
  MaxFault,       \* bound of the model: lost connections and restarts
  RecoveryLimit,  \* recoveries in five minutes after which a Run fails: 3
  Contained,      \* the Runner has the capability earlier-boots-contained-v1
  Forgets         \* the Runner may drop an ended Run's journal too soon: see Evict

ASSUME BoundAssumption ==
  /\ MaxRun \in Nat /\ MaxGen \in Nat /\ MaxFault \in Nat
  /\ RecoveryLimit \in Nat
  /\ Contained \in BOOLEAN /\ Forgets \in BOOLEAN

VARIABLES
  run,       \* the row of each Run, with its current attempt
  execute,   \* status of each Run's newest run.execute command
  stop,      \* status of each Run's run.interrupt command, "none" without one
  grant,     \* binding generation of each Run's active grant, 0 without one
  session,   \* the provider session's row
  dispatch,  \* the Thread's one dispatch slot in the ExecutionCoordinator
  link,      \* the Runner's connection, as RunnerRegistry holds it
  wire,      \* frames written to the Runner and not read by it yet
  boot,      \* the Runner's boot
  held,      \* the Runner's #runs and #settledRuns, by Run
  stray,     \* Runs this boot left processes of: #uncontainedThreads
  orphans,   \* Runs earlier boots left processes of
  begun,     \* history: the last generation an engine began each Run under
  faults     \* lost connections and restarts so far

db == <<run, execute, stop, grant, session>>
runner == <<boot, held, stray, orphans, begun>>
vars == <<db, dispatch, link, wire, runner, faults>>

Run == 1..MaxRun
Gen == 1..MaxGen
Boot == 1..(1 + MaxFault)

Executing == {"starting", "running"}
Terminal == {"completed", "failed", "interrupted"}
CommandStatus == {"pending", "dispatched", "succeeded", "failed"}
Open == {"pending", "dispatched"}

(* Phases of an execution the Runner holds: admitted and waiting for a     *)
(* lease; leased; acting once its engine has begun; stopping once aborted; *)
(* ended with a journal the Host has not acknowledged in full.             *)
Active == {"admitted", "leased", "acting", "stopping"}
Entry == {"bound", "started", "completed", "failed", "interrupted", "lost"}

NotHeld == [phase |-> "none", gen |-> 0, cause |-> "none", said |-> 0, log |-> <<>>]
Idle == [stage |-> "idle", run |-> 0, boot |-> 0, gen |-> 0, stale |-> FALSE,
         fenced |-> FALSE, reply |-> "none"]

IsTerminal(r) == run[r].status \in Terminal
IsExecuting(r) == run[r].status \in Executing
(* run-grants.ts runWasStopped: any interrupt command, whatever became of it. *)
Stopped(r) == stop[r] # "none"
(* The Run holds the session's current binding. *)
Bound(r) == /\ IsExecuting(r)
            /\ run[r].bound # 0
            /\ run[r].bound = session.gen

RunRow == [status : {"queued"} \cup Executing \cup Terminal, bound : 0..MaxGen,
           started : BOOLEAN, ended : BOOLEAN, recoveries : 0..MaxGen,
           replacing : BOOLEAN, lastBoot : {0} \cup Boot]
SessionRow == [gen : 0..MaxGen, holder : {0} \cup Boot,
               lease : {"none", "live", "expired"},
               status : {"starting", "ready", "broken"}, ref : BOOLEAN]
Slot == [stage : {"idle", "claimed", "planned", "bound", "checked", "sent"},
         run : {0} \cup Run, boot : {0} \cup Boot, gen : 0..MaxGen,
         stale : BOOLEAN, fenced : BOOLEAN,
         reply : {"none", "accepted", "retryable", "refused"}]
Frame == [type : {"execute", "interrupt", "attached", "revoked"},
          runs : SUBSET Run, gen : 0..MaxGen]
Execution == [phase : {"none", "ended"} \cup Active, gen : 0..MaxGen,
              cause : {"none", "stopped", "revoked", "lost"}, said : 0..2,
              log : Seq(Entry)]

TypeOK ==
  /\ run \in [Run -> RunRow]
  /\ execute \in [Run -> CommandStatus]
  /\ stop \in [Run -> CommandStatus \cup {"none"}]
  /\ grant \in [Run -> 0..MaxGen]
  /\ session \in SessionRow
  /\ dispatch \in Slot
  /\ link \in {"down", "up", "attached", "draining"}
  /\ wire \in Seq(Frame)
  /\ boot \in Boot
  /\ held \in [Run -> Execution]
  /\ stray \subseteq Run
  /\ orphans \subseteq Run
  /\ begun \in [Run -> 0..MaxGen]
  /\ faults \in 0..MaxFault

Init ==
  /\ run = [r \in Run |-> [status |-> "queued", bound |-> 0, started |-> FALSE,
                           ended |-> FALSE, recoveries |-> 0, replacing |-> FALSE,
                           lastBoot |-> 0]]
  /\ execute = [r \in Run |-> "pending"]
  /\ stop = [r \in Run |-> "none"]
  /\ grant = [r \in Run |-> 0]
  /\ session = [gen |-> 0, holder |-> 0, lease |-> "none", status |-> "ready", ref |-> FALSE]
  /\ dispatch = Idle
  /\ link = "down"
  /\ wire = <<>>
  /\ boot = 1
  /\ held = [r \in Run |-> NotHeld]
  /\ stray = {} /\ orphans = {}
  /\ begun = [r \in Run |-> 0]
  /\ faults = 0

Put(type, rs, g) == Append(wire, [type |-> type, runs |-> rs, gen |-> g])
Queued(type, r) == \E i \in 1..Len(wire) : wire[i].type = type /\ r \in wire[i].runs
Idling == dispatch.stage = "idle"
Dispatching(r) == ~Idling /\ dispatch.run = r

-----------------------------------------------------------------------------
(* Transactions.  Each says what becomes of db and of nothing else.        *)

Host == "host"
Runner == "runner"

(* run-finalization.ts.  A Run the Host fails after somebody stopped it is *)
(* interrupted; its open commands close with it; its session is broken by  *)
(* a failure and ready otherwise, unless the Run never reached it.  Grants *)
(* are left as they are.                                                   *)
Outcome(r, status, source) ==
  IF source = Host /\ status = "failed" /\ Stopped(r) THEN "interrupted" ELSE status

Finalize(r, status, source) ==
  LET outcome == Outcome(r, status, source)
      reached == run[r].status # "queued" /\ (outcome = "interrupted" => run[r].bound # 0)
  IN  /\ run' = [run EXCEPT ![r].status = outcome,
                            ![r].ended = @ \/ (source = Runner /\ outcome # "completed")]
      /\ execute' = [execute EXCEPT ![r] =
           IF @ \in Open THEN (IF source = Host THEN "failed" ELSE "succeeded") ELSE @]
      /\ stop' = [stop EXCEPT ![r] = IF @ \in Open THEN "failed" ELSE @]
      /\ session' = IF reached
                    THEN [session EXCEPT !.status =
                            IF outcome = "failed" THEN "broken" ELSE "ready"]
                    ELSE session
      /\ grant' = grant

(* endStoppedUnconfirmedRun: a stopped Run no Runner holds ends, unbound.  *)
EndStopped(r) ==
  /\ run' = [run EXCEPT ![r].status = "interrupted", ![r].bound = 0]
  /\ execute' = [execute EXCEPT ![r] = IF @ \in Open THEN "failed" ELSE @]
  /\ stop' = [stop EXCEPT ![r] = IF @ \in Open THEN "failed" ELSE @]
  /\ session' = IF run[r].bound # 0 THEN [session EXCEPT !.status = "ready"] ELSE session
  /\ grant' = grant

(* returnRunToQueue, with the execute command pending again. *)
ReturnToQueue(r) ==
  /\ run' = [run EXCEPT ![r].status = "queued", ![r].bound = 0]
  /\ execute' = [execute EXCEPT ![r] = "pending"]
  /\ UNCHANGED <<stop, grant, session>>

(* A starting Run no Runner holds: a stop is final, any other waits again. *)
Requeue_Stopped(r) == ReturnToQueue(r)
Requeue(r) == IF Stopped(r) THEN EndStopped(r) ELSE ReturnToQueue(r)

(* recoverLostRunTransaction.  A Run whose execution is lost ends, or goes *)
(* back to its queue as a new attempt: with a new execute command, no      *)
(* grant, and a session nobody holds under its next generation.            *)
Resumable_Stopped(r) == session.ref
Resumable(r) == ~Stopped(r) /\ session.ref

RecoverLost(r) ==
  \/ /\ ~Resumable(r) \/ run[r].recoveries >= RecoveryLimit
     /\ Finalize(r, "failed", Host)
  \/ /\ Resumable(r) /\ session.gen < MaxGen
     /\ run' = [run EXCEPT ![r].status = "queued", ![r].bound = 0,
                           ![r].recoveries = @ + 1, ![r].replacing = TRUE]
     /\ execute' = [execute EXCEPT ![r] = "pending"]
     /\ grant' = [grant EXCEPT ![r] = 0]
     /\ session' = [session EXCEPT !.gen = @ + 1, !.holder = 0, !.lease = "none",
                                   !.status = "ready"]
     /\ stop' = stop

(* retryCommand and failCommand touch a Run only while its command is the  *)
(* dispatched one; retryCommand throws unless the Run is still starting.   *)
Retry_Forgotten(r) == UNCHANGED db
Retry(r) ==
  IF execute[r] = "dispatched" /\ run[r].status = "starting"
  THEN Requeue(r) ELSE UNCHANGED db

Fail(r) ==
  IF execute[r] = "dispatched" /\ ~IsTerminal(r)
  THEN Finalize(r, "failed", Host) ELSE UNCHANGED db

(* execution-authority.ts assertActiveExecutionBinding, for a report or a  *)
(* dispatch of generation g from boot b.                                   *)
Binds(r, g, b) == /\ Bound(r) /\ session.gen = g /\ session.holder = b
                  /\ session.status # "broken"

-----------------------------------------------------------------------------
(* The Host: commands, and the dispatch of one run.execute command.        *)

(* enqueueRunnerControlInTransaction for run.interrupt.  A Run no Runner   *)
(* was ever offered ends here; any other loses its grant, and the command  *)
(* goes to the Runner.                                                     *)
EndsHere(r) == run[r].status = "queued" \/ (run[r].status = "starting" /\ run[r].bound = 0)

Stop(r) ==
  /\ ~IsTerminal(r) /\ ~Stopped(r)
  /\ IF EndsHere(r)
     THEN /\ run' = [run EXCEPT ![r].status = "interrupted"]
          /\ execute' = [execute EXCEPT ![r] = IF @ \in Open THEN "failed" ELSE @]
          /\ stop' = [stop EXCEPT ![r] = "succeeded"]
          /\ UNCHANGED <<grant, session>>
     ELSE /\ stop' = [stop EXCEPT ![r] = "pending"]
          /\ grant' = [grant EXCEPT ![r] = 0]
          /\ UNCHANGED <<run, execute, session>>
  /\ UNCHANGED <<dispatch, link, wire, runner, faults>>

(* recoverAbandonedRuns: access to the Workspace ended, and the Runs with  *)
(* it.  The Runner is told if it is there, else its next attach says so.   *)
Abandon(r) ==
  /\ ~IsTerminal(r)
  /\ Finalize(r, "failed", Host)
  /\ wire' = IF link \in {"up", "attached"} THEN Put("revoked", {r}, 0) ELSE wire
  /\ UNCHANGED <<dispatch, link, runner, faults>>

(* claimObservedCommand: the Thread's Runs start in order. *)
NextInThread_Queued(r) == \A q \in Run : q < r => run[q].status # "queued"
NextInThread(r) == \A q \in Run : q < r => IsTerminal(q)

Claim(r) ==
  /\ Idling /\ link = "attached"
  /\ run[r].status = "queued" /\ execute[r] = "pending"
  /\ NextInThread(r)
  /\ run' = [run EXCEPT ![r].status = "starting"]
  /\ execute' = [execute EXCEPT ![r] = "dispatched"]
  /\ dispatch' = [Idle EXCEPT !.stage = "claimed", !.run = r]
  /\ UNCHANGED <<stop, grant, session, link, wire, runner, faults>>

(* The dispatcher reads which boot and connection it dispatches to.        *)
Plan ==
  /\ dispatch.stage = "claimed" /\ link \in {"up", "attached"}
  /\ dispatch' = [dispatch EXCEPT !.stage = "planned", !.boot = boot]
  /\ UNCHANGED <<db, link, wire, runner, faults>>

(* acquireExecutionBinding.  An earlier Run whose native start is uncertain*)
(* closes the session.  A recovery of an execution that another boot held  *)
(* needs that boot's processes gone.                                       *)
Uncertain(q) ==
  \/ run[q].started /\ ~session.ref
  \/ ~run[q].started /\ run[q].bound # 0 /\ ~run[q].ended

MayReplace_Always(r) == TRUE
MayReplace(r) ==
  run[r].replacing => run[r].lastBoot = dispatch.boot \/ Contained

Bindable(r) == /\ run[r].status = "starting"
               /\ \A q \in Run : q < r => ~Uncertain(q)
               /\ MayReplace(r)

Bind ==
  LET r == dispatch.run
      g == session.gen + 1
  IN  /\ dispatch.stage = "planned"
      /\ g \in Gen
      /\ Bindable(r)
      /\ session' = [session EXCEPT !.gen = g, !.holder = dispatch.boot,
                                    !.lease = "live", !.status = "starting"]
      /\ run' = [run EXCEPT ![r].bound = g, ![r].lastBoot = dispatch.boot]
      /\ grant' = [grant EXCEPT ![r] = g]
      /\ dispatch' = [dispatch EXCEPT !.stage = "bound", !.gen = g]
      /\ UNCHANGED <<execute, stop, link, wire, runner, faults>>

(* The binding is refused, or planning meets an error that is final. *)
Reject ==
  /\ dispatch.stage \in {"planned", "bound"}
  /\ Fail(dispatch.run)
  /\ dispatch' = Idle
  /\ UNCHANGED <<link, wire, runner, faults>>

(* dispatch(): the lease is renewed, the connection must be the one planned*)
(* for, and beforeSend reads that the binding and its grant still stand.   *)
Authorized ==
  LET r == dispatch.run
  IN  /\ Binds(r, dispatch.gen, dispatch.boot)
      /\ session.lease = "live"
      /\ grant[r] = dispatch.gen

Check ==
  /\ dispatch.stage = "bound" /\ ~dispatch.stale /\ link = "attached"
  /\ Authorized
  /\ dispatch' = [dispatch EXCEPT !.stage = "checked"]
  /\ UNCHANGED <<db, link, wire, runner, faults>>

(* The fence of #canceledRuns and the connection are read once more.       *)
MaySend == ~dispatch.fenced /\ ~dispatch.stale

Send ==
  /\ dispatch.stage = "checked" /\ MaySend
  /\ wire' = Put("execute", {dispatch.run}, dispatch.gen)
  /\ dispatch' = [dispatch EXCEPT !.stage = "sent"]
  /\ UNCHANGED <<db, link, runner, faults>>

(* Nothing was sent: the Runner is offline, is not ready, or the check     *)
(* failed.  The command is retried.                                        *)
GiveUp ==
  /\ \/ dispatch.stage \in {"claimed", "planned", "bound"}
     \/ dispatch.stage = "checked" /\ ~MaySend
  /\ Retry(dispatch.run)
  /\ dispatch' = Idle
  /\ UNCHANGED <<link, wire, runner, faults>>

(* The Runner's answer. Without one the connection is dropped, and the     *)
(* command stays dispatched until the Run is settled.                      *)
HearReply ==
  LET r == dispatch.run
  IN  /\ dispatch.stage = "sent" /\ ~dispatch.stale /\ dispatch.reply # "none"
      /\ CASE dispatch.reply = "accepted" ->
                /\ execute' = [execute EXCEPT ![r] = IF @ = "dispatched" THEN "succeeded" ELSE @]
                /\ UNCHANGED <<run, stop, grant, session>>
           [] dispatch.reply = "retryable" -> Retry(r)
           [] dispatch.reply = "refused" -> Fail(r)
      /\ dispatch' = Idle
      /\ UNCHANGED <<link, wire, runner, faults>>

LoseReply ==
  /\ dispatch.stage = "sent" /\ dispatch.stale
  /\ dispatch' = Idle
  /\ UNCHANGED <<db, link, wire, runner, faults>>

(* The dispatch of a run.interrupt command.  One that meets an execute     *)
(* command about to be sent fences it: see #canceledRuns.                  *)
Fenced_Never(r) == FALSE
Fenced(r) == Dispatching(r) /\ dispatch.stage = "checked"

SendInterrupt(r) ==
  /\ stop[r] = "pending" /\ link = "attached"
  /\ stop' = [stop EXCEPT ![r] = "dispatched"]
  /\ wire' = Put("interrupt", {r}, 0)
  /\ dispatch' = IF Fenced(r) THEN [dispatch EXCEPT !.fenced = TRUE] ELSE dispatch
  /\ UNCHANGED <<run, execute, grant, session, link, runner, faults>>

HearInterrupted(r) ==
  /\ stop[r] = "dispatched" /\ link = "attached" /\ ~Queued("interrupt", r)
  /\ stop' = [stop EXCEPT ![r] = "succeeded"]
  /\ UNCHANGED <<run, execute, grant, session, dispatch, link, wire, runner, faults>>

-----------------------------------------------------------------------------
(* The connection and the Host's lifetime.                                 *)

Connect ==
  /\ link = "down"
  /\ link' = "up"
  /\ UNCHANGED <<db, dispatch, wire, runner, faults>>

Stale == IF dispatch.stage \in {"idle", "claimed"} THEN dispatch
         ELSE [dispatch EXCEPT !.stale = TRUE]

(* A control command whose answer is lost is sent again. *)
Resent_Lost == stop
Resent == [r \in Run |-> IF stop[r] = "dispatched" THEN "pending" ELSE stop[r]]

(* The Host drops the connection.  The Runner still reads what was written *)
(* to it, until it notices too.                                            *)
Disconnect ==
  /\ faults < MaxFault /\ faults' = faults + 1
  /\ link \in {"up", "attached"}
  /\ link' = "draining"
  /\ dispatch' = Stale
  /\ stop' = Resent
  /\ UNCHANGED <<run, execute, grant, session, wire, runner>>

Notice ==
  /\ link = "draining"
  /\ link' = "down" /\ wire' = <<>>
  /\ UNCHANGED <<db, dispatch, runner, faults>>

(* The Host's boot: restartExecutionLeases, then                           *)
(* recoverCommandsAfterHostRestart.  A Run claimed and never bound waits   *)
(* again; one that holds its binding gets a fresh lease.                   *)
ClaimedOnly(r) == run[r].status = "starting" /\ execute[r] = "dispatched" /\ ~Bound(r)

HostRestart ==
  /\ faults < MaxFault /\ faults' = faults + 1
  /\ link' = IF link = "down" THEN link ELSE "draining"
  /\ dispatch' = Idle
  /\ \/ \E r \in Run : /\ ClaimedOnly(r)
                       /\ Requeue(r)
     \/ /\ \A r \in Run : ~ClaimedOnly(r)
        /\ session' = IF \E r \in Run : Bound(r) THEN [session EXCEPT !.lease = "live"]
                                                 ELSE session
        /\ stop' = Resent
        /\ UNCHANGED <<run, execute, grant>>
  /\ UNCHANGED <<wire, runner>>

(* attachRunnerExecutions.  The Run that holds the binding goes on if the  *)
(* Runner announces it under that binding and its lease stands.  If it was *)
(* not announced and is not being dispatched now, it is lost, unless the   *)
(* same boot, still in its lease, never confirmed it: then it waits again. *)
Announced(r) == /\ held[r].phase # "none"
                /\ Binds(r, held[r].gen, boot)

GoesBack_AnyBoot(r) == /\ session.lease = "live"
                       /\ run[r].status = "starting" /\ session.status = "starting"
                       /\ execute[r] = "dispatched"
GoesBack(r) == /\ session.lease = "live" /\ session.holder = boot
               /\ run[r].status = "starting" /\ session.status = "starting"
               /\ execute[r] = "dispatched"

Settle(r) ==
  CASE Announced(r) /\ session.lease = "live" -> UNCHANGED db
    [] Announced(r) /\ session.lease # "live" -> RecoverLost(r)
    [] ~Announced(r) /\ Dispatching(r)        -> UNCHANGED db
    [] ~Announced(r) /\ ~Dispatching(r)       ->
         IF GoesBack(r) THEN Requeue(r) ELSE RecoverLost(r)

Attach ==
  /\ link = "up"
  /\ link' = "attached"
  /\ \/ \E r \in Run : Bound(r) /\ Settle(r)
     \/ (\A r \in Run : ~Bound(r)) /\ UNCHANGED db
  /\ wire' = Put("attached", {r \in Run : Announced(r) /\ session.lease = "live"}, 0)
  /\ UNCHANGED <<dispatch, runner, faults>>

(* renewActiveExecutionBindings, and its answer: by Run, not by binding.   *)
(* The answer to a heartbeat follows the answer to the attach.             *)
Heartbeat(r) ==
  /\ link = "attached" /\ ~\E i \in 1..Len(wire) : wire[i].type = "attached"
  /\ held[r].phase = "admitted"
  /\ Bound(r) /\ session.holder = boot /\ session.lease = "live"
  /\ held' = [held EXCEPT ![r].phase = "leased"]
  /\ UNCHANGED <<db, dispatch, link, wire, boot, stray, orphans, begun, faults>>

(* A lease runs out once nothing renews it.  The Runner ends an execution  *)
(* it holds a granted lease for before the Host's lease does; heartbeats   *)
(* come six times a lease and reach an attached Host; and a Run is not in  *)
(* its last check or unanswered for as long as a lease lasts.              *)
Renewed == \/ /\ dispatch.stage \in {"checked", "sent"} /\ dispatch.gen = session.gen
           \/ \E r \in Run : /\ \/ held[r].phase \in {"leased", "acting"}
                                \/ held[r].phase = "admitted" /\ link = "attached"
                             /\ held[r].gen = session.gen /\ session.holder = boot

LeaseExpires ==
  /\ session.lease = "live" /\ ~Renewed
  /\ session' = [session EXCEPT !.lease = "expired"]
  /\ UNCHANGED <<run, execute, stop, grant, dispatch, link, wire, runner, faults>>

(* recoverRunsWithExpiredExecutionBindings. *)
Sweep(r) ==
  /\ Bound(r) /\ session.lease = "expired"
  /\ RecoverLost(r)
  /\ UNCHANGED <<dispatch, link, wire, runner, faults>>

-----------------------------------------------------------------------------
(* The Runner reading one frame.                                           *)

Reading(type) == /\ link # "down" /\ wire # <<>> /\ Head(wire).type = type
                 /\ wire' = Tail(wire)

TheRun == CHOOSE r \in Run : r \in Head(wire).runs

(* The reply to the execute command reaches only the dispatch that waits.  *)
Reply(answer) ==
  dispatch' = IF dispatch.stage = "sent" /\ ~dispatch.stale
              THEN [dispatch EXCEPT !.reply = answer] ELSE dispatch

(* #admitExecution.  Another execution of the Thread, or processes one left*)
(* behind, refuse it for now; the Runner has further reasons of both kinds.*)
Vacant_Stray == \A q \in Run : held[q].phase \notin Active
Vacant == /\ \A q \in Run : held[q].phase \notin Active
          /\ stray = {}

DeliverExecute ==
  LET r == TheRun
      g == Head(wire).gen
  IN  /\ Reading("execute")
      /\ \/ /\ Vacant
            /\ held' = [held EXCEPT ![r] = [NotHeld EXCEPT !.phase = "admitted", !.gen = g]]
            /\ Reply("accepted")
         \/ /\ Reply("retryable")
            /\ held' = held
         \/ /\ held[r].phase \notin Active \/ held[r].gen >= g
            /\ Reply("refused")
            /\ held' = held
      /\ UNCHANGED <<db, link, boot, stray, orphans, begun, faults>>

Aborted(r, cause) == [held[r] EXCEPT !.phase = "stopping",
                                     !.cause = IF @ = "none" THEN cause ELSE @]

(* #interrupt: it names the Run, whichever binding the Runner holds it by. *)
DeliverInterrupt ==
  LET r == TheRun
  IN  /\ Reading("interrupt")
      /\ held' = IF held[r].phase \in Active THEN [held EXCEPT ![r] = Aborted(r, "stopped")]
                 ELSE held
      /\ UNCHANGED <<db, dispatch, link, boot, stray, orphans, begun, faults>>

(* revokeRuns: it stops at once and says nothing more. *)
Revoked_Ended(r) == IF held[r].phase \in Active THEN held[r] ELSE NotHeld
Revoked(r) == IF held[r].phase \in Active
              THEN [held[r] EXCEPT !.phase = "stopping", !.cause = "revoked", !.log = <<>>]
              ELSE NotHeld

DeliverRevoked ==
  /\ Reading("revoked")
  /\ held' = [held EXCEPT ![TheRun] = Revoked(TheRun)]
  /\ UNCHANGED <<db, dispatch, link, boot, stray, orphans, begun, faults>>

(* attach: a resumed Run is granted its lease, any other is revoked.  The  *)
(* grant is measured from the Runner's request, so one that comes after    *)
(* the Host's lease ran out is already over (module ExecutionLease).       *)
Kept_Late(r) == TRUE
Kept(r) == /\ session.lease = "live" /\ session.holder = boot
           /\ session.gen = held[r].gen

DeliverAttached ==
  /\ Reading("attached")
  /\ held' = [r \in Run |->
       IF r \notin Head(wire).runs THEN Revoked(r)
       ELSE IF held[r].phase = "admitted" /\ Kept(r) THEN [held[r] EXCEPT !.phase = "leased"]
       ELSE held[r]]
  /\ UNCHANGED <<db, dispatch, link, boot, stray, orphans, begun, faults>>

-----------------------------------------------------------------------------
(* The Runner executing.                                                   *)

Begin(r) ==
  /\ held[r].phase = "leased"
  /\ held' = [held EXCEPT ![r].phase = "acting"]
  /\ begun' = [begun EXCEPT ![r] = held[r].gen]
  /\ UNCHANGED <<db, dispatch, link, wire, boot, stray, orphans, faults>>

(* The engine names its native session, then says that its turn started. *)
Say(r) ==
  /\ held[r].phase = "acting" /\ held[r].said < 2
  /\ held' = [held EXCEPT ![r].said = @ + 1,
                          ![r].log = Append(@, IF held[r].said = 0 THEN "bound" ELSE "started")]
  /\ UNCHANGED <<db, dispatch, link, wire, boot, stray, orphans, begun, faults>>

(* #enforceLeases: the granted lease, or the one taken at admission, ran   *)
(* out on the Runner's own clock.                                          *)
LeaseLost(r) ==
  /\ held[r].phase \in {"admitted", "leased", "acting"}
  /\ held' = [held EXCEPT ![r] = Aborted(r, "lost")]
  /\ UNCHANGED <<db, dispatch, link, wire, boot, stray, orphans, begun, faults>>

(* An execution may have processes once its engine has begun. *)
Spawned(r) == held[r].phase \in {"acting", "stopping"} /\ begun[r] = held[r].gen

(* The end of #execute: the engine's processes are ended, proven gone or   *)
(* not, and then the outcome is stated.  What stopped the Run decides it   *)
(* over what the engine said, and a revoked Run states none.               *)
Outcomes(r) ==
  CASE held[r].cause = "lost"    -> {"lost"}
    [] held[r].cause = "stopped" -> {"interrupted"}
    [] held[r].cause = "revoked" -> {}
    [] held[r].cause = "none"    ->
         IF held[r].phase = "acting" THEN {"completed", "failed"} ELSE {"failed"}

End(r) ==
  /\ held[r].phase \in {"leased", "acting", "stopping"}
  /\ IF Outcomes(r) = {} THEN held' = [held EXCEPT ![r] = NotHeld]
     ELSE \E o \in Outcomes(r) :
            held' = [held EXCEPT ![r].phase = "ended", ![r].log = Append(@, o)]
  /\ \/ stray' = stray
     \/ Spawned(r) /\ stray' = stray \cup {r}
  /\ UNCHANGED <<db, dispatch, link, wire, boot, orphans, begun, faults>>

(* #holdUncontainedThread ends once the processes are proven gone. *)
StrayEnds ==
  /\ stray # {} /\ stray' = {}
  /\ UNCHANGED <<db, dispatch, link, wire, boot, held, orphans, begun, faults>>

(* The last of #enforceLeases: an ended journal is let go a day later, or  *)
(* once all of them together pass maxSettledJournalBytes.  Without Forgets *)
(* the Host has settled the Run by then.                                   *)
Evict(r) ==
  /\ held[r].phase = "ended"
  /\ Forgets \/ ~Bound(r) \/ session.gen # held[r].gen
  /\ held' = [held EXCEPT ![r] = NotHeld]
  /\ UNCHANGED <<db, dispatch, link, wire, boot, stray, orphans, begun, faults>>

(* The Runner's process ends and its next boot starts; the Host takes the  *)
(* connection for lost.  Processes of the old boot live on unless the      *)
(* Runner contains them.                                                   *)
Alive == stray \cup {r \in Run : Spawned(r)}

RunnerRestart ==
  /\ faults < MaxFault /\ faults' = faults + 1
  /\ boot' = boot + 1
  /\ held' = [r \in Run |-> NotHeld]
  /\ stray' = {}
  /\ orphans' = IF Contained THEN {} ELSE orphans \cup Alive
  /\ link' = "down" /\ wire' = <<>>
  /\ dispatch' = Stale
  /\ stop' = Resent
  /\ UNCHANGED <<run, execute, grant, session, begun>>

OrphanEnds ==
  /\ orphans # {} /\ orphans' = {}
  /\ UNCHANGED <<db, dispatch, link, wire, boot, held, stray, begun, faults>>

-----------------------------------------------------------------------------
(* The Host taking the next entry of a Run's journal: commitRunnerEvent,   *)
(* or bindProviderSession for the entry "bound".                           *)

(* A report from the former binding of a Run that has ended is only acked. *)
Late(r) == IsTerminal(r) /\ session.gen = held[r].gen /\ session.holder = boot

Accepts(r, e) ==
  /\ Binds(r, held[r].gen, boot)
  /\ session.lease = "live" \/ e \in {"bound", "lost"}
  /\ e = "started" => run[r].status = "starting"
  /\ e = "completed" => run[r].status = "running"

Apply(r, e) ==
  CASE e = "bound" ->
         /\ session' = [session EXCEPT !.ref = TRUE,
                          !.status = IF @ = "starting" THEN "ready" ELSE @]
         /\ UNCHANGED <<run, execute, stop, grant>>
    [] e = "started" ->
         /\ run' = [run EXCEPT ![r].status = "running", ![r].started = TRUE,
                               ![r].replacing = FALSE]
         /\ session' = [session EXCEPT !.status = "ready"]
         /\ UNCHANGED <<execute, stop, grant>>
    [] e = "lost" -> RecoverLost(r)
    [] e \in Terminal -> Finalize(r, e, Runner)

Acknowledged(r) ==
  LET rest == [held[r] EXCEPT !.log = Tail(@)]
  IN  IF rest.phase = "ended" /\ rest.log = <<>> THEN NotHeld ELSE rest

(* A connection reports a Run once the attach is answered; a revoked Run   *)
(* is not heard.  A report can be committed before the answer to its       *)
(* execute command is: the Host handles them in lanes of their own.        *)
Reporting(r) ==
  /\ link = "attached" /\ ~\E i \in 1..Len(wire) : wire[i].type = "attached"
  /\ ~Queued("revoked", r)
  /\ held[r].log # <<>>

Commit(r) ==
  LET e == Head(held[r].log)
  IN  /\ Reporting(r)
      /\ \/ /\ Accepts(r, e)
            /\ Apply(r, e)
         \/ /\ Late(r) /\ e # "bound"
            /\ UNCHANGED db
      /\ held' = [held EXCEPT ![r] = Acknowledged(r)]
      /\ UNCHANGED <<dispatch, link, wire, boot, stray, orphans, begun, faults>>

(* A refused report costs the Run its outcome only if the reporter holds   *)
(* it, and stops the execution unless another one was dispatched since.    *)
Replaced(r) == /\ Dispatching(r) /\ dispatch.stage \in {"checked", "sent"}
               /\ dispatch.gen # held[r].gen

Refuse(r) ==
  LET e == Head(held[r].log)
  IN  /\ Reporting(r)
      /\ ~Accepts(r, e) /\ ~(Late(r) /\ e # "bound")
      /\ ~Replaced(r)
      /\ IF Binds(r, held[r].gen, boot) THEN Finalize(r, "failed", Host) ELSE UNCHANGED db
      /\ wire' = Put("revoked", {r}, 0)
      /\ UNCHANGED <<dispatch, link, runner, faults>>

-----------------------------------------------------------------------------
OfHost(r) ==
  \/ Stop(r) \/ Abandon(r) \/ Claim(r) \/ SendInterrupt(r) \/ HearInterrupted(r)
  \/ Sweep(r)

Dispatcher ==
  \/ Plan \/ Bind \/ Reject \/ Check \/ Send \/ GiveUp \/ HearReply \/ LoseReply

Connection ==
  \/ Connect \/ Disconnect \/ Notice \/ HostRestart \/ Attach \/ LeaseExpires
  \/ DeliverExecute \/ DeliverInterrupt \/ DeliverRevoked \/ DeliverAttached

OfRunner(r) ==
  \/ Heartbeat(r) \/ Begin(r) \/ Say(r) \/ LeaseLost(r) \/ End(r) \/ Evict(r)
  \/ Commit(r) \/ Refuse(r)

Processes == RunnerRestart \/ StrayEnds \/ OrphanEnds

Next ==
  \/ \E r \in Run : OfHost(r) \/ OfRunner(r)
  \/ Dispatcher \/ Connection \/ Processes

Spec == Init /\ [][Next]_vars

(* What goes on by itself: the Host's loops and timers, the Runner's reads *)
(* and reports, and a clock that runs out an unrenewed lease.  An engine   *)
(* starts its turn and ends once aborted, yet is free to work for ever.    *)
(* Nobody has to stop a Run, and nothing has to fail.                      *)
Aborting(r) == held[r].phase = "stopping" /\ End(r)

HostFairness ==
  /\ WF_vars(Plan) /\ WF_vars(Bind \/ Reject) /\ WF_vars(Check \/ GiveUp)
  /\ WF_vars(Send) /\ WF_vars(HearReply) /\ WF_vars(LoseReply)
  /\ WF_vars(Attach) /\ WF_vars(LeaseExpires)
  /\ \A r \in Run : /\ WF_vars(SendInterrupt(r)) /\ WF_vars(HearInterrupted(r))
                    /\ WF_vars(Sweep(r)) /\ WF_vars(Commit(r)) /\ WF_vars(Refuse(r))

RunnerFairness ==
  /\ WF_vars(Connect) /\ WF_vars(Notice)
  /\ WF_vars(DeliverExecute) /\ WF_vars(DeliverInterrupt)
  /\ WF_vars(DeliverRevoked) /\ WF_vars(DeliverAttached)
  /\ \A r \in Run : /\ WF_vars(Heartbeat(r)) /\ WF_vars(Begin(r)) /\ WF_vars(Say(r))
                    /\ WF_vars(Aborting(r))

FairSpec == Spec /\ HostFairness /\ RunnerFairness

-----------------------------------------------------------------------------
(* The promise to the Thread's users, module RunLifecycle: a Run works     *)
(* while the Host has it starting or running.                              *)
life == [r \in Run |-> CASE run[r].status = "queued" -> "waiting"
                         [] IsExecuting(r)           -> "working"
                         [] OTHER                    -> run[r].status]
stopped == {r \in Run : Stopped(r)}

Lifecycle == INSTANCE RunLifecycle WITH life <- life, stopped <- stopped

(* RunExecution implements it: across every loss and restart a Run works   *)
(* only in its turn, waits again only unstopped, and ends once.            *)
ImplementsLifecycle == Lifecycle!Spec

(* The Runs of the Thread work one at a time, each after all before it. *)
RunsInOrder == Lifecycle!InOrder

(* A stop is final: once somebody stopped a Run it has ended, or a Runner  *)
(* still holds it by a binding that no grant stands behind.  It never      *)
(* waits again, whatever the dispatch, the recovery or a restart that met  *)
(* the stop was doing (retryCommand, endStoppedUnconfirmedRun,             *)
(* recoverLostRunTransaction).                                             *)
StopIsFinal ==
  \A r \in Run : Stopped(r) =>
    \/ IsTerminal(r)
    \/ IsExecuting(r) /\ run[r].bound # 0 /\ grant[r] = 0

(* A Run that waits can be claimed, for its command is pending and nobody  *)
(* stopped it; and a Run that ended leaves no command open to act on it,   *)
(* whichever of the ways back to the queue or to an end it took.           *)
CommandsFollowRun ==
  \A r \in Run :
    /\ run[r].status = "queued" => execute[r] = "pending" /\ stop[r] = "none"
    /\ IsTerminal(r) => execute[r] \notin Open /\ stop[r] \notin Open

(* An interrupt command the Host takes for delivered was delivered: the    *)
(* Runner does not go on with that Run, and no execute command for it      *)
(* follows the interrupt onto the wire (the fence of #canceledRuns, and    *)
(* the order of the connection).                                           *)
InterruptIsDelivered ==
  \A r \in Run : stop[r] = "succeeded" /\ IsExecuting(r) =>
    /\ held[r].phase \in {"admitted", "leased", "acting"} => held[r].gen # run[r].bound
    /\ ~Queued("execute", r)
    /\ ~(Dispatching(r) /\ dispatch.stage = "checked" /\ MaySend)

(* What the tables say of a Run, what is on the wire for it and what the   *)
(* Runner does agree.                                                      *)
Consistent == TypeOK /\ CommandsFollowRun /\ InterruptIsDelivered

(* An engine acts for a Run only under the binding the Host has for it,    *)
(* until the Host has ended the Run: never while the Run waits again, and  *)
(* never beside a newer binding, although heartbeats, their answers and    *)
(* interrupts name Runs and not bindings.                                  *)
NoStaleActing ==
  \A r \in Run : held[r].phase = "acting" =>
    IsTerminal(r) \/ (Bound(r) /\ held[r].gen = session.gen /\ session.holder = boot)

(* A Run never has two engines: none begins while processes of an earlier  *)
(* execution of it may live, be they this boot's or an earlier one's.  Nor *)
(* does this boot run two Runs of the Thread side by side, or a later one  *)
(* before every earlier one has its outcome.                               *)
OneEngine ==
  /\ \A r \in Run : held[r].phase = "acting" => r \notin stray \cup orphans
  /\ \A q, r \in Run : q < r /\ held[r].phase = "acting" =>
       /\ IsTerminal(q)
       /\ ~Spawned(q) /\ q \notin stray

(* A Run that returns to its queue as the same attempt, to be given to the *)
(* engine again word for word, was never begun under the binding it gives  *)
(* up: "it refused the Run or never received it" (execution-recovery.ts).  *)
ReturnedUnbegun ==
  [][\A r \in Run :
       IsExecuting(r) /\ run'[r].status = "queued" /\ run'[r].recoveries = run[r].recoveries
         => run[r].bound = 0 \/ begun[r] # run[r].bound]_vars

(* A stop reaches its end: whatever is lost on the way, the Run that       *)
(* somebody stopped ends (run.interrupt is sent again on every connection, *)
(* a lost execution is settled by attach or by the lease sweep).           *)
StopEndsRun == \A r \in Run : Stopped(r) ~> IsTerminal(r)

(* A Run is not left executing with nobody to execute it: the dispatch,    *)
(* the attach or the sweep settles it.                                     *)
Deserted(r) == IsExecuting(r) /\ ~(held[r].phase # "none" /\ held[r].gen = run[r].bound)
DesertedIsSettled == \A r \in Run : Deserted(r) ~> ~Deserted(r)

(* An engine whose Run the Host has ended or taken back is stopped: by     *)
(* host.executions.revoked, the answer to the attach, or a refused report. *)
Overdue(r) == held[r].phase = "acting" /\ ~(Bound(r) /\ held[r].gen = session.gen)
OverdueIsStopped == \A r \in Run : Overdue(r) ~> held[r].phase # "acting"
=============================================================================
