---------------------------- MODULE SteerDelivery ----------------------------
(***************************************************************************)
(* How a message that waits in a Thread's queue reaches a Run that is      *)
(* already working, or comes back.  Steering it into the Run claims it and *)
(* writes a control command.  An engine that can be spoken to while it     *)
(* works is sent the message (run.steer).  For any other engine the        *)
(* attempt is superseded and interrupted (run.restart), and the next       *)
(* attempt of the same Run starts with the message.  Either way the        *)
(* connection may be lost around any step, the Host may restart, the       *)
(* Runner may lose the execution, the person may stop the Run, and the Run *)
(* may end by itself first.                                                *)
(*                                                                         *)
(* One Thread with project work (policy "queue"), its Runs one after the   *)
(* other, and the one Runner that executes them.  The first attempt's own  *)
(* messages are left out: RunExecution has them.                           *)
(***************************************************************************)
EXTENDS Integers, Sequences, FiniteSets, SequencesExt, Subsequences

CONSTANTS Message,    \* the messages a person wrote for the Thread
          NoMessage,  \* what a command about no message names
          MaxRun,     \* how many Runs the Thread has
          MaxAttempt, \* how many attempts they have together
          MaxFault    \* how often a connection or an execution is lost

ASSUME SteerBounds ==
  /\ NoMessage \notin Message
  /\ MaxRun \in Nat \ {0} /\ MaxAttempt \in Nat \ {0} /\ MaxFault \in Nat

VARIABLES input,   \* the rows of threadInputs, with the state of their steer command
          run,     \* the Thread's newest Run: n, status, bound attempt, grant, stop
          attempt, \* its current attempt: n, reason, sent, started
          queue,   \* its control commands that are pending or dispatched, in order
          sent,    \* whether the first of them is dispatched
          native,  \* whether the Runner said its engine takes messages while it works
          link,    \* whether the Runner is attached
          net,     \* commands on the connection, and answers to them
          eng,     \* the Runner's execution: run, attempt, phase, batch, cause
          asked,   \* the attempt whose engine is being told the message, 0: none
          journal, \* events the Host has not committed
          heard,   \* how often an engine took the message in
          faults   \* connections and executions lost so far

hostVars   == <<input, run, attempt, queue, sent>>
runnerVars == <<eng, asked, journal, heard>>
vars == <<input, run, attempt, queue, sent, native, link, net, eng, asked, journal, heard, faults>>

Waiting == [state |-> "pending", run |-> 0, by |-> "none", cmd |-> "none"]
Idle    == [run |-> 0, att |-> 0, phase |-> "none", batch |-> {}, cause |-> "none"]

(* A Run and its first attempt, waiting to be dispatched. *)
Queued(n)  == [n |-> n, status |-> "queued", bound |-> 0, grant |-> FALSE,
               stopped |-> FALSE, outcome |-> "none"]
First(a)   == [n |-> a, reason |-> "initial", sent |-> FALSE, started |-> FALSE]

Init ==
  /\ input = [m \in Message |-> Waiting]
  /\ run = Queued(1) /\ attempt = First(1)
  /\ queue = <<>> /\ sent = FALSE
  /\ native \in BOOLEAN
  /\ link = TRUE /\ net = {}
  /\ eng = Idle
  /\ asked = [m \in Message |-> 0]
  /\ journal = <<>>
  /\ heard = [m \in Message |-> 0]
  /\ faults = 0

------------------------------------------------------------------------------
(* The Host's tables.                                                      *)

(* pendingReplacementAttempt *)
Replacement == attempt.reason # "initial" /\ ~attempt.started

(* The attempt that executes is not the current one. *)
Superseded == run.bound # 0 /\ run.bound # attempt.n

Command(kind, m) == [kind |-> kind, msg |-> m, run |-> run.n, gen |-> run.bound]

(* The control commands that stay, and whether the first is still sent. *)
Drop(gone) ==
  /\ queue' = Omit(queue, gone)
  /\ sent' = (sent /\ Head(queue) \notin gone)

(* steerRoute *)
Route ==
  IF run.status # "running" THEN "none"
  ELSE IF Replacement
       THEN IF attempt.reason = "recovery" \/ run.stopped THEN "none" ELSE "restart"
       ELSE IF ~run.grant THEN "none"
            ELSE IF native THEN "native" ELSE "restart"

(* supersedeCurrentAttempt: the replacement that waits already, or a new one. *)
Supersede ==
  /\ attempt' = IF attempt.reason = "steer_restart" /\ ~attempt.sent
                THEN attempt
                ELSE [n |-> attempt.n + 1, reason |-> "steer_restart",
                      sent |-> FALSE, started |-> FALSE]
  /\ run' = [run EXCEPT !.grant = FALSE]

(* steerThreadInputInTransaction *)
Steer(m) ==
  /\ input[m].state = "pending"
  /\ \/ /\ Route = "native"
        /\ input' = [input EXCEPT ![m] = [state |-> "claimed", run |-> run.n,
                                          by |-> "steer", cmd |-> "pending"]]
        /\ queue' = Append(queue, Command("steer", m))
        /\ UNCHANGED <<run, attempt>>
     \/ /\ Route = "restart" /\ (attempt.n < MaxAttempt \/ Replacement)
        /\ input' = [input EXCEPT ![m] = [state |-> "claimed", run |-> run.n,
                                          by |-> "restart", cmd |-> "none"]]
        /\ queue' = Append(queue, Command("restart", m))
        /\ Supersede
  /\ UNCHANGED <<sent, native, link, net, runnerVars, faults>>

(* cancelThreadInputInTransaction: only what still waits is withdrawn. *)
Withdraw(m) ==
  /\ input[m].state = "pending"
  /\ input' = [input EXCEPT ![m].state = "cancelled"]
  /\ UNCHANGED <<run, attempt, queue, sent, native, link, net, runnerVars, faults>>

(* settleSteer: what it makes of a message that is still claimed. *)
SteerSettled(m, outcome) ==
  IF input[m].state = "claimed"
  THEN IF outcome = "failed" THEN Waiting ELSE [input[m] EXCEPT !.state = "unknown", !.cmd = "unknown"]
  ELSE [input[m] EXCEPT !.cmd = outcome]

(* settleOutstandingSteersForRun.  Only proof that it was never sent takes *)
(* a message back to its queue.  A restarted message is sent by its        *)
(* attempt's start.  Uncertainty outlives the command it came from.        *)

NotDispatched(i) ==
  /\ i.state # "unknown"
  /\ IF i.by = "restart" THEN ~(Replacement /\ attempt.sent) ELSE i.cmd \in {"pending", "failed"}

Outstanding(i) == i.run = run.n /\ i.by # "none" /\ i.state \in {"claimed", "unknown"}

SettledAtEnd_Steers(i, lost) ==
  IF ~Outstanding(i) \/ i.by = "restart" THEN i
  ELSE IF NotDispatched(i) THEN Waiting
       ELSE [i EXCEPT !.state = "unknown", !.cmd = IF lost THEN "failed" ELSE "unknown"]

SettledAtEnd(i, lost) ==
  IF ~Outstanding(i) THEN i
  ELSE IF NotDispatched(i) THEN Waiting
       ELSE [i EXCEPT !.state = "unknown",
                      !.cmd = IF i.cmd \in {"dispatched", "unknown"}
                              THEN IF lost THEN "failed" ELSE "unknown"
                              ELSE i.cmd]

(* cleanupRunAttemptTransaction: every control command of the Run ends. *)
Cleanup(lost) ==
  /\ input' = [m \in Message |-> SettledAtEnd(input[m], lost)]
  /\ Drop({c \in ToSet(queue) : c.run = run.n})

(* finalizeRunTransaction *)
Finalize(outcome) ==
  /\ Cleanup(FALSE)
  /\ run' = [run EXCEPT !.status = "ended", !.grant = FALSE, !.outcome = outcome]
  /\ UNCHANGED attempt

(* recoverLostRunTransaction: a stopped Run ends, any other gets a new     *)
(* attempt under a new binding.                                            *)
RecoverLost ==
  IF run.stopped \/ attempt.n = MaxAttempt
  THEN Finalize(IF run.stopped THEN "interrupted" ELSE "failed")
  ELSE /\ Cleanup(TRUE)
       /\ run' = [run EXCEPT !.status = "queued", !.bound = 0, !.grant = FALSE]
       /\ attempt' = [n |-> attempt.n + 1, reason |-> "recovery",
                      sent |-> FALSE, started |-> FALSE]

(* enqueueRunnerControlInTransaction for run.interrupt *)
Stop ==
  /\ run.status # "ended" /\ ~run.stopped
  /\ IF run.status = "queued"
     THEN /\ Cleanup(FALSE)
          /\ run' = [run EXCEPT !.status = "ended", !.stopped = TRUE, !.outcome = "interrupted"]
     ELSE /\ run' = [run EXCEPT !.stopped = TRUE, !.grant = FALSE]
          /\ queue' = Append(queue, Command("stop", NoMessage))
          /\ UNCHANGED <<input, sent>>
  /\ UNCHANGED <<attempt, native, link, net, runnerVars, faults>>

(* The Thread's next Run, once this one has ended. *)
NextRun ==
  /\ run.status = "ended" /\ run.n < MaxRun /\ attempt.n < MaxAttempt
  /\ run' = Queued(run.n + 1)
  /\ attempt' = First(attempt.n + 1)
  /\ UNCHANGED <<input, queue, sent, native, link, net, runnerVars, faults>>

------------------------------------------------------------------------------
(* The Host dispatches.                                                    *)

(* The messages an attempt is started with. *)
Batch == {m \in Message : /\ attempt.reason = "steer_restart"
                          /\ input[m].run = run.n /\ input[m].state = "claimed"
                          /\ input[m].by = "restart"}

(* acquireExecutionBinding, and #admitExecution on a Runner that is free *)
Execute ==
  /\ run.status = "queued" /\ link /\ eng.phase = "none"
  /\ run' = [run EXCEPT !.status = "starting", !.bound = attempt.n, !.grant = TRUE]
  /\ attempt' = [attempt EXCEPT !.sent = TRUE]
  /\ eng' = [run |-> run.n, att |-> attempt.n, phase |-> "loaded", batch |-> Batch, cause |-> "none"]
  /\ UNCHANGED <<input, queue, sent, native, link, net, asked, journal, heard, faults>>

(* claimObservedCommand: whether the Run can still take the message. *)
Takes(c) == run.status = "running" /\ run.grant /\ input[c.msg].state = "claimed"

(* claimObservedCommand and HostCommandDispatcher.#dispatchControl: one    *)
(* control command of a Thread at a time.  A steer that can no longer be   *)
(* taken, or whose Runner is offline, is refused.                          *)
Dispatch ==
  /\ queue # <<>> /\ ~sent
  /\ \E c \in {Head(queue)} :
     IF c.kind = "steer" /\ ~(Takes(c) /\ link)
     THEN /\ input' = [input EXCEPT ![c.msg] = SteerSettled(c.msg, "failed")]
          /\ queue' = Tail(queue)
          /\ UNCHANGED <<sent, net>>
     ELSE /\ link
          /\ sent' = TRUE
          /\ net' = net \cup {[cmd |-> c, at |-> "sent"]}
          /\ input' = IF c.kind = "steer" THEN [input EXCEPT ![c.msg].cmd = "dispatched"] ELSE input
          /\ UNCHANGED queue
  /\ UNCHANGED <<run, attempt, native, link, runnerVars, faults>>

(* What an answer to a steer makes of its message: succeedCommand,         *)
(* refuseSteer, markSteerUnknown.                                          *)
Answered(m, at) ==
  IF at = "accepted"
  THEN IF input[m].cmd \in {"dispatched", "unknown"}
       THEN [input[m] EXCEPT !.cmd = "succeeded",
                             !.state = IF @ \in {"claimed", "unknown"} THEN "delivered" ELSE @]
       ELSE input[m]
  ELSE IF input[m].cmd = "dispatched"
       THEN SteerSettled(m, IF at = "rejected" THEN "failed" ELSE "unknown")
       ELSE input[m]

(* runner.command-accepted, -rejected and -uncertain *)
HearAnswer ==
  \E a \in net :
    /\ a.at \notin {"sent", "asked"} /\ link
    /\ net' = net \ {a}
    /\ Drop({a.cmd})
    /\ input' = IF a.cmd.kind = "steer" /\ input[a.cmd.msg].run = a.cmd.run
                THEN [input EXCEPT ![a.cmd.msg] = Answered(a.cmd.msg, a.at)] ELSE input
    /\ UNCHANGED <<run, attempt, native, link, runnerVars, faults>>

------------------------------------------------------------------------------
(* The Runner.                                                             *)

Reply(a, at) == net' = (net \ {a}) \cup {[a EXCEPT !.at = at]}

(* #interrupt.  The interrupt of a restart names the binding it replaces,  *)
(* and never stops the attempt that took over.                             *)
Interrupts(c) == eng.run = c.run /\ (c.kind = "stop" \/ eng.att = c.gen)

DeliverInterrupt ==
  \E a \in net :
    /\ a.at = "sent" /\ a.cmd.kind # "steer" /\ link
    /\ eng' = IF eng.phase # "none" /\ eng.cause # "lost" /\ Interrupts(a.cmd)
              THEN [eng EXCEPT !.cause = "interrupted"] ELSE eng
    /\ Reply(a, "accepted")
    /\ UNCHANGED <<hostVars, native, link, asked, journal, heard, faults>>

(* #steer: the engine is told, if it works and its Run is not settling. *)
DeliverSteer ==
  \E a \in net :
    /\ a.at = "sent" /\ a.cmd.kind = "steer" /\ link
    /\ IF eng.run = a.cmd.run /\ eng.phase = "running"
       THEN asked' = [asked EXCEPT ![a.cmd.msg] = eng.att] /\ Reply(a, "asked")
       ELSE UNCHANGED asked /\ Reply(a, "rejected")
    /\ UNCHANGED <<hostVars, native, link, eng, journal, heard, faults>>

Event(type, m, att) == [type |-> type, msg |-> m, att |-> att]

(* The answer of a command, if the connection it came on still stands. *)
Told(m, at) ==
  net' = {IF a.cmd.msg = m /\ a.at = "asked" THEN [a EXCEPT !.at = at] ELSE a : a \in net}

(* #deliverSteer, when the engine has answered: it took the message and    *)
(* the Run records that, it refused it, or it cannot say.  After the       *)
(* Run's terminal event nothing more is recorded.                          *)
EngineTakes(m) ==
  /\ asked[m] # 0
  /\ asked' = [asked EXCEPT ![m] = 0]
  /\ heard' = [heard EXCEPT ![m] = @ + 1]
  /\ journal' = IF eng.att = asked[m] THEN Append(journal, Event("injected", m, eng.att)) ELSE journal
  /\ Told(m, "accepted")
  /\ UNCHANGED <<hostVars, native, link, eng, faults>>

EngineRefuses(m) ==
  /\ asked[m] # 0
  /\ asked' = [asked EXCEPT ![m] = 0]
  /\ Told(m, "rejected")
  /\ UNCHANGED <<hostVars, native, link, eng, journal, heard, faults>>

EngineUnsure(m) ==
  /\ asked[m] # 0
  /\ asked' = [asked EXCEPT ![m] = 0]
  /\ \E took \in {0, 1} : heard' = [heard EXCEPT ![m] = @ + took]
  /\ Told(m, "uncertain")
  /\ UNCHANGED <<hostVars, native, link, eng, journal, faults>>

(* #execute: the engine starts with the messages of its attempt. *)
Start ==
  /\ eng.phase = "loaded" /\ eng.cause = "none"
  /\ eng' = [eng EXCEPT !.phase = "running"]
  /\ heard' = [m \in Message |-> heard[m] + (IF m \in eng.batch THEN 1 ELSE 0)]
  /\ journal' = Append(journal, Event("started", NoMessage, eng.att))
  /\ UNCHANGED <<hostVars, native, link, net, asked, faults>>

(* #execute: the engine ends by itself. *)
Finishes ==
  /\ eng.phase = "running" /\ eng.cause = "none"
  /\ eng' = [eng EXCEPT !.phase = "settling", !.cause = "completed"]
  /\ UNCHANGED <<hostVars, native, link, net, asked, journal, heard, faults>>

(* #enforceLeases: no Host for too long, the engine is stopped. *)
LeaseLost ==
  /\ ~link /\ eng.phase \in {"loaded", "running"} /\ eng.cause = "none"
  /\ eng' = [eng EXCEPT !.cause = "lost"]
  /\ UNCHANGED <<hostVars, native, link, net, asked, journal, heard, faults>>

(* An engine that is stopped while it starts may have its messages by then. *)
Stopped ==
  /\ eng.phase \in {"loaded", "running"} /\ eng.cause # "none"
  /\ \E took \in IF eng.phase = "loaded" THEN {0, 1} ELSE {0} :
       heard' = [m \in Message |-> heard[m] + (IF m \in eng.batch THEN took ELSE 0)]
  /\ eng' = [eng EXCEPT !.phase = "settling"]
  /\ UNCHANGED <<hostVars, native, link, net, asked, journal, faults>>

(* #execute, finally: the terminal event.  It waits for the steers under   *)
(* way, but not longer than the stop's grace.                              *)
Terminal ==
  /\ eng.phase = "settling"
  /\ journal' = Append(journal, Event(eng.cause, NoMessage, eng.att))
  /\ eng' = Idle
  /\ UNCHANGED <<hostVars, native, link, net, asked, heard, faults>>

------------------------------------------------------------------------------
(* The Host commits a Run's events in order: commitRunnerEvent.            *)

(* run.started: the attempt's start delivers its batch. *)
Started ==
  /\ run' = [run EXCEPT !.status = "running"]
  /\ attempt' = [attempt EXCEPT !.started = TRUE]
  /\ input' = [m \in Message |->
                 IF input[m].run = run.n /\ input[m].by = "restart" /\ input[m].state = "claimed"
                 THEN [input[m] EXCEPT !.state = "delivered"] ELSE input[m]]
  /\ UNCHANGED <<queue, sent>>

(* message.injected *)

Injected(m) ==
  /\ IF input[m].run = run.n /\ input[m].state \in {"claimed", "unknown"}
     THEN /\ input' = [input EXCEPT ![m].state = "delivered", ![m].cmd = "succeeded"]
          /\ Drop({c \in ToSet(queue) : c.kind = "steer" /\ c.msg = m})
     ELSE UNCHANGED <<input, queue, sent>>
  /\ UNCHANGED <<run, attempt>>

(* commitSupersededAttemptEvent: its interruption is the restart's cue. *)
Requeue ==
  /\ run' = [run EXCEPT !.status = "queued", !.bound = 0]
  /\ UNCHANGED <<input, attempt, queue, sent>>

EndsRun(e) == e.type = "completed" \/ (e.type = "interrupted" /\ (~Superseded \/ run.stopped))

CommitEvent ==
  /\ journal # <<>> /\ link
  /\ journal' = Tail(journal)
  /\ \E e \in {Head(journal)} :
       CASE run.status = "ended" \/ e.att # run.bound -> UNCHANGED hostVars
         [] OTHER ->
              IF e.type = "lost" THEN RecoverLost
              ELSE IF EndsRun(e) THEN Finalize(e.type)
              ELSE IF e.type = "interrupted" THEN Requeue
              ELSE IF Superseded THEN UNCHANGED hostVars
              ELSE IF e.type = "started" THEN Started
              ELSE Injected(e.msg)
  /\ UNCHANGED <<native, link, net, eng, asked, heard, faults>>

------------------------------------------------------------------------------
(* What goes wrong.                                                        *)

(* The first control command was on a connection that is gone: a steer is  *)
(* uncertain from here on, an interrupt is sent again.                     *)
Unanswered_Again == sent' = FALSE /\ UNCHANGED <<input, queue>>

Unanswered_Forgets ==
  /\ sent' = FALSE
  /\ queue' = IF sent /\ Head(queue).kind = "steer" THEN Tail(queue) ELSE queue
  /\ UNCHANGED input

Unanswered ==
  /\ sent' = FALSE
  /\ IF sent /\ Head(queue).kind = "steer"
     THEN /\ input' = [input EXCEPT ![Head(queue).msg] = SteerSettled(Head(queue).msg, "unknown")]
          /\ queue' = Tail(queue)
     ELSE UNCHANGED <<input, queue>>

(* The connection is lost, or the Host restarts                            *)
(* (recoverCommandsAfterHostRestart): to the tables it is the same.        *)
Disconnect ==
  /\ link /\ faults < MaxFault
  /\ link' = FALSE /\ net' = {} /\ faults' = faults + 1
  /\ Unanswered
  /\ UNCHANGED <<run, attempt, native, runnerVars>>

(* The Runner's process ends: its engine, and what it had not told.  The   *)
(* engine may have its messages by then.                                   *)
Crash ==
  /\ link /\ faults < MaxFault
  /\ link' = FALSE /\ net' = {} /\ faults' = faults + 1
  /\ Unanswered
  /\ eng' = Idle /\ journal' = <<>>
  /\ asked' = [m \in Message |-> 0]
  /\ \E took \in {0, 1} :
       heard' = [m \in Message |->
                   heard[m] + (IF (eng.phase = "loaded" /\ m \in eng.batch) \/ asked[m] # 0
                               THEN took ELSE 0)]
  /\ UNCHANGED <<run, attempt, native>>

(* attachRunnerExecutions, recoverLostExecutions: the Runner returns and   *)
(* says what it has.  An execution it does not name is lost.               *)
Named == eng.att = run.bound \/ \E i \in DOMAIN journal : journal[i].att = run.bound

Reconnect ==
  /\ ~link
  /\ link' = TRUE
  /\ native' \in BOOLEAN
  /\ IF run.bound # 0 /\ run.status # "ended" /\ ~Named
     THEN RecoverLost ELSE UNCHANGED hostVars
  /\ UNCHANGED <<net, runnerVars, faults>>

------------------------------------------------------------------------------
Next ==
  \/ \E m \in Message : \/ Steer(m) \/ Withdraw(m)
                        \/ EngineTakes(m) \/ EngineRefuses(m) \/ EngineUnsure(m)
  \/ Stop \/ NextRun \/ Execute \/ Dispatch \/ HearAnswer
  \/ DeliverInterrupt \/ DeliverSteer
  \/ Start \/ Finishes \/ LeaseLost \/ Stopped \/ Terminal
  \/ CommitEvent \/ Disconnect \/ Crash \/ Reconnect

Spec == Init /\ [][Next]_vars

(* The Host's loops, the connection and the Runner's handlers go on; an    *)
(* engine answers when it is told a message, and starts.  Nothing is asked *)
(* of the person, of the engine's own end, or of what goes wrong.          *)
LiveSpec ==
  /\ Spec
  /\ WF_vars(Execute) /\ WF_vars(Dispatch) /\ WF_vars(HearAnswer)
  /\ WF_vars(DeliverInterrupt) /\ WF_vars(DeliverSteer)
  /\ \A m \in Message : WF_vars(EngineTakes(m) \/ EngineRefuses(m) \/ EngineUnsure(m))
  /\ WF_vars(Start) /\ WF_vars(Stopped) /\ WF_vars(Terminal)
  /\ WF_vars(CommitEvent) /\ WF_vars(Reconnect)

------------------------------------------------------------------------------
CommandType == [kind : {"steer", "restart", "stop"}, msg : Message \cup {NoMessage},
                run : 1..MaxRun, gen : 0..MaxAttempt]

(* Every part of the state has its shape. *)
TypeOK ==
  /\ input \in [Message -> [state : {"pending", "claimed", "delivered", "unknown", "cancelled"},
                            run : 0..MaxRun, by : {"none", "steer", "restart"},
                            cmd : {"none", "pending", "dispatched", "unknown", "failed", "succeeded"}]]
  /\ run \in [n : 1..MaxRun, status : {"queued", "starting", "running", "ended"},
              bound : 0..MaxAttempt, grant : BOOLEAN, stopped : BOOLEAN,
              outcome : {"none", "completed", "interrupted", "failed"}]
  /\ attempt \in [n : 1..MaxAttempt, reason : {"initial", "steer_restart", "recovery"},
                  sent : BOOLEAN, started : BOOLEAN]
  /\ \A c \in ToSet(queue) : c \in CommandType
  /\ sent \in BOOLEAN /\ (sent => queue # <<>>)
  /\ native \in BOOLEAN /\ link \in BOOLEAN
  /\ net \subseteq [cmd : CommandType, at : {"sent", "asked", "accepted", "rejected", "uncertain"}]
  /\ eng \in [run : 0..MaxRun, att : 0..MaxAttempt,
              phase : {"none", "loaded", "running", "settling"},
              batch : SUBSET Message, cause : {"none", "interrupted", "completed", "lost"}]
  /\ asked \in [Message -> 0..MaxAttempt]
  /\ heard \in [Message -> Nat]
  /\ faults \in 0..MaxFault

(* thread-inbox.ts, settleOutstandingSteersForRun: an uncertain delivery   *)
(* cannot become new work.  However the message travels, no engine takes   *)
(* it in twice.                                                            *)
HeardOnce == \A m \in Message : heard[m] <= 1

(* The receipt a person sees is true: a message shown as delivered was     *)
(* taken in by an engine, and one that waits in the queue, or was          *)
(* withdrawn from it, was not.                                             *)
TrueReceipts ==
  \A m \in Message :
    /\ input[m].state = "delivered" => heard[m] = 1
    /\ input[m].state \in {"pending", "cancelled"} => heard[m] = 0

(* No message is left claimed for a Run that has ended: it was delivered,  *)
(* waits again, or is shown as uncertain.                                  *)
NoneStranded ==
  \A m \in Message : input[m].state = "claimed" => input[m].run = run.n /\ run.status # "ended"

(* A restart never ends the Run it was asked for: only a person's stop     *)
(* ends a Run as interrupted, however often the interrupt of an earlier    *)
(* attempt is sent again.                                                  *)
RestartKeepsRun == run.outcome = "interrupted" => run.stopped

(* The receipts of messages are true and none is heard twice.              *)
Receipts == TypeOK /\ HeardOnce /\ TrueReceipts

(* A message and a Run survive each other: neither the end of the Run      *)
(* strands the message nor the restart for a message ends the Run.         *)
KeptTogether == NoneStranded /\ RestartKeepsRun

(* Every steered message comes to be settled. *)
Settles == \A m \in Message : (input[m].state = "claimed") ~> (input[m].state # "claimed")

(* A Run that was taken from its attempt gets the next one, or ends. *)
RestartArrives ==
  (Superseded /\ run.status = "running") ~> (run.status = "ended" \/ attempt.started)

SteersArrive == Settles /\ RestartArrives
=============================================================================
