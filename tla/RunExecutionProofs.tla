------------------------- MODULE RunExecutionProofs -------------------------
(***************************************************************************)
(* RunExecution for every number of Runs, generations and faults: its      *)
(* types, the finality of a stop, and that it implements RunLifecycle; the *)
(* wire and the Runner agree with the Host's tables, no engine acts from a *)
(* binding that is not its Run's, interrupts are delivered, and a Run never*)
(* has two engines.                                                        *)
(*                                                                         *)
(* The database is the part that matters.  Rows below states what holds of *)
(* its tables between transactions; each transaction keeps it (section 1), *)
(* then each action does (sections 2 and 3), with what the dispatcher must *)
(* know of the Run it is dispatching (Claimed).  Section 5 shows more of   *)
(* the tables, that they agree with each other and with the dispatch in    *)
(* flight.                                                                 *)
(*                                                                         *)
(* NoStaleActing is not inductive by far.  An engine may act because it    *)
(* was admitted from a frame that was sent when the dispatch had passed    *)
(* its check, and went on with a lease that an answer granted; so the      *)
(* invariant (Engine, sections 6 to 9) says of each of these places what   *)
(* the next one needs: of a checked dispatch (Ready), of an offer on the   *)
(* wire (OfferOK), of an execution that is held, and of one held firmly    *)
(* (HeldOK), together with the order of the wire (WireOK) and of the       *)
(* journals (Logs).                                                        *)
(*                                                                         *)
(* The rest goes on from there.  Interrupts (section 10) follows a stop    *)
(* command to the Runner.  Begun (section 11) follows the processes of an  *)
(* engine through ends, losses and restarts of its Runner, by what the     *)
(* tables still say of their Run (Accounted): either the Run is known to   *)
(* replace an execution, so that its next binding asks for the former boot *)
(* (MayReplace), or it still has the binding that began it.                *)
(***************************************************************************)
EXTENDS RunExecution, TLAPS

DbTypeOK ==
  /\ run \in [Run -> RunRow]
  /\ execute \in [Run -> CommandStatus]
  /\ stop \in [Run -> CommandStatus \cup {"none"}]
  /\ grant \in [Run -> 0..MaxGen]
  /\ session \in SessionRow

(* Only a Run that was bound runs, a Run that waits is unbound, a stop is  *)
(* final, and each recovery used up a generation of the session.           *)
RowOK(r) ==
  /\ run[r].status = "queued" => run[r].bound = 0
  /\ run[r].status = "running" => run[r].bound # 0
  /\ Stopped(r) => \/ IsTerminal(r)
                   \/ IsExecuting(r) /\ run[r].bound # 0 /\ grant[r] = 0
  /\ run[r].recoveries <= session.gen

Rows == DbTypeOK /\ \A r \in Run : RowOK(r)

(* What a transaction may do to the Runs: nothing, or end one that has not *)
(* ended, or take one back to its queue that nobody stopped.               *)
Settled(r) ==
  /\ \A q \in Run : q # r => run'[q] = run[q]
  /\ \A q \in Run : Stopped(q)' <=> Stopped(q)
  /\ \/ UNCHANGED run
     \/ ~IsTerminal(r) /\ IsTerminal(r)'
     \/ IsExecuting(r) /\ ~Stopped(r) /\ run'[r].status = "queued"

(* The dispatcher's Run is unbound until its binding is acquired. *)
Claimed ==
  ~Idling =>
    /\ dispatch.run \in Run
    /\ dispatch.stage \in {"claimed", "planned"} /\ run[dispatch.run].status = "starting"
         => run[dispatch.run].bound = 0

(* Every boot but the first follows a fault. *)
BootOK == boot <= 1 + faults

Inv == TypeOK /\ Rows /\ Claimed /\ BootOK

(* The types of what is not the database. *)
RestOK ==
  /\ dispatch \in Slot
  /\ link \in {"down", "up", "attached", "draining"}
  /\ wire \in Seq(Frame)
  /\ boot \in Boot
  /\ held \in [Run -> Execution]
  /\ stray \subseteq Run
  /\ orphans \subseteq Run
  /\ begun \in [Run -> 0..MaxGen]
  /\ faults \in 0..MaxFault

(* A step of RunExecution is a step of RunLifecycle or none. *)
LifeStep == [Lifecycle!Next]_(Lifecycle!vars)

(* What is shown of every step. *)
Sound == Inv' /\ LifeStep

USE DEF db

LEMMA ZeroFits == 0 \in 0..MaxGen
  BY BoundAssumption

-----------------------------------------------------------------------------
(* 1. Transactions.                                                        *)

(* Nothing happens to the tables. *)
LEMMA KeepRows == ASSUME Rows, UNCHANGED db PROVE Rows' /\ \A r \in Run : Settled(r)
  BY DEF Rows, DbTypeOK, RowOK, Settled, Stopped, IsTerminal, IsExecuting

LEMMA FinalizeRows ==
  ASSUME Rows, NEW r \in Run, NEW status \in Terminal, NEW source,
         ~IsTerminal(r), Finalize(r, status, source)
  PROVE  Rows' /\ Settled(r)
<1>. DEFINE outcome == Outcome(r, status, source)
<1>1. outcome \in Terminal
  BY DEF Outcome, Terminal
<1>. HIDE DEF outcome
<1>2. run' = [run EXCEPT ![r].status = outcome,
                         ![r].ended = @ \/ (source = Runner /\ outcome # "completed")]
  BY DEF Finalize, outcome
<1>3. run' \in [Run -> RunRow]
  <2>1. run[r] \in RunRow
    BY DEF Rows, DbTypeOK
  <2>2. (run[r].ended \/ (source = Runner /\ outcome # "completed")) \in BOOLEAN
    OBVIOUS
  <2>3. \A e \in BOOLEAN : [run[r] EXCEPT !.status = outcome, !.ended = e] \in RunRow
    BY <1>1, <2>1 DEF RunRow
  <2>. QED
    BY <1>2, <2>2, <2>3 DEF Rows, DbTypeOK
<1>4. /\ execute' \in [Run -> CommandStatus]
      /\ stop' \in [Run -> CommandStatus \cup {"none"}]
      /\ grant' = grant
      /\ \A q \in Run : Stopped(q)' <=> Stopped(q)
  BY DEF Rows, DbTypeOK, Finalize, CommandStatus, Open, Stopped
<1>5. session' \in SessionRow /\ session'.gen = session.gen
  BY DEF Rows, DbTypeOK, Finalize, SessionRow
<1>6. \A q \in Run : RowOK(q)'
  BY <1>1, <1>2, <1>3, <1>4, <1>5
     DEF Rows, DbTypeOK, RowOK, RunRow, IsTerminal, IsExecuting, Terminal, Executing
<1>7. Settled(r)
  BY <1>1, <1>2, <1>4 DEF Rows, DbTypeOK, RunRow, Settled, IsTerminal
<1>. QED
  BY <1>3, <1>4, <1>5, <1>6, <1>7 DEF Rows, DbTypeOK

LEMMA EndStoppedRows ==
  ASSUME Rows, NEW r \in Run, IsExecuting(r), EndStopped(r) PROVE Rows' /\ Settled(r)
<1>1. run' \in [Run -> RunRow]
  <2>1. run[r] \in RunRow
    BY DEF Rows, DbTypeOK
  <2>2. [run[r] EXCEPT !.status = "interrupted", !.bound = 0] \in RunRow
    BY <2>1, ZeroFits DEF RunRow, Terminal
  <2>. QED
    BY <2>2 DEF Rows, DbTypeOK, EndStopped
<1>2. /\ execute' \in [Run -> CommandStatus]
      /\ stop' \in [Run -> CommandStatus \cup {"none"}]
      /\ grant' = grant
      /\ \A q \in Run : Stopped(q)' <=> Stopped(q)
  BY DEF Rows, DbTypeOK, EndStopped, CommandStatus, Open, Stopped
<1>3. session' \in SessionRow /\ session'.gen = session.gen
  BY DEF Rows, DbTypeOK, EndStopped, SessionRow
<1>4. \A q \in Run : RowOK(q)'
  BY <1>1, <1>2, <1>3
     DEF Rows, DbTypeOK, RowOK, RunRow, EndStopped, IsTerminal, IsExecuting, Terminal, Executing
<1>5. Settled(r)
  BY <1>2 DEF Rows, DbTypeOK, RunRow, EndStopped, Settled, IsTerminal, IsExecuting, Terminal,
              Executing
<1>. QED
  BY <1>1, <1>2, <1>3, <1>4, <1>5 DEF Rows, DbTypeOK

LEMMA ReturnRows ==
  ASSUME Rows, NEW r \in Run, IsExecuting(r), ~Stopped(r), ReturnToQueue(r)
  PROVE  Rows' /\ Settled(r)
<1>1. run' \in [Run -> RunRow] /\ execute' \in [Run -> CommandStatus]
  <2>1. run[r] \in RunRow
    BY DEF Rows, DbTypeOK
  <2>2. [run[r] EXCEPT !.status = "queued", !.bound = 0] \in RunRow
    BY <2>1, ZeroFits DEF RunRow
  <2>3. run' \in [Run -> RunRow]
    BY <2>2 DEF Rows, DbTypeOK, ReturnToQueue
  <2>. QED
    BY <2>3 DEF Rows, DbTypeOK, ReturnToQueue, CommandStatus
<1>2. \A q \in Run : RowOK(q)'
  BY <1>1 DEF Rows, DbTypeOK, RowOK, RunRow, ReturnToQueue, Stopped, IsTerminal, IsExecuting,
              Terminal, Executing
<1>3. Settled(r)
  BY DEF Rows, DbTypeOK, RunRow, ReturnToQueue, Settled, Stopped
<1>. QED
  BY <1>1, <1>2, <1>3 DEF Rows, DbTypeOK, ReturnToQueue

LEMMA RequeueRows ==
  ASSUME Rows, NEW r \in Run, IsExecuting(r), Requeue(r) PROVE Rows' /\ Settled(r)
  BY EndStoppedRows, ReturnRows DEF Requeue

LEMMA RecoverLostRows ==
  ASSUME Rows, NEW r \in Run, IsExecuting(r), RecoverLost(r) PROVE Rows' /\ Settled(r)
<1>0. ~IsTerminal(r)
  BY DEF IsExecuting, IsTerminal, Executing, Terminal
<1>1. CASE Finalize(r, "failed", Host)
  BY <1>0, <1>1, FinalizeRows DEF Terminal
<1>2. CASE ~Finalize(r, "failed", Host)
  <2>1. /\ Resumable(r) /\ session.gen < MaxGen
        /\ run' = [run EXCEPT ![r].status = "queued", ![r].bound = 0,
                              ![r].recoveries = @ + 1, ![r].replacing = TRUE]
        /\ execute' = [execute EXCEPT ![r] = "pending"]
        /\ grant' = [grant EXCEPT ![r] = 0]
        /\ session' = [session EXCEPT !.gen = @ + 1, !.holder = 0, !.lease = "none",
                                      !.status = "ready"]
        /\ stop' = stop
    BY <1>2 DEF RecoverLost
  <2>2. session' \in SessionRow /\ session'.gen = session.gen + 1
    <3>1. session \in SessionRow
      BY DEF Rows, DbTypeOK
    <3>2. session.gen + 1 \in 0..MaxGen
      BY <2>1, <3>1, BoundAssumption DEF SessionRow
    <3>. QED
      BY <2>1, <3>1, <3>2 DEF SessionRow
  <2>3. /\ run[r].recoveries \in 0..MaxGen /\ session.gen \in 0..MaxGen
        /\ run[r].recoveries <= session.gen
    BY DEF Rows, DbTypeOK, RowOK, RunRow, SessionRow
  <2>4. run[r].recoveries + 1 \in 0..MaxGen
    BY <2>1, <2>3, BoundAssumption
  <2>5. run' \in [Run -> RunRow]
    BY <2>1, <2>4, BoundAssumption DEF Rows, DbTypeOK, RunRow
  <2>6. execute' \in [Run -> CommandStatus] /\ grant' \in [Run -> 0..MaxGen]
    BY <2>1, BoundAssumption DEF Rows, DbTypeOK, CommandStatus
  <2>7. RowOK(r)'
    BY <2>1, <2>2, <2>3, <2>5
       DEF Rows, DbTypeOK, RowOK, RunRow, Resumable, Stopped, IsTerminal, IsExecuting
  <2>8. ASSUME NEW q \in Run, q # r PROVE RowOK(q)'
    <3>1. run'[q] = run[q] /\ grant'[q] = grant[q] /\ stop'[q] = stop[q]
      BY <2>1, <2>8 DEF Rows, DbTypeOK
    <3>2. run[q].recoveries <= session.gen + 1
      BY DEF Rows, DbTypeOK, RowOK, RunRow, SessionRow
    <3>. QED
      BY <2>2, <3>1, <3>2 DEF Rows, RowOK, Stopped, IsTerminal, IsExecuting
  <2>9. Settled(r)
    BY <2>1 DEF Rows, DbTypeOK, RunRow, Settled, Resumable, Stopped
  <2>. QED
    BY <2>1, <2>2, <2>5, <2>6, <2>7, <2>8, <2>9 DEF Rows, DbTypeOK
<1>. QED
  BY <1>1, <1>2

LEMMA RetryRows == ASSUME Rows, NEW r \in Run, Retry(r) PROVE Rows' /\ Settled(r)
  BY RequeueRows, KeepRows DEF Retry, IsExecuting, Executing

LEMMA FailRows == ASSUME Rows, NEW r \in Run, Fail(r) PROVE Rows' /\ Settled(r)
  BY FinalizeRows, KeepRows DEF Fail, Terminal
(* The report of a Run by the binding that holds it. *)
LEMMA ApplyRows ==
  ASSUME Rows, NEW r \in Run, NEW e \in Entry, Accepts(r, e), Apply(r, e)
  PROVE  Rows' /\ (Settled(r) \/ (/\ run[r].status = "starting"
                                  /\ run' = [run EXCEPT ![r].status = "running",
                                               ![r].started = TRUE, ![r].replacing = FALSE]
                                  /\ stop' = stop))
<1>1. IsExecuting(r) /\ ~IsTerminal(r) /\ run[r].bound # 0
  BY DEF Accepts, Binds, Bound, IsExecuting, IsTerminal, Executing, Terminal
<1>2. CASE e = "bound"
  <2>1. /\ session' = [session EXCEPT !.ref = TRUE,
                          !.status = IF @ = "starting" THEN "ready" ELSE @]
        /\ UNCHANGED <<run, execute, stop, grant>>
    BY <1>2 DEF Apply, Terminal
  <2>2. session' \in SessionRow /\ session'.gen = session.gen
    BY <2>1 DEF Rows, DbTypeOK, SessionRow
  <2>. QED
    BY <2>1, <2>2 DEF Rows, DbTypeOK, RowOK, Settled, Stopped, IsTerminal, IsExecuting
<1>3. CASE e = "started"
  <2>1. /\ run' = [run EXCEPT ![r].status = "running", ![r].started = TRUE,
                               ![r].replacing = FALSE]
        /\ session' = [session EXCEPT !.status = "ready"]
        /\ UNCHANGED <<execute, stop, grant>>
        /\ run[r].status = "starting"
    BY <1>3 DEF Apply, Accepts, Terminal
  <2>2. session' \in SessionRow /\ session'.gen = session.gen
    BY <2>1 DEF Rows, DbTypeOK, SessionRow
  <2>3. run' \in [Run -> RunRow]
    <3>1. run[r] \in RunRow
      BY DEF Rows, DbTypeOK
    <3>2. [run[r] EXCEPT !.status = "running", !.started = TRUE, !.replacing = FALSE] \in RunRow
      BY <3>1 DEF RunRow, Executing
    <3>. QED
      BY <2>1, <3>2 DEF Rows, DbTypeOK
  <2>4. \A q \in Run : RowOK(q)'
    BY <1>1, <2>1, <2>2, <2>3
       DEF Rows, DbTypeOK, RowOK, RunRow, Stopped, IsTerminal, IsExecuting, Terminal, Executing
  <2>. QED
    BY <2>1, <2>2, <2>3, <2>4 DEF Rows, DbTypeOK
<1>4. CASE e = "lost"
  BY <1>1, <1>4, RecoverLostRows DEF Apply, Terminal
<1>5. CASE e \in Terminal
  BY <1>1, <1>5, FinalizeRows DEF Apply, Terminal
<1>. QED
  BY <1>2, <1>3, <1>4, <1>5 DEF Entry, Terminal

-----------------------------------------------------------------------------
(* 2. What a transaction means to the dispatcher and to the Lifecycle.     *)

LEMMA ClaimedKept ==
  ASSUME Rows, Claimed, NEW r \in Run, Settled(r),
         dispatch'.run = dispatch.run,
         dispatch'.stage \in {"idle", dispatch.stage}
  PROVE  Claimed'
<1>1. \A q \in Run : run'[q].status = "starting" => run'[q] = run[q]
  BY DEF Settled, IsTerminal, Terminal
<1>. QED
  BY <1>1 DEF Claimed, Idling

LEMMA IdleClaims == ASSUME dispatch' = Idle PROVE Claimed'
  BY DEF Claimed, Idling, Idle

LEMMA SettledSteps ==
  ASSUME Rows, Rows', NEW r \in Run, Settled(r) PROVE LifeStep
<1>1. stopped' = stopped
  BY DEF Settled, stopped
<1>2. CASE UNCHANGED run
  BY <1>1, <1>2 DEF LifeStep, Lifecycle!vars, life, IsExecuting
<1>3. CASE ~IsTerminal(r) /\ IsTerminal(r)'
  <2>1. life' = [life EXCEPT ![r] = run'[r].status]
    BY <1>3 DEF Settled, life, IsTerminal, IsExecuting, Terminal, Executing
  <2>2. ~Lifecycle!Ended(r)
    BY <1>3 DEF Lifecycle!Ended, Lifecycle!Outcomes, Rows, DbTypeOK, RunRow, life, IsTerminal,
                IsExecuting, Terminal, Executing
  <2>3. Lifecycle!End(r)
    BY <1>1, <1>3, <2>1, <2>2 DEF Lifecycle!End, Lifecycle!Outcomes, IsTerminal, Terminal
  <2>. QED
    BY <2>3 DEF LifeStep, Lifecycle!Next
<1>4. CASE IsExecuting(r) /\ ~Stopped(r) /\ run'[r].status = "queued"
  <2>1. life' = [life EXCEPT ![r] = "waiting"]
    BY <1>4 DEF Settled, life, IsExecuting, Executing
  <2>2. Lifecycle!Return(r)
    BY <1>1, <1>4, <2>1 DEF Lifecycle!Return, life, stopped, IsExecuting, Executing
  <2>. QED
    BY <2>2 DEF LifeStep, Lifecycle!Next
<1>. QED
  BY <1>2, <1>3, <1>4 DEF Settled

LEMMA UnmovedSteps ==
  ASSUME UNCHANGED <<run, stop>> PROVE LifeStep
  BY DEF LifeStep, Lifecycle!vars, life, stopped, IsExecuting, Stopped

-----------------------------------------------------------------------------
(* 3. Actions.                                                             *)

LEMMA SoundParts == ASSUME RestOK', Rows', Claimed', BootOK', LifeStep PROVE Sound
  BY DEF Sound, Inv, TypeOK, RestOK, Rows, DbTypeOK

LEMMA PutType ==
  ASSUME wire \in Seq(Frame), NEW type \in {"execute", "interrupt", "attached", "revoked"},
         NEW rs \in SUBSET Run, NEW g \in 0..MaxGen
  PROVE  Put(type, rs, g) \in Seq(Frame)
<1>1. [type |-> type, runs |-> rs, gen |-> g] \in Frame
  BY DEF Frame
<1>. QED
  BY <1>1 DEF Put

LEMMA NoFrames == <<>> \in Seq(Frame)
  OBVIOUS

LEMMA ReadingType ==
  ASSUME wire \in Seq(Frame), NEW type, Reading(type)
  PROVE  Head(wire) \in Frame /\ wire' \in Seq(Frame)
  BY DEF Reading

(* Actions that leave the database alone. *)
LEMMA QuietSteps ==
  ASSUME Inv, UNCHANGED db, RestOK', Claimed', BootOK' PROVE Sound
<1>1. Rows'
  BY KeepRows DEF Inv
<1>2. LifeStep
  BY UnmovedSteps
<1>. QED
  BY <1>1, <1>2, SoundParts

(* Actions around one transaction, that keep the dispatch or drop it. *)
LEMMA TransactionSteps ==
  ASSUME Inv, NEW r \in Run, Rows', Settled(r), RestOK', BootOK',
         \/ dispatch'.run = dispatch.run /\ dispatch'.stage = dispatch.stage
         \/ dispatch' = Idle
  PROVE  Sound
<1>1. Rows /\ Claimed
  BY DEF Inv
<1>2. Claimed'
  BY <1>1, ClaimedKept, IdleClaims
<1>3. LifeStep
  BY <1>1, SettledSteps
<1>. QED
  BY <1>2, <1>3, SoundParts

LEMMA IdleType == Idle \in Slot
  BY ZeroFits DEF Idle, Slot

LEMMA StopSound == ASSUME Inv, NEW r \in Run, Stop(r) PROVE Sound
<1>. USE DEF Inv
<1>1. RestOK' /\ BootOK' /\ UNCHANGED dispatch
  BY DEF Stop, TypeOK, RestOK, BootOK, runner
<1>2. CASE EndsHere(r)
  <2>1. /\ run' = [run EXCEPT ![r].status = "interrupted"]
        /\ execute' = [execute EXCEPT ![r] = IF @ \in Open THEN "failed" ELSE @]
        /\ stop' = [stop EXCEPT ![r] = "succeeded"]
        /\ UNCHANGED <<grant, session>>
    BY <1>2 DEF Stop
  <2>2. run' \in [Run -> RunRow]
    BY <2>1 DEF Rows, DbTypeOK, RunRow, Terminal
  <2>3. execute' \in [Run -> CommandStatus] /\ stop' \in [Run -> CommandStatus \cup {"none"}]
    BY <2>1 DEF Rows, DbTypeOK, CommandStatus
  <2>4. \A q \in Run : RowOK(q)'
    BY <2>1, <2>2
       DEF Rows, DbTypeOK, RowOK, RunRow, Stopped, IsTerminal, IsExecuting, Terminal, Executing
  <2>5. Rows'
    BY <2>1, <2>2, <2>3, <2>4 DEF Rows, DbTypeOK
  <2>6. Claimed'
    BY <1>1, <2>1, <2>2 DEF Claimed, Idling, Rows, DbTypeOK, RunRow
  <2>7. stopped' = stopped \cup {r} /\ life' = [life EXCEPT ![r] = "interrupted"]
    BY <2>1 DEF stopped, Stopped, life, IsExecuting, Rows, DbTypeOK, RunRow, Terminal, Executing
  <2>8. ~Lifecycle!Ended(r) /\ r \notin stopped
    BY <2>1 DEF Stop, Lifecycle!Ended, Lifecycle!Outcomes, Rows, DbTypeOK, RunRow, life, stopped,
                IsTerminal, IsExecuting, Terminal, Executing
  <2>9. LifeStep
    BY <2>7, <2>8 DEF LifeStep, Lifecycle!Next, Lifecycle!Stop
  <2>. QED
    BY <1>1, <2>5, <2>6, <2>9, SoundParts
<1>3. CASE ~EndsHere(r)
  <2>1. /\ stop' = [stop EXCEPT ![r] = "pending"]
        /\ grant' = [grant EXCEPT ![r] = 0]
        /\ UNCHANGED <<run, execute, session>>
        /\ ~IsTerminal(r)
    BY <1>3 DEF Stop
  <2>2. IsExecuting(r) /\ run[r].bound # 0
    BY <1>3, <2>1 DEF EndsHere, Rows, DbTypeOK, RowOK, RunRow, IsTerminal, IsExecuting, Executing
  <2>3. DbTypeOK'
    BY <2>1, ZeroFits DEF Rows, DbTypeOK, CommandStatus
  <2>4. \A q \in Run : RowOK(q)'
    BY <2>1, <2>2 DEF Rows, DbTypeOK, RowOK, Stopped, IsTerminal, IsExecuting, Executing
  <2>5. Claimed'
    BY <1>1, <2>1 DEF Claimed, Idling
  <2>6. stopped' = stopped \cup {r} /\ life' = life /\ life[r] = "working"
    BY <2>1, <2>2 DEF stopped, Stopped, life, IsExecuting, Rows, DbTypeOK, Executing
  <2>7. ~Lifecycle!Ended(r) /\ r \notin stopped
    BY <2>6 DEF Stop, Lifecycle!Ended, Lifecycle!Outcomes, stopped
  <2>8. LifeStep
    BY <2>6, <2>7 DEF LifeStep, Lifecycle!Next, Lifecycle!Stop
  <2>. QED
    BY <1>1, <2>3, <2>4, <2>5, <2>8, SoundParts DEF Rows
<1>. QED
  BY <1>2, <1>3

LEMMA AbandonSound == ASSUME Inv, NEW r \in Run, Abandon(r) PROVE Sound
<1>. USE DEF Inv
<1>1. Rows' /\ Settled(r)
  BY FinalizeRows DEF Abandon, Terminal
<1>2. wire' \in Seq(Frame)
  <2>1. Put("revoked", {r}, 0) \in Seq(Frame)
    BY PutType, ZeroFits DEF TypeOK
  <2>. QED
    BY <2>1 DEF Abandon, TypeOK
<1>3. RestOK' /\ BootOK' /\ UNCHANGED dispatch
  BY <1>2 DEF Abandon, TypeOK, RestOK, BootOK, runner
<1>. QED
  BY <1>1, <1>3, TransactionSteps

LEMMA ClaimSound == ASSUME Inv, NEW r \in Run, Claim(r) PROVE Sound
<1>. USE DEF Inv
<1>1. /\ run' = [run EXCEPT ![r].status = "starting"]
      /\ execute' = [execute EXCEPT ![r] = "dispatched"]
      /\ dispatch' = [Idle EXCEPT !.stage = "claimed", !.run = r]
      /\ UNCHANGED <<stop, grant, session>>
      /\ run[r].status = "queued" /\ NextInThread(r)
  BY DEF Claim
<1>2. run[r].bound = 0 /\ ~Stopped(r)
  BY <1>1 DEF Rows, RowOK, IsTerminal, IsExecuting, Terminal, Executing
<1>3. run' \in [Run -> RunRow] /\ execute' \in [Run -> CommandStatus]
  BY <1>1 DEF Rows, DbTypeOK, RunRow, Executing, CommandStatus
<1>4. \A q \in Run : RowOK(q)'
  BY <1>1, <1>2, <1>3
     DEF Rows, DbTypeOK, RowOK, RunRow, Stopped, IsTerminal, IsExecuting, Terminal, Executing
<1>5. dispatch' \in Slot
  BY <1>1, ZeroFits DEF Slot, Idle
<1>6. RestOK' /\ BootOK'
  BY <1>5 DEF Claim, TypeOK, RestOK, BootOK, runner
<1>7. Claimed'
  BY <1>1, <1>2, <1>3 DEF Claimed, Idling, Idle, Rows, DbTypeOK, RunRow
<1>8. life' = [life EXCEPT ![r] = "working"] /\ stopped' = stopped
  BY <1>1 DEF life, stopped, Stopped, IsExecuting, Executing, Rows, DbTypeOK, RunRow
<1>9. life[r] = "waiting" /\ r \notin stopped
  BY <1>1, <1>2 DEF life, stopped, IsExecuting, Executing
<1>10. \A q \in Run : q < r => Lifecycle!Ended(q)
  BY <1>1 DEF NextInThread, IsTerminal, IsExecuting, Terminal, Executing, life, Lifecycle!Ended,
              Lifecycle!Outcomes
<1>11. LifeStep
  BY <1>8, <1>9, <1>10 DEF LifeStep, Lifecycle!Next, Lifecycle!Start
<1>. QED
  BY <1>1, <1>3, <1>4, <1>6, <1>7, <1>11, SoundParts DEF Rows, DbTypeOK

(* Steps that touch nothing of the tables but the status of a stop command.*)
LEMMA StopCommandSteps ==
  ASSUME Inv, stop' \in [Run -> CommandStatus \cup {"none"}],
         \A r \in Run : Stopped(r)' <=> Stopped(r),
         UNCHANGED <<run, execute, grant, session>>, RestOK', Claimed', BootOK'
  PROVE  Sound
<1>1. Rows'
  BY DEF Inv, Rows, DbTypeOK, RowOK, IsTerminal, IsExecuting
<1>2. LifeStep
  BY DEF LifeStep, Lifecycle!vars, life, stopped, IsExecuting
<1>. QED
  BY <1>1, <1>2, SoundParts

LEMMA InterruptSound ==
  ASSUME Inv, NEW r \in Run, SendInterrupt(r) \/ HearInterrupted(r) PROVE Sound
<1>. USE DEF Inv
<1>1. /\ stop' \in [Run -> CommandStatus \cup {"none"}]
      /\ \A q \in Run : Stopped(q)' <=> Stopped(q)
      /\ UNCHANGED <<run, execute, grant, session, boot, faults>>
  BY DEF SendInterrupt, HearInterrupted, TypeOK, CommandStatus, Stopped, runner
<1>2. wire' \in Seq(Frame)
  <2>1. Put("interrupt", {r}, 0) \in Seq(Frame)
    BY PutType, ZeroFits DEF TypeOK
  <2>. QED
    BY <2>1 DEF SendInterrupt, HearInterrupted, TypeOK
<1>3. dispatch' \in Slot /\ dispatch'.run = dispatch.run /\ dispatch'.stage = dispatch.stage
  <2>1. dispatch \in Slot
    BY DEF TypeOK
  <2>2. dispatch' = dispatch \/ dispatch' = [dispatch EXCEPT !.fenced = TRUE]
    BY DEF SendInterrupt, HearInterrupted
  <2>. QED
    BY <2>1, <2>2 DEF Slot
<1>4. RestOK' /\ BootOK'
  BY <1>2, <1>3 DEF SendInterrupt, HearInterrupted, TypeOK, RestOK, BootOK, runner
<1>5. Claimed'
  BY <1>1, <1>3 DEF Claimed, Idling
<1>. QED
  BY <1>1, <1>4, <1>5, StopCommandSteps

LEMMA SweepSound == ASSUME Inv, NEW r \in Run, Sweep(r) PROVE Sound
<1>1. Rows' /\ Settled(r)
  BY RecoverLostRows DEF Inv, Sweep, Bound
<1>2. RestOK' /\ BootOK' /\ UNCHANGED dispatch
  BY DEF Sweep, Inv, TypeOK, RestOK, BootOK, runner
<1>. QED
  BY <1>1, <1>2, TransactionSteps

LEMMA BindSound == ASSUME Inv, Bind PROVE Sound
<1>. USE DEF Inv
<1>1. dispatch.stage = "planned" /\ dispatch.run \in Run
  BY DEF Bind, Claimed, Idling
<1>2. session.gen + 1 \in 0..MaxGen /\ session.gen + 1 # 0
  BY DEF Bind, Gen, TypeOK, SessionRow
<1>. PICK r \in Run : r = dispatch.run
  BY <1>1
<1>. PICK g \in 0..MaxGen : g = session.gen + 1 /\ g # 0
  BY <1>2
<1>3. /\ run[r].status = "starting"
      /\ session' = [session EXCEPT !.gen = g, !.holder = dispatch.boot,
                                    !.lease = "live", !.status = "starting"]
      /\ run' = [run EXCEPT ![r].bound = g, ![r].lastBoot = dispatch.boot]
      /\ grant' = [grant EXCEPT ![r] = g]
      /\ dispatch' = [dispatch EXCEPT !.stage = "bound", !.gen = g]
      /\ UNCHANGED <<execute, stop>>
  BY DEF Bind, Bindable
<1>4. run[r].bound = 0 /\ dispatch.boot \in {0} \cup Boot
  BY <1>1, <1>3 DEF Claimed, Idling, TypeOK, Slot
<1>5. ~Stopped(r)
  BY <1>3, <1>4 DEF Rows, RowOK, IsTerminal, IsExecuting, Terminal, Executing
<1>6. session' \in SessionRow /\ session'.gen = g
  BY <1>3, <1>4 DEF Rows, DbTypeOK, SessionRow
<1>7. run' \in [Run -> RunRow] /\ grant' \in [Run -> 0..MaxGen]
  <2>1. run[r] \in RunRow
    BY DEF Rows, DbTypeOK
  <2>2. [run[r] EXCEPT !.bound = g, !.lastBoot = dispatch.boot] \in RunRow
    BY <2>1, <1>4 DEF RunRow
  <2>. QED
    BY <1>3, <2>2 DEF Rows, DbTypeOK
<1>8. \A q \in Run : RowOK(q)'
  <2>1. \A q \in Run : run[q].recoveries <= g
    BY DEF Rows, DbTypeOK, RowOK, RunRow, SessionRow
  <2>2. /\ run'[r].status = "starting" /\ run'[r].bound = g
        /\ run'[r].recoveries = run[r].recoveries
    BY <1>3 DEF Rows, DbTypeOK, RunRow
  <2>3. RowOK(r)'
    BY <1>3, <1>5, <1>6, <2>1, <2>2 DEF RowOK, Stopped, IsTerminal, IsExecuting
  <2>4. ASSUME NEW q \in Run, q # r PROVE RowOK(q)'
    <3>1. run'[q] = run[q] /\ grant'[q] = grant[q] /\ stop'[q] = stop[q]
      BY <1>3, <2>4 DEF Rows, DbTypeOK
    <3>. QED
      BY <1>6, <2>1, <3>1 DEF Rows, RowOK, Stopped, IsTerminal, IsExecuting
  <2>. QED
    BY <2>3, <2>4
<1>9. dispatch' \in Slot /\ dispatch'.stage = "bound" /\ dispatch'.run = r
  BY <1>3 DEF TypeOK, Slot
<1>10. RestOK' /\ BootOK'
  BY <1>9 DEF Bind, TypeOK, RestOK, BootOK, runner
<1>11. Claimed'
  BY <1>9 DEF Claimed, Idling
<1>12. LifeStep
  <2>1. \A q \in Run : run'[q].status = run[q].status
    BY <1>3 DEF Rows, DbTypeOK, RunRow
  <2>2. \A q \in Run : IsExecuting(q)' <=> IsExecuting(q)
    BY <2>1 DEF IsExecuting
  <2>3. life' = life
    <3>1. \A q \in Run : life'[q] = life[q]
      BY <2>1, <2>2 DEF life
    <3>2. life = [q \in Run |-> life[q]] /\ life' = [q \in Run |-> life'[q]]
      BY DEF life
    <3>. QED
      BY <3>1, <3>2
  <2>4. stopped' = stopped
    BY <1>3 DEF stopped, Stopped
  <2>. QED
    BY <2>3, <2>4 DEF LifeStep, Lifecycle!vars
<1>. QED
  BY <1>3, <1>6, <1>7, <1>8, <1>10, <1>11, <1>12, SoundParts DEF Rows, DbTypeOK

(* Steps of a dispatch that change no table. *)
LEMMA QuietDispatchSound ==
  ASSUME Inv, Plan \/ Check \/ Send \/ LoseReply PROVE Sound
<1>. USE DEF Inv
<1>1. UNCHANGED db /\ BootOK'
  BY DEF Plan, Check, Send, LoseReply, BootOK, runner
<1>2. dispatch' \in Slot
  <2>1. dispatch \in Slot /\ boot \in Boot
    BY DEF TypeOK
  <2>2. CASE Plan
    BY <2>1, <2>2 DEF Plan, Slot
  <2>3. CASE Check
    BY <2>1, <2>3 DEF Check, Slot
  <2>4. CASE Send
    BY <2>1, <2>4 DEF Send, Slot
  <2>5. CASE LoseReply
    BY <2>5, IdleType DEF LoseReply
  <2>. QED
    BY <2>2, <2>3, <2>4, <2>5
<1>3. wire' \in Seq(Frame)
  <2>1. CASE Send
    <3>1. dispatch.run \in Run /\ dispatch.gen \in 0..MaxGen
      BY <2>1 DEF Send, Claimed, Idling, TypeOK, Slot
    <3>2. Put("execute", {dispatch.run}, dispatch.gen) \in Seq(Frame)
      BY <3>1, PutType DEF TypeOK
    <3>. QED
      BY <2>1, <3>2 DEF Send
  <2>2. CASE ~Send
    BY <2>2 DEF Plan, Check, LoseReply, TypeOK
  <2>. QED
    BY <2>1, <2>2
<1>4. RestOK'
  BY <1>2, <1>3 DEF Plan, Check, Send, LoseReply, TypeOK, RestOK, runner
<1>5. Claimed'
  <2>1. \/ dispatch' = Idle
        \/ dispatch'.run = dispatch.run /\ ~Idling
           /\ (dispatch'.stage \in {"claimed", "planned"}
                 => dispatch.stage \in {"claimed", "planned"})
    BY DEF Plan, Check, Send, LoseReply, Idling, TypeOK, Slot
  <2>. QED
    BY <1>1, <2>1, IdleClaims DEF Claimed
<1>. QED
  BY <1>1, <1>4, <1>5, QuietSteps

(* Steps that end a dispatch. *)
LEMMA EndDispatchSound ==
  ASSUME Inv, Reject \/ GiveUp \/ HearReply PROVE Sound
<1>. USE DEF Inv
<1>1. dispatch.run \in Run /\ dispatch' = Idle
  BY DEF Reject, GiveUp, HearReply, Claimed, Idling
<1>. PICK r \in Run : r = dispatch.run
  BY <1>1
<1>2. RestOK' /\ BootOK'
  BY IdleType DEF Reject, GiveUp, HearReply, TypeOK, RestOK, BootOK, runner
<1>3. Rows' /\ Settled(r)
  <2>1. CASE Reject
    BY <2>1, FailRows DEF Reject
  <2>2. CASE GiveUp
    BY <2>2, RetryRows DEF GiveUp
  <2>3. CASE HearReply
    <3>1. CASE dispatch.reply = "accepted"
      <4>1. /\ execute' = [execute EXCEPT ![r] = IF @ = "dispatched" THEN "succeeded" ELSE @]
            /\ UNCHANGED <<run, stop, grant, session>>
        BY <2>3, <3>1 DEF HearReply
      <4>. QED
        BY <4>1 DEF Rows, DbTypeOK, CommandStatus, RowOK, Settled, Stopped, IsTerminal,
                    IsExecuting
    <3>2. CASE dispatch.reply = "retryable"
      BY <2>3, <3>2, RetryRows DEF HearReply
    <3>3. CASE dispatch.reply = "refused"
      BY <2>3, <3>3, FailRows DEF HearReply
    <3>. QED
      BY <2>3, <3>1, <3>2, <3>3 DEF HearReply, TypeOK, Slot
  <2>. QED
    BY <2>1, <2>2, <2>3
<1>. QED
  BY <1>1, <1>2, <1>3, TransactionSteps

LEMMA DispatcherSound == ASSUME Inv, Dispatcher PROVE Sound
  BY QuietDispatchSound, EndDispatchSound, BindSound DEF Dispatcher

LEMMA StaleSlot ==
  ASSUME Inv
  PROVE  Stale \in Slot /\ Stale.run = dispatch.run /\ Stale.stage = dispatch.stage
  BY DEF Inv, TypeOK, Slot, Stale

LEMMA ResentStops ==
  ASSUME Inv, stop' = Resent
  PROVE  /\ stop' \in [Run -> CommandStatus \cup {"none"}]
         /\ \A r \in Run : Stopped(r)' <=> Stopped(r)
  BY DEF Inv, TypeOK, Resent, CommandStatus, Stopped

(* The connection coming and going, and the Host's clock. *)
LEMMA LinkSound ==
  ASSUME Inv, Connect \/ Notice \/ Disconnect \/ LeaseExpires PROVE Sound
<1>. USE DEF Inv
<1>1. CASE Connect \/ Notice
  <2>1. UNCHANGED db /\ RestOK' /\ BootOK' /\ UNCHANGED dispatch
    BY <1>1, NoFrames DEF Connect, Notice, TypeOK, RestOK, BootOK, runner
  <2>2. Claimed'
    BY <2>1 DEF Claimed, Idling
  <2>. QED
    BY <2>1, <2>2, QuietSteps
<1>2. CASE Disconnect
  <2>1. dispatch' \in Slot /\ dispatch'.run = dispatch.run /\ dispatch'.stage = dispatch.stage
    BY <1>2, StaleSlot DEF Disconnect
  <2>2. faults' \in 0..MaxFault /\ faults' = faults + 1
    BY <1>2, BoundAssumption DEF Disconnect, TypeOK
  <2>3. BootOK'
    BY <1>2, <2>2 DEF Disconnect, BootOK, TypeOK, Boot, runner
  <2>4. RestOK'
    BY <1>2, <2>1, <2>2 DEF Disconnect, TypeOK, RestOK, runner
  <2>5. Claimed'
    BY <1>2, <2>1 DEF Disconnect, Claimed, Idling
  <2>6. stop' = Resent /\ UNCHANGED <<run, execute, grant, session>>
    BY <1>2 DEF Disconnect
  <2>. QED
    BY <2>3, <2>4, <2>5, <2>6, ResentStops, StopCommandSteps
<1>3. CASE LeaseExpires
  <2>1. session' = [session EXCEPT !.lease = "expired"] /\ UNCHANGED <<run, execute, stop, grant>>
    BY <1>3 DEF LeaseExpires
  <2>2. Rows' /\ \A r \in Run : Settled(r)
    BY <2>1 DEF Rows, DbTypeOK, SessionRow, RowOK, Settled, Stopped, IsTerminal, IsExecuting
  <2>3. RestOK' /\ BootOK' /\ UNCHANGED dispatch
    BY <1>3 DEF LeaseExpires, TypeOK, RestOK, BootOK, runner
  <2>4. Claimed'
    BY <2>1, <2>3 DEF Claimed, Idling
  <2>5. LifeStep
    BY <2>1, UnmovedSteps
  <2>. QED
    BY <2>2, <2>3, <2>4, <2>5, SoundParts
<1>. QED
  BY <1>1, <1>2, <1>3

LEMMA HostRestartSound == ASSUME Inv, HostRestart PROVE Sound
<1>. USE DEF Inv
<1>1. dispatch' = Idle /\ dispatch' \in Slot /\ Claimed'
  BY IdleType, IdleClaims DEF HostRestart
<1>2. faults' \in 0..MaxFault /\ faults' = faults + 1
  BY BoundAssumption DEF HostRestart, TypeOK
<1>3. RestOK' /\ BootOK'
  BY <1>1, <1>2 DEF HostRestart, TypeOK, RestOK, BootOK, Boot, runner
<1>4. CASE \E r \in Run : ClaimedOnly(r) /\ Requeue(r)
  <2>. PICK r \in Run : ClaimedOnly(r) /\ Requeue(r)
    BY <1>4
  <2>1. Rows' /\ Settled(r)
    BY RequeueRows DEF ClaimedOnly, IsExecuting, Executing
  <2>. QED
    BY <1>1, <1>3, <2>1, TransactionSteps
<1>5. CASE \A r \in Run : ~ClaimedOnly(r)
  <2>1. /\ session' \in {session, [session EXCEPT !.lease = "live"]}
        /\ stop' = Resent
        /\ UNCHANGED <<run, execute, grant>>
    BY <1>5 DEF HostRestart
  <2>2. session' \in SessionRow /\ session'.gen = session.gen
    BY <2>1 DEF Rows, DbTypeOK, SessionRow
  <2>3. Rows' /\ \A r \in Run : Settled(r)
    BY <2>1, <2>2, ResentStops DEF Rows, DbTypeOK, RowOK, Settled, Stopped, IsTerminal,
                                   IsExecuting
  <2>4. LifeStep
    BY <2>1, ResentStops DEF LifeStep, Lifecycle!vars, life, stopped, IsExecuting
  <2>. QED
    BY <1>1, <1>3, <2>3, <2>4, SoundParts
<1>. QED
  BY <1>4, <1>5 DEF HostRestart

LEMMA AttachSound == ASSUME Inv, Attach PROVE Sound
<1>. USE DEF Inv
<1>1. Put("attached", {r \in Run : Announced(r) /\ session.lease = "live"}, 0) \in Seq(Frame)
  BY PutType, ZeroFits DEF TypeOK
<1>2. RestOK' /\ BootOK' /\ UNCHANGED dispatch
  BY <1>1 DEF Attach, TypeOK, RestOK, BootOK, runner
<1>3. CASE \E r \in Run : Bound(r) /\ Settle(r)
  <2>. PICK r \in Run : Bound(r) /\ Settle(r)
    BY <1>3
  <2>1. IsExecuting(r)
    BY DEF Bound
  <2>2. UNCHANGED db \/ RecoverLost(r) \/ Requeue(r)
    BY DEF Settle
  <2>3. Rows' /\ Settled(r)
    BY <2>1, <2>2, KeepRows, RecoverLostRows, RequeueRows
  <2>. QED
    BY <1>2, <2>3, TransactionSteps
<1>4. CASE UNCHANGED db
  <2>1. Claimed'
    BY <1>2, <1>4 DEF Claimed, Idling
  <2>. QED
    BY <1>2, <1>4, <2>1, QuietSteps
<1>. QED
  BY <1>3, <1>4 DEF Attach

(* The Runner reading a frame: what it holds keeps its types, and the      *)
(* dispatch may get its answer.                                            *)
LEMMA AbortedType ==
  ASSUME Inv, NEW r \in Run, NEW cause \in {"stopped", "lost"}
  PROVE  Aborted(r, cause) \in Execution
<1>1. held[r] \in Execution
  BY DEF Inv, TypeOK
<1>. QED
  BY <1>1 DEF Aborted, Execution, Active

LEMMA NotHeldType == NotHeld \in Execution
<1>1. <<>> \in Seq(Entry)
  OBVIOUS
<1>. QED
  BY <1>1, ZeroFits DEF NotHeld, Execution

LEMMA RevokedType == ASSUME Inv, NEW r \in Run PROVE Revoked(r) \in Execution
<1>1. held[r] \in Execution /\ <<>> \in Seq(Entry)
  BY DEF Inv, TypeOK
<1>2. [held[r] EXCEPT !.phase = "stopping", !.cause = "revoked", !.log = <<>>] \in Execution
  BY <1>1 DEF Execution, Active
<1>. QED
  BY <1>2, NotHeldType DEF Revoked

(* Steps of the Runner that change neither tables nor boots. *)
LEMMA RunnerSteps ==
  ASSUME Inv, UNCHANGED <<db, link, boot, faults>>,
         dispatch' \in Slot, dispatch'.run = dispatch.run, dispatch'.stage = dispatch.stage,
         wire' \in Seq(Frame), held' \in [Run -> Execution],
         stray' \subseteq Run, orphans' \subseteq Run, begun' \in [Run -> 0..MaxGen]
  PROVE  Sound
<1>1. RestOK' /\ BootOK'
  BY DEF Inv, TypeOK, RestOK, BootOK
<1>2. Claimed'
  BY DEF Inv, Claimed, Idling
<1>. QED
  BY <1>1, <1>2, QuietSteps

LEMMA DeliverExecuteSound == ASSUME Inv, DeliverExecute PROVE Sound
<1>. USE DEF Inv
<1>1. Head(wire) \in Frame /\ wire' \in Seq(Frame)
  BY ReadingType DEF DeliverExecute, TypeOK
<1>2. dispatch' \in Slot /\ dispatch'.run = dispatch.run /\ dispatch'.stage = dispatch.stage
  <2>1. PICK a \in {"accepted", "retryable", "refused"} : Reply(a)
    BY DEF DeliverExecute
  <2>2. /\ [dispatch EXCEPT !.reply = a] \in Slot
        /\ [dispatch EXCEPT !.reply = a].run = dispatch.run
        /\ [dispatch EXCEPT !.reply = a].stage = dispatch.stage
    BY DEF TypeOK, Slot
  <2>. QED
    BY <2>1, <2>2 DEF Reply, TypeOK
<1>3. held' \in [Run -> Execution]
  <2>1. Head(wire).gen \in 0..MaxGen
    BY <1>1 DEF Frame
  <2>2. [NotHeld EXCEPT !.phase = "admitted", !.gen = Head(wire).gen] \in Execution
    BY <2>1, NotHeldType DEF Execution, Active
  <2>. QED
    BY <2>2 DEF DeliverExecute, TypeOK
<1>4. UNCHANGED <<db, link, boot, faults, stray, orphans, begun>>
  BY DEF DeliverExecute
<1>5. stray \subseteq Run /\ orphans \subseteq Run /\ begun \in [Run -> 0..MaxGen]
  BY DEF TypeOK
<1>. QED
  BY <1>1, <1>2, <1>3, <1>4, <1>5, RunnerSteps

LEMMA DeliverSound ==
  ASSUME Inv, DeliverInterrupt \/ DeliverRevoked \/ DeliverAttached PROVE Sound
<1>. USE DEF Inv
<1>1. wire' \in Seq(Frame)
  BY ReadingType DEF DeliverInterrupt, DeliverRevoked, DeliverAttached, TypeOK
<1>2. held' \in [Run -> Execution]
  <2>1. CASE DeliverInterrupt
    <3>1. \A r \in Run : Aborted(r, "stopped") \in Execution
      BY AbortedType
    <3>. QED
      BY <2>1, <3>1 DEF DeliverInterrupt, TypeOK
  <2>2. CASE DeliverRevoked
    BY <2>2, RevokedType DEF DeliverRevoked, TypeOK
  <2>3. CASE DeliverAttached
    <3>1. \A r \in Run : held[r] \in Execution
                          /\ [held[r] EXCEPT !.phase = "leased"] \in Execution
      BY DEF TypeOK, Execution, Active
    <3>. QED
      BY <2>3, <3>1, RevokedType DEF DeliverAttached
  <2>. QED
    BY <2>1, <2>2, <2>3
<1>3. UNCHANGED <<db, link, boot, faults, dispatch, stray, orphans, begun>>
  BY DEF DeliverInterrupt, DeliverRevoked, DeliverAttached
<1>4. /\ dispatch \in Slot
      /\ stray \subseteq Run /\ orphans \subseteq Run /\ begun \in [Run -> 0..MaxGen]
  BY DEF TypeOK
<1>. QED
  BY <1>1, <1>2, <1>3, <1>4, RunnerSteps

LEMMA ConnectionSound == ASSUME Inv, Connection PROVE Sound
  BY LinkSound, HostRestartSound, AttachSound, DeliverExecuteSound, DeliverSound DEF Connection

LEMMA RunningSound ==
  ASSUME Inv, NEW r \in Run, Heartbeat(r) \/ Begin(r) \/ Say(r) \/ LeaseLost(r)
  PROVE  Sound
<1>. USE DEF Inv
<1>1. held[r] \in Execution
  BY DEF TypeOK
<1>2. held' \in [Run -> Execution]
  <2>1. CASE Heartbeat(r) \/ Begin(r)
    <3>1. \A p \in {"leased", "acting"} : [held[r] EXCEPT !.phase = p] \in Execution
      BY <1>1 DEF Execution, Active
    <3>. QED
      BY <2>1, <3>1 DEF Heartbeat, Begin, TypeOK
  <2>2. CASE Say(r)
    <3>1. held[r].said + 1 \in 0..2
      BY <1>1, <2>2 DEF Say, Execution
    <3>2. \A e \in Entry : Append(held[r].log, e) \in Seq(Entry)
      BY <1>1 DEF Execution
    <3>3. "bound" \in Entry /\ "started" \in Entry
      BY DEF Entry
    <3>4. \A n \in 0..2, l \in Seq(Entry) :
            [held[r] EXCEPT !.said = n, !.log = l] \in Execution
      BY <1>1 DEF Execution
    <3>. QED
      BY <2>2, <3>1, <3>2, <3>3, <3>4 DEF Say, TypeOK
  <2>3. CASE LeaseLost(r)
    BY <2>3, AbortedType DEF LeaseLost, TypeOK
  <2>. QED
    BY <2>1, <2>2, <2>3
<1>3. begun' \in [Run -> 0..MaxGen]
  BY <1>1 DEF Heartbeat, Begin, Say, LeaseLost, TypeOK, Execution
<1>4. UNCHANGED <<db, dispatch, link, wire, boot, stray, orphans, faults>>
  BY DEF Heartbeat, Begin, Say, LeaseLost
<1>5. dispatch \in Slot /\ wire \in Seq(Frame) /\ stray \subseteq Run /\ orphans \subseteq Run
  BY DEF TypeOK
<1>. QED
  BY <1>2, <1>3, <1>4, <1>5, RunnerSteps

LEMMA EndingSound ==
  ASSUME Inv, NEW r \in Run, End(r) \/ Evict(r) \/ StrayEnds \/ OrphanEnds PROVE Sound
<1>. USE DEF Inv
<1>1. held[r] \in Execution
  BY DEF TypeOK
<1>2. held' \in [Run -> Execution]
  <2>1. CASE End(r)
    <3>1. Outcomes(r) \subseteq Entry
      BY <1>1 DEF Outcomes, Execution, Entry
    <3>2. \A e \in Entry : Append(held[r].log, e) \in Seq(Entry)
      BY <1>1 DEF Execution
    <3>3. \A l \in Seq(Entry) :
            [held[r] EXCEPT !.phase = "ended", !.log = l] \in Execution
      BY <1>1 DEF Execution
    <3>4. CASE Outcomes(r) = {}
      BY <2>1, <3>4, NotHeldType DEF End, TypeOK
    <3>5. CASE Outcomes(r) # {}
      <4>1. PICK o \in Outcomes(r) :
              held' = [held EXCEPT ![r].phase = "ended", ![r].log = Append(@, o)]
        BY <2>1, <3>5 DEF End
      <4>2. Append(held[r].log, o) \in Seq(Entry)
        BY <3>1, <3>2
      <4>. QED
        BY <4>1, <4>2, <3>3 DEF TypeOK
    <3>. QED
      BY <3>4, <3>5
  <2>2. CASE Evict(r) \/ StrayEnds \/ OrphanEnds
    BY <2>2, NotHeldType DEF Evict, StrayEnds, OrphanEnds, TypeOK
  <2>. QED
    BY <2>1, <2>2
<1>3. stray' \subseteq Run /\ orphans' \subseteq Run
  BY DEF End, Evict, StrayEnds, OrphanEnds, TypeOK
<1>4. UNCHANGED <<db, dispatch, link, wire, boot, begun, faults>>
  BY DEF End, Evict, StrayEnds, OrphanEnds
<1>5. dispatch \in Slot /\ wire \in Seq(Frame) /\ begun \in [Run -> 0..MaxGen]
  BY DEF TypeOK
<1>. QED
  BY <1>2, <1>3, <1>4, <1>5, RunnerSteps

LEMMA RunnerRestartSound == ASSUME Inv, RunnerRestart PROVE Sound
<1>. USE DEF Inv
<1>1. dispatch' \in Slot /\ dispatch'.run = dispatch.run /\ dispatch'.stage = dispatch.stage
  BY StaleSlot DEF RunnerRestart
<1>2. faults' \in 0..MaxFault /\ faults' = faults + 1 /\ boot' = boot + 1
  BY BoundAssumption DEF RunnerRestart, TypeOK
<1>3. BootOK' /\ boot' \in Boot
  <2>1. boot \in Nat /\ boot >= 1 /\ boot <= 1 + faults /\ faults \in Nat
    BY BoundAssumption DEF BootOK, TypeOK, Boot
  <2>2. faults + 1 <= MaxFault /\ MaxFault \in Nat
    BY <1>2, BoundAssumption
  <2>. QED
    BY <1>2, <2>1, <2>2 DEF BootOK, Boot
<1>4. held' \in [Run -> Execution]
  BY NotHeldType DEF RunnerRestart
<1>5. stray' \subseteq Run /\ orphans' \subseteq Run
  BY DEF RunnerRestart, Alive, TypeOK
<1>6. link' = "down" /\ wire' \in Seq(Frame) /\ UNCHANGED begun
  BY NoFrames DEF RunnerRestart
<1>7. RestOK'
  BY <1>1, <1>2, <1>3, <1>4, <1>5, <1>6 DEF RestOK, TypeOK
<1>8. stop' = Resent /\ UNCHANGED <<run, execute, grant, session>>
  BY DEF RunnerRestart
<1>9. Claimed'
  BY <1>1, <1>8 DEF Claimed, Idling
<1>. QED
  BY <1>3, <1>7, <1>8, <1>9, ResentStops, StopCommandSteps

LEMMA AcknowledgedType ==
  ASSUME Inv, NEW r \in Run, held[r].log # <<>>
  PROVE  Acknowledged(r) \in Execution /\ Head(held[r].log) \in Entry
<1>1. held[r] \in Execution /\ held[r].log \in Seq(Entry)
  BY DEF Inv, TypeOK, Execution
<1>2. Tail(held[r].log) \in Seq(Entry) /\ Head(held[r].log) \in Entry
  BY <1>1
<1>3. [held[r] EXCEPT !.log = Tail(@)] \in Execution
  BY <1>1, <1>2 DEF Execution
<1>. QED
  BY <1>2, <1>3, NotHeldType DEF Acknowledged

LEMMA CommitSound == ASSUME Inv, NEW r \in Run, Commit(r) PROVE Sound
<1>. USE DEF Inv
<1>. DEFINE e == Head(held[r].log)
<1>1. Acknowledged(r) \in Execution /\ e \in Entry
  BY AcknowledgedType DEF Commit, Reporting
<1>2. held' \in [Run -> Execution]
  BY <1>1 DEF Commit, TypeOK
<1>3. RestOK' /\ BootOK' /\ UNCHANGED dispatch
  BY <1>2 DEF Commit, TypeOK, RestOK, BootOK
<1>4. CASE Accepts(r, e) /\ Apply(r, e)
  <2>1. Rows' /\ (Settled(r) \/ (/\ run[r].status = "starting"
                                  /\ run' = [run EXCEPT ![r].status = "running",
                                               ![r].started = TRUE, ![r].replacing = FALSE]
                                  /\ stop' = stop))
    BY <1>1, <1>4, ApplyRows
  <2>2. CASE Settled(r)
    BY <1>3, <2>1, <2>2, TransactionSteps
  <2>3. CASE /\ run[r].status = "starting"
             /\ run' = [run EXCEPT ![r].status = "running",
                              ![r].started = TRUE, ![r].replacing = FALSE]
             /\ stop' = stop
    <3>1. run'[r].status = "running" /\ \A q \in Run : q # r => run'[q] = run[q]
      BY <2>3 DEF Rows, DbTypeOK, RunRow
    <3>2. Claimed'
      BY <1>3, <3>1 DEF Claimed, Idling
    <3>3. \A q \in Run : life'[q] = life[q]
      <4>1. life'[r] = "working" /\ life[r] = "working"
        BY <2>3, <3>1 DEF life, IsExecuting, Executing
      <4>2. \A q \in Run : q # r => life'[q] = life[q]
        BY <3>1 DEF life, IsExecuting
      <4>. QED
        BY <4>1, <4>2
    <3>4. life = [q \in Run |-> life[q]] /\ life' = [q \in Run |-> life'[q]]
      BY DEF life
    <3>5. life' = life
      BY <3>3, <3>4
    <3>6. stopped' = stopped
      BY <2>3 DEF stopped, Stopped
    <3>7. LifeStep
      BY <3>5, <3>6 DEF LifeStep, Lifecycle!vars
    <3>. QED
      BY <1>3, <2>1, <3>2, <3>7, SoundParts
  <2>. QED
    BY <2>1, <2>2, <2>3
<1>5. CASE UNCHANGED db
  <2>1. Claimed'
    BY <1>3, <1>5 DEF Claimed, Idling
  <2>. QED
    BY <1>3, <1>5, <2>1, QuietSteps
<1>. QED
  BY <1>4, <1>5 DEF Commit

LEMMA RefuseSound == ASSUME Inv, NEW r \in Run, Refuse(r) PROVE Sound
<1>. USE DEF Inv
<1>1. Put("revoked", {r}, 0) \in Seq(Frame)
  BY PutType, ZeroFits DEF TypeOK
<1>2. RestOK' /\ BootOK' /\ UNCHANGED dispatch
  BY <1>1 DEF Refuse, TypeOK, RestOK, BootOK, runner
<1>3. CASE Binds(r, held[r].gen, boot)
  <2>1. Finalize(r, "failed", Host) /\ ~IsTerminal(r)
    BY <1>3 DEF Refuse, Binds, Bound, IsExecuting, IsTerminal, Executing, Terminal
  <2>2. Rows' /\ Settled(r)
    BY <2>1, FinalizeRows DEF Terminal
  <2>. QED
    BY <1>2, <2>2, TransactionSteps
<1>4. CASE ~Binds(r, held[r].gen, boot)
  <2>1. UNCHANGED db
    BY <1>4 DEF Refuse
  <2>2. Claimed'
    BY <1>2, <2>1 DEF Claimed, Idling
  <2>. QED
    BY <1>2, <2>1, <2>2, QuietSteps
<1>. QED
  BY <1>3, <1>4

-----------------------------------------------------------------------------
(* 4. The theorems.                                                        *)

LEMMA Initially == ASSUME Init PROVE Inv /\ Lifecycle!Init
<1>1. /\ run = [r \in Run |-> [status |-> "queued", bound |-> 0, started |-> FALSE,
                              ended |-> FALSE, recoveries |-> 0, replacing |-> FALSE,
                              lastBoot |-> 0]]
      /\ session = [gen |-> 0, holder |-> 0, lease |-> "none", status |-> "ready", ref |-> FALSE]
  BY DEF Init
<1>2. run \in [Run -> RunRow]
  BY <1>1, ZeroFits DEF RunRow
<1>3. session \in SessionRow
  BY <1>1, ZeroFits DEF SessionRow
<1>4. /\ execute \in [Run -> CommandStatus] /\ stop \in [Run -> CommandStatus \cup {"none"}]
      /\ grant \in [Run -> 0..MaxGen]
  BY ZeroFits DEF Init, CommandStatus
<1>5. Rows
  BY <1>1, <1>2, <1>3, <1>4 DEF Init, Rows, DbTypeOK, RowOK, Stopped
<1>6. held \in [Run -> Execution] /\ wire \in Seq(Frame) /\ dispatch \in Slot
  BY NotHeldType, NoFrames, IdleType DEF Init
<1>7. boot \in Boot /\ faults \in 0..MaxFault /\ begun \in [Run -> 0..MaxGen]
  BY ZeroFits, BoundAssumption DEF Init, Boot
<1>8. RestOK /\ BootOK /\ Claimed
  BY <1>6, <1>7 DEF Init, RestOK, BootOK, Claimed, Idling, Idle
<1>9. Lifecycle!Init
  <2>1. \A r \in Run : life[r] = "waiting"
    BY <1>1 DEF life, IsExecuting, Executing
  <2>2. life = [r \in Run |-> life[r]]
    BY DEF life
  <2>3. stopped = {}
    BY DEF Init, stopped, Stopped
  <2>. QED
    BY <2>1, <2>2, <2>3 DEF Lifecycle!Init
<1>. QED
  BY <1>5, <1>8, <1>9 DEF Inv, TypeOK, Rows, DbTypeOK, RestOK

LEMMA Stuttering == ASSUME Inv, UNCHANGED vars PROVE Sound
<1>1. UNCHANGED <<run, execute, stop, grant, session>> /\ RestOK' /\ BootOK' /\ UNCHANGED dispatch
  BY DEF Inv, vars, runner, TypeOK, RestOK, BootOK
<1>2. Claimed'
  BY <1>1 DEF Inv, Claimed, Idling
<1>. QED
  BY <1>1, <1>2, QuietSteps

LEMMA EveryStep == ASSUME Inv, [Next]_vars PROVE Sound
<1>1. ASSUME NEW r \in Run, OfHost(r) PROVE Sound
  BY <1>1, StopSound, AbandonSound, ClaimSound, InterruptSound, SweepSound DEF OfHost
<1>2. ASSUME NEW r \in Run, OfRunner(r) PROVE Sound
  BY <1>2, RunningSound, EndingSound, CommitSound, RefuseSound DEF OfRunner
<1>3. CASE Dispatcher
  BY <1>3, DispatcherSound
<1>4. CASE Connection
  BY <1>4, ConnectionSound
<1>5. CASE RunnerRestart
  BY <1>5, RunnerRestartSound
<1>6. CASE StrayEnds \/ OrphanEnds
  <2>1. PICK r \in Run : TRUE
    BY <1>6 DEF StrayEnds, OrphanEnds, Inv, TypeOK
  <2>. QED
    BY <1>6, <2>1, EndingSound
<1>7. CASE UNCHANGED vars
  BY <1>7, Stuttering
<1>. QED
  BY <1>1, <1>2, <1>3, <1>4, <1>5, <1>6, <1>7 DEF Next, Processes

THEOREM Invariance == Spec => []Inv
<1>1. Init => Inv
  BY Initially
<1>2. Inv /\ [Next]_vars => Inv'
  BY EveryStep DEF Sound
<1>. QED
  BY <1>1, <1>2, PTL DEF Spec

(* Every variable keeps its type, whatever is lost or restarted. *)
THEOREM TypeCorrect == Spec => []TypeOK
<1>1. Inv => TypeOK
  BY DEF Inv
<1>. QED
  BY <1>1, Invariance, PTL

(* A stop is final: no transaction of the Host, in whatever order it meets *)
(* the stop, lets a stopped Run wait again or leaves it a grant.           *)
THEOREM StopsAreFinal == Spec => []StopIsFinal
<1>1. Inv => StopIsFinal
  BY DEF Inv, Rows, RowOK, StopIsFinal
<1>. QED
  BY <1>1, Invariance, PTL

(* The Host, its dispatcher and the Runner together keep the promise of    *)
(* RunLifecycle.                                                           *)
THEOREM Implementation == Spec => ImplementsLifecycle
<1>1. Init => Lifecycle!Init
  BY Initially
<1>2. Inv /\ [Next]_vars => [Lifecycle!Next]_(Lifecycle!vars)
  BY EveryStep DEF Sound, LifeStep
<1>. QED
  BY <1>1, <1>2, Invariance, PTL DEF Spec, ImplementsLifecycle, Lifecycle!Spec

(* What follows from the promise of RunLifecycle, whatever keeps it.  Every  *)
(* step keeps the types.                                                   *)
LEMMA LifeTypeStep ==
  ASSUME Lifecycle!TypeOK, [Lifecycle!Next]_(Lifecycle!vars) PROVE Lifecycle!TypeOK'
<1>1. CASE UNCHANGED Lifecycle!vars
  BY <1>1 DEF Lifecycle!TypeOK, Lifecycle!vars
<1>2. ASSUME NEW r \in Run, Lifecycle!Start(r) PROVE Lifecycle!TypeOK'
  BY <1>2 DEF Lifecycle!TypeOK, Lifecycle!Start
<1>3. ASSUME NEW r \in Run, Lifecycle!Return(r) PROVE Lifecycle!TypeOK'
  BY <1>3 DEF Lifecycle!TypeOK, Lifecycle!Return
<1>4. ASSUME NEW r \in Run, Lifecycle!Stop(r) PROVE Lifecycle!TypeOK'
  BY <1>4 DEF Lifecycle!TypeOK, Lifecycle!Stop, Lifecycle!Outcomes
<1>5. ASSUME NEW r \in Run, Lifecycle!End(r) PROVE Lifecycle!TypeOK'
  BY <1>5 DEF Lifecycle!TypeOK, Lifecycle!End, Lifecycle!Outcomes
<1>. QED
  BY <1>1, <1>2, <1>3, <1>4, <1>5 DEF Lifecycle!Next

LEMMA LifeTyped == Lifecycle!Spec => []Lifecycle!TypeOK
<1>1. Lifecycle!Init => Lifecycle!TypeOK
  BY DEF Lifecycle!Init, Lifecycle!TypeOK
<1>. QED
  BY <1>1, LifeTypeStep, PTL DEF Lifecycle!Spec

(* The Runs of a Thread work in their order: claimObservedCommand lets a   *)
(* Run start only when all before it have ended, and nothing takes an      *)
(* outcome back.                                                           *)
THEOREM WorkInOrder == Lifecycle!Spec => []Lifecycle!InOrder
<1>1. Lifecycle!Init => Lifecycle!InOrder
  BY DEF Lifecycle!Init, Lifecycle!InOrder
<1>2. ASSUME Lifecycle!TypeOK, Lifecycle!InOrder, [Lifecycle!Next]_(Lifecycle!vars)
      PROVE  Lifecycle!InOrder'
  <2>1. CASE UNCHANGED Lifecycle!vars
    BY <1>2, <2>1 DEF Lifecycle!InOrder, Lifecycle!vars, Lifecycle!Ended
  <2>2. ASSUME NEW r \in Run, Lifecycle!Start(r) PROVE Lifecycle!InOrder'
    BY <1>2, <2>2 DEF Lifecycle!TypeOK, Lifecycle!InOrder, Lifecycle!Start, Lifecycle!Ended, Lifecycle!Outcomes
  <2>3. ASSUME NEW r \in Run, Lifecycle!Return(r) PROVE Lifecycle!InOrder'
    BY <1>2, <2>3 DEF Lifecycle!TypeOK, Lifecycle!InOrder, Lifecycle!Return, Lifecycle!Ended, Lifecycle!Outcomes
  <2>4. ASSUME NEW r \in Run, Lifecycle!Stop(r) PROVE Lifecycle!InOrder'
    BY <1>2, <2>4 DEF Lifecycle!TypeOK, Lifecycle!InOrder, Lifecycle!Stop, Lifecycle!Ended, Lifecycle!Outcomes
  <2>5. ASSUME NEW r \in Run, Lifecycle!End(r) PROVE Lifecycle!InOrder'
    BY <1>2, <2>5 DEF Lifecycle!TypeOK, Lifecycle!InOrder, Lifecycle!End, Lifecycle!Ended, Lifecycle!Outcomes
  <2>. QED
    BY <1>2, <2>1, <2>2, <2>3, <2>4, <2>5 DEF Lifecycle!Next
<1>. QED
  BY <1>1, <1>2, LifeTyped, PTL DEF Lifecycle!Spec

(* A stopped Run is never back among those that wait for work. *)
THEOREM StoppedWorksOrEnds == Lifecycle!Spec => []Lifecycle!StoppedNeverWaits
<1>1. Lifecycle!Init => Lifecycle!StoppedNeverWaits
  BY DEF Lifecycle!Init, Lifecycle!StoppedNeverWaits
<1>2. ASSUME Lifecycle!TypeOK, Lifecycle!StoppedNeverWaits, [Lifecycle!Next]_(Lifecycle!vars)
      PROVE  Lifecycle!StoppedNeverWaits'
  <2>1. CASE UNCHANGED Lifecycle!vars
    BY <1>2, <2>1 DEF Lifecycle!StoppedNeverWaits, Lifecycle!vars
  <2>2. ASSUME NEW r \in Run, Lifecycle!Start(r) PROVE Lifecycle!StoppedNeverWaits'
    BY <1>2, <2>2 DEF Lifecycle!TypeOK, Lifecycle!StoppedNeverWaits, Lifecycle!Start
  <2>3. ASSUME NEW r \in Run, Lifecycle!Return(r) PROVE Lifecycle!StoppedNeverWaits'
    BY <1>2, <2>3 DEF Lifecycle!TypeOK, Lifecycle!StoppedNeverWaits, Lifecycle!Return
  <2>4. ASSUME NEW r \in Run, Lifecycle!Stop(r) PROVE Lifecycle!StoppedNeverWaits'
    BY <1>2, <2>4 DEF Lifecycle!TypeOK, Lifecycle!StoppedNeverWaits, Lifecycle!Stop
  <2>5. ASSUME NEW r \in Run, Lifecycle!End(r) PROVE Lifecycle!StoppedNeverWaits'
    BY <1>2, <2>5 DEF Lifecycle!TypeOK, Lifecycle!StoppedNeverWaits, Lifecycle!End, Lifecycle!Outcomes
  <2>. QED
    BY <1>2, <2>1, <2>2, <2>3, <2>4, <2>5 DEF Lifecycle!Next
<1>. QED
  BY <1>1, <1>2, LifeTyped, PTL DEF Lifecycle!Spec

(* No step of the lifecycle changes how a Run ended. *)
LEMMA EndedStays ==
  ASSUME Lifecycle!TypeOK, [Lifecycle!Next]_(Lifecycle!vars), NEW q \in Run, Lifecycle!Ended(q)
  PROVE  life'[q] = life[q]
<1>1. CASE UNCHANGED Lifecycle!vars
  BY <1>1 DEF Lifecycle!vars
<1>2. ASSUME NEW r \in Run, Lifecycle!Start(r) PROVE life'[q] = life[q]
  BY <1>2 DEF Lifecycle!TypeOK, Lifecycle!Start, Lifecycle!Ended, Lifecycle!Outcomes
<1>3. ASSUME NEW r \in Run, Lifecycle!Return(r) PROVE life'[q] = life[q]
  BY <1>3 DEF Lifecycle!TypeOK, Lifecycle!Return, Lifecycle!Ended, Lifecycle!Outcomes
<1>4. ASSUME NEW r \in Run, Lifecycle!Stop(r) PROVE life'[q] = life[q]
  BY <1>4 DEF Lifecycle!TypeOK, Lifecycle!Stop, Lifecycle!Ended, Lifecycle!Outcomes
<1>5. ASSUME NEW r \in Run, Lifecycle!End(r) PROVE life'[q] = life[q]
  BY <1>5 DEF Lifecycle!TypeOK, Lifecycle!End, Lifecycle!Ended, Lifecycle!Outcomes
<1>. QED
  BY <1>1, <1>2, <1>3, <1>4, <1>5 DEF Lifecycle!Next

(* The Runs of a Thread work in their order: what RunLifecycle promises    *)
(* holds of its implementation.                                            *)
THEOREM RunsKeepOrder == Spec => []RunsInOrder
<1>1. Lifecycle!InOrder => RunsInOrder
  BY DEF RunsInOrder
<1>. QED
  BY <1>1, Implementation, WorkInOrder, PTL DEF ImplementsLifecycle

-----------------------------------------------------------------------------
(* 5. The tables agree with each other.                                    *)

(* The Runs of the Thread execute one at a time, each after those before   *)
(* it.                                                                     *)
Order == \A q, r \in Run : q < r /\ IsExecuting(r) => IsTerminal(q)

(* A Run that executes under a binding has the session's newest one, and   *)
(* the boot that the session's row names is the one the Run was bound      *)
(* for.                                                                    *)
BindingOK ==
  /\ session.holder <= boot
  /\ \A r \in Run :
       /\ run[r].lastBoot <= boot
       /\ IsExecuting(r) /\ run[r].bound # 0 =>
            /\ run[r].bound = session.gen
            /\ session.status # "broken"
            /\ session.holder = run[r].lastBoot /\ session.holder # 0

(* What the dispatcher has read still says something of its Run, however   *)
(* long ago it was read: which Runs have ended, which binding is the       *)
(* Run's and whose it is, and that a dispatch that is not stale is for     *)
(* this boot and this connection.                                          *)
DispatchOK ==
  ~Idling =>
    /\ \A q \in Run : q < dispatch.run => IsTerminal(q)
    /\ dispatch.stage \in {"claimed", "planned"} /\ IsExecuting(dispatch.run)
         => run[dispatch.run].bound = 0
    /\ dispatch.stage \in {"bound", "checked", "sent"} =>
         /\ dispatch.gen \in 1..session.gen
         /\ IsExecuting(dispatch.run) => run[dispatch.run].bound = dispatch.gen
         /\ dispatch.gen = session.gen => session.holder = dispatch.boot
    /\ dispatch.stage # "claimed" =>
         /\ dispatch.boot # 0 /\ dispatch.boot <= boot
         /\ ~dispatch.stale => dispatch.boot = boot /\ link \in {"up", "attached"}
    /\ dispatch.stage \in {"checked", "sent"} =>
         /\ ~dispatch.stale => link = "attached"
         /\ dispatch.gen = session.gen => session.lease = "live"

(* What the sections before this one prove of every state. *)
Base == Inv /\ Order
Tables == CommandsFollowRun /\ BindingOK /\ DispatchOK

(* What a transaction makes of the tables, by what becomes of one Run: it  *)
(* ends, goes back as the same attempt, goes back as a new one, or has     *)
(* started; or no Run is touched.                                          *)
Elsewhere(r) ==
  \A q \in Run : q # r =>
    run'[q] = run[q] /\ execute'[q] = execute[q] /\ stop'[q] = stop[q]

SameBinding ==
  session'.gen = session.gen /\ session'.holder = session.holder /\ session'.lease = session.lease

Ends(r) ==
  /\ ~IsTerminal(r) /\ IsTerminal(r)'
  /\ execute'[r] \notin Open /\ stop'[r] \notin Open
  /\ Elsewhere(r)
  /\ run'[r].lastBoot = run[r].lastBoot
  /\ SameBinding
  /\ session'.status = "broken" => session.status = "broken" \/ IsExecuting(r)

Returns(r) ==
  /\ IsExecuting(r) /\ ~Stopped(r)
  /\ run'[r].status = "queued" /\ run'[r].bound = 0
  /\ run'[r].lastBoot = run[r].lastBoot /\ run'[r].replacing = run[r].replacing
  /\ run'[r].recoveries = run[r].recoveries
  /\ execute'[r] = "pending"
  /\ Elsewhere(r)
  /\ UNCHANGED <<stop, session>>

Recovers(r) ==
  /\ IsExecuting(r) /\ ~Stopped(r)
  /\ run'[r].status = "queued" /\ run'[r].bound = 0
  /\ run'[r].lastBoot = run[r].lastBoot /\ run'[r].replacing
  /\ run'[r].recoveries = run[r].recoveries + 1
  /\ execute'[r] = "pending"
  /\ Elsewhere(r)
  /\ stop' = stop
  /\ session'.gen = session.gen + 1 /\ session'.holder = 0 /\ session'.status = "ready"

Starts(r) ==
  /\ IsExecuting(r) /\ run[r].bound # 0
  /\ run'[r].status = "running" /\ run'[r].bound = run[r].bound
  /\ run'[r].lastBoot = run[r].lastBoot /\ run'[r].recoveries = run[r].recoveries
  /\ Elsewhere(r)
  /\ UNCHANGED <<execute, stop>>
  /\ SameBinding /\ session'.status = "ready"

Names ==
  /\ UNCHANGED <<run, execute, stop>>
  /\ SameBinding
  /\ session'.status = "broken" => session.status = "broken"

Effect(r) == Names \/ Ends(r) \/ Returns(r) \/ Recovers(r) \/ Starts(r)

(* Finalizing a Run that has not ended ends it and nothing else. *)
LEMMA FinalizeEnds ==
  ASSUME Rows, NEW r \in Run, NEW status \in Terminal, NEW source,
         ~IsTerminal(r), Finalize(r, status, source)
  PROVE  Ends(r)
<1>. DEFINE outcome == Outcome(r, status, source)
<1>1. outcome \in Terminal
  BY DEF Outcome, Terminal
<1>. HIDE DEF outcome
<1>2. /\ run' = [run EXCEPT ![r].status = outcome,
                            ![r].ended = @ \/ (source = Runner /\ outcome # "completed")]
      /\ execute' = [execute EXCEPT ![r] =
           IF @ \in Open THEN (IF source = Host THEN "failed" ELSE "succeeded") ELSE @]
      /\ stop' = [stop EXCEPT ![r] = IF @ \in Open THEN "failed" ELSE @]
  BY DEF Finalize, outcome
<1>3. /\ run'[r].status = outcome /\ run'[r].lastBoot = run[r].lastBoot
      /\ execute'[r] \notin Open /\ stop'[r] \notin Open
      /\ Elsewhere(r)
  BY <1>2 DEF Rows, DbTypeOK, RunRow, Open, Elsewhere
<1>4. /\ SameBinding
      /\ session'.status = "broken" => session.status = "broken" \/ run[r].status # "queued"
  BY DEF Finalize, Rows, DbTypeOK, SessionRow, SameBinding
<1>5. run[r].status # "queued" => IsExecuting(r)
  BY DEF Rows, DbTypeOK, RunRow, IsTerminal, IsExecuting
<1>. QED
  BY <1>1, <1>3, <1>4, <1>5 DEF Ends, IsTerminal

(* A Run no Runner holds ends or goes back as it was. *)
LEMMA RequeueEffect ==
  ASSUME Rows, NEW r \in Run, IsExecuting(r), Requeue(r)
  PROVE  Ends(r) \/ Returns(r)
<1>1. CASE Stopped(r)
  <2>1. EndStopped(r)
    BY <1>1 DEF Requeue
  <2>2. /\ run'[r].status = "interrupted" /\ run'[r].lastBoot = run[r].lastBoot
        /\ execute'[r] \notin Open /\ stop'[r] \notin Open
        /\ Elsewhere(r)
    BY <2>1 DEF EndStopped, Rows, DbTypeOK, RunRow, Open, Elsewhere
  <2>3. SameBinding /\ (session'.status = "broken" => session.status = "broken")
    BY <2>1 DEF EndStopped, Rows, DbTypeOK, SessionRow, SameBinding
  <2>. QED
    BY <2>2, <2>3 DEF Ends, IsTerminal, IsExecuting, Terminal, Executing
<1>2. CASE ~Stopped(r)
  BY <1>2 DEF Requeue, ReturnToQueue, Returns, Elsewhere, Rows, DbTypeOK, RunRow
<1>. QED
  BY <1>1, <1>2

(* A lost execution ends its Run or makes a new attempt of it. *)
LEMMA RecoverEffect ==
  ASSUME Rows, NEW r \in Run, IsExecuting(r), RecoverLost(r)
  PROVE  Ends(r) \/ Recovers(r)
<1>1. CASE Finalize(r, "failed", Host)
  BY <1>1, FinalizeEnds DEF IsExecuting, IsTerminal, Executing, Terminal
<1>2. CASE ~Finalize(r, "failed", Host)
  <2>1. /\ ~Stopped(r)
        /\ run' = [run EXCEPT ![r].status = "queued", ![r].bound = 0,
                              ![r].recoveries = @ + 1, ![r].replacing = TRUE]
        /\ execute' = [execute EXCEPT ![r] = "pending"]
        /\ session' = [session EXCEPT !.gen = @ + 1, !.holder = 0, !.lease = "none",
                                      !.status = "ready"]
        /\ stop' = stop
    BY <1>2 DEF RecoverLost, Resumable
  <2>. QED
    BY <2>1 DEF Recovers, Elsewhere, Rows, DbTypeOK, RunRow, SessionRow
<1>. QED
  BY <1>1, <1>2

(* Retrying a dispatch touches its Run at most. *)
LEMMA RetryEffect == ASSUME Rows, NEW r \in Run, Retry(r) PROVE Names \/ Ends(r) \/ Returns(r)
  BY RequeueEffect DEF Retry, Names, SameBinding, IsExecuting, Executing

(* Failing a dispatch ends its Run or does nothing. *)
LEMMA FailEffect == ASSUME Rows, NEW r \in Run, Fail(r) PROVE Names \/ Ends(r)
  BY FinalizeEnds DEF Fail, Terminal, Names, SameBinding

(* What the Host does with an entry of the journal it accepts. *)
LEMMA ApplyEffect ==
  ASSUME Rows, NEW r \in Run, NEW e \in Entry, Accepts(r, e), Apply(r, e)
  PROVE  /\ e = "bound" => Names
         /\ e = "started" => Starts(r)
         /\ e = "lost" => Ends(r) \/ Recovers(r)
         /\ e \in Terminal => Ends(r)
<1>1. IsExecuting(r) /\ ~IsTerminal(r) /\ run[r].bound # 0
  BY DEF Accepts, Binds, Bound, IsExecuting, IsTerminal, Executing, Terminal
<1>2. ASSUME e = "bound" PROVE Names
  BY <1>2 DEF Apply, Terminal, Names, SameBinding, Rows, DbTypeOK, SessionRow
<1>3. ASSUME e = "started" PROVE Starts(r)
  BY <1>1, <1>3 DEF Apply, Terminal, Starts, SameBinding, Elsewhere, Rows, DbTypeOK, SessionRow,
                    RunRow
<1>4. ASSUME e = "lost" PROVE Ends(r) \/ Recovers(r)
  BY <1>1, <1>4, RecoverEffect DEF Apply, Terminal
<1>5. ASSUME e \in Terminal PROVE Ends(r)
  BY <1>1, <1>5, FinalizeEnds DEF Apply, Terminal
<1>. QED
  BY <1>2, <1>3, <1>4, <1>5

(* Each such transaction keeps the commands of a Run in step with its      *)
(* status, and the bindings in step with the session.                      *)
LEMMA EffectTables ==
  ASSUME Base, NEW r \in Run, Effect(r), CommandsFollowRun, BindingOK, UNCHANGED boot
  PROVE  CommandsFollowRun' /\ BindingOK'
<1>1. CommandsFollowRun'
  BY DEF Effect, Names, Ends, Returns, Recovers, Starts, Elsewhere, CommandsFollowRun, Stopped,
         IsTerminal, IsExecuting, Terminal, Executing
<1>2. boot \in Nat /\ boot >= 1
  BY DEF Base, Inv, TypeOK, Boot
<1>3. ASSUME NEW q \in Run PROVE run'[q].lastBoot <= boot
  BY <1>2 DEF Effect, Names, Ends, Returns, Recovers, Starts, Elsewhere, BindingOK
<1>4. session'.holder <= boot
  BY <1>2 DEF Effect, Names, Ends, Returns, Recovers, Starts, SameBinding, BindingOK
<1>5. ASSUME NEW q \in Run, IsExecuting(q)', run'[q].bound # 0
      PROVE  /\ run'[q].bound = session'.gen
             /\ session'.status # "broken"
             /\ session'.holder = run'[q].lastBoot /\ session'.holder # 0
  <2>1. CASE q = r
    BY <1>5, <2>1 DEF Effect, Names, Ends, Returns, Recovers, Starts, SameBinding, BindingOK,
                 IsTerminal, IsExecuting, Terminal, Executing
  <2>2. CASE q # r
    <3>1. ~IsExecuting(r) \/ Names
      BY <1>5, <2>2 DEF Effect, Ends, Returns, Recovers, Starts, Elsewhere, Base, Order,
                 IsTerminal, IsExecuting, Terminal, Executing, Run
    <3>2. run'[q] = run[q]
      BY <2>2 DEF Effect, Names, Ends, Returns, Recovers, Starts, Elsewhere
    <3>. QED
      BY <1>5, <3>1, <3>2 DEF Effect, Names, Ends, Returns, Recovers, Starts, SameBinding,
                 BindingOK, IsExecuting
  <2>. QED
    BY <2>1, <2>2
<1>. QED
  BY <1>1, <1>3, <1>4, <1>5 DEF BindingOK

(* The numbers among the types. *)
LEMMA Typed ==
  ASSUME Base
  PROVE  /\ session.gen \in Nat /\ session.holder \in Nat /\ boot \in Nat /\ boot >= 1
         /\ dispatch.gen \in Nat /\ dispatch.boot \in Nat /\ dispatch \in Slot
         /\ \A r \in Run : r \in Nat /\ run[r].bound \in Nat /\ run[r].lastBoot \in Nat
<1>1. /\ session \in SessionRow /\ dispatch \in Slot /\ boot \in Boot
      /\ \A r \in Run : run[r] \in RunRow
  BY DEF Base, Inv, TypeOK
<1>2. MaxGen \in Nat /\ MaxFault \in Nat /\ MaxRun \in Nat
  BY BoundAssumption
<1>3. \A n : n \in Boot => n \in Nat /\ n >= 1
  BY <1>2 DEF Boot
<1>4. \A n : n \in {0} \cup Boot => n \in Nat
  BY <1>3
<1>5. \A n : n \in 0..MaxGen => n \in Nat
  BY <1>2
<1>6. session.gen \in Nat /\ session.holder \in Nat
  BY <1>1, <1>4, <1>5 DEF SessionRow
<1>7. dispatch.gen \in Nat /\ dispatch.boot \in Nat
  BY <1>1, <1>4, <1>5 DEF Slot
<1>8. ASSUME NEW r \in Run PROVE r \in Nat /\ run[r].bound \in Nat /\ run[r].lastBoot \in Nat
  <2>1. run[r].bound \in 0..MaxGen /\ run[r].lastBoot \in {0} \cup Boot
    BY <1>1 DEF RunRow
  <2>. QED
    BY <1>2, <1>4, <1>5, <2>1 DEF Run
<1>. QED
  BY <1>1, <1>3, <1>6, <1>7, <1>8

(* A transaction keeps what the dispatcher knows, whichever Run it is      *)
(* about.                                                                  *)
LEMMA EffectDispatch ==
  ASSUME Base, NEW r \in Run, Effect(r), DispatchOK,
         UNCHANGED <<boot, dispatch>>, link' = link \/ link' = "attached"
  PROVE  DispatchOK'
<1>1. session'.gen \in Nat /\ session'.gen >= session.gen
  BY Typed DEF Effect, Names, Ends, Returns, Recovers, Starts, SameBinding
<1>2. \A q \in Run : IsTerminal(q) => IsTerminal(q)'
  BY DEF Effect, Names, Ends, Returns, Recovers, Starts, Elsewhere, IsTerminal, IsExecuting,
         Terminal, Executing
<1>3. \A q \in Run : IsExecuting(q)' => IsExecuting(q) /\ run'[q].bound = run[q].bound
  BY DEF Effect, Names, Ends, Returns, Recovers, Starts, Elsewhere, IsTerminal, IsExecuting,
         Terminal, Executing
<1>4. session'.gen = session.gen =>
        session'.holder = session.holder /\ session'.lease = session.lease
  BY Typed DEF Effect, Names, Ends, Returns, Recovers, Starts, SameBinding
<1>5. ~Idling => dispatch.run \in Run
  BY DEF Base, Inv, Claimed
<1>6. dispatch.gen \in 1..session.gen => dispatch.gen \in 1..session'.gen /\ dispatch.gen <= session.gen
  BY <1>1, Typed
<1>7. dispatch.gen \in 1..session.gen /\ dispatch.gen = session'.gen => session'.gen = session.gen
  BY <1>1, Typed
<1>. QED
  BY <1>2, <1>3, <1>4, <1>5, <1>6, <1>7 DEF DispatchOK, Idling

(* An idle dispatcher knows nothing. *)
LEMMA IdleDispatch == ASSUME dispatch' = Idle PROVE DispatchOK'
  BY DEF DispatchOK, Idling, Idle

(* A stop keeps the tables. *)
LEMMA StopTables == ASSUME Base, Tables, NEW r \in Run, Stop(r) PROVE Tables'
<1>1. CASE EndsHere(r)
  <2>1. /\ ~IsTerminal(r)
        /\ run' = [run EXCEPT ![r].status = "interrupted"]
        /\ execute' = [execute EXCEPT ![r] = IF @ \in Open THEN "failed" ELSE @]
        /\ stop' = [stop EXCEPT ![r] = "succeeded"]
        /\ UNCHANGED <<grant, session>>
        /\ UNCHANGED <<dispatch, link, boot>>
    BY <1>1 DEF Stop, runner
  <2>2. Ends(r)
    BY <2>1 DEF Ends, Elsewhere, SameBinding, Base, Inv, Rows, DbTypeOK, RunRow, Open,
                IsTerminal, Terminal
  <2>. QED
    BY <2>1, <2>2, EffectTables, EffectDispatch DEF Effect, Tables
<1>2. CASE ~EndsHere(r)
  <2>1. /\ ~IsTerminal(r)
        /\ stop' = [stop EXCEPT ![r] = "pending"]
        /\ UNCHANGED <<run, execute, session, dispatch, link, boot>>
    BY <1>2 DEF Stop, runner
  <2>2. CommandsFollowRun'
    BY <1>2, <2>1 DEF Tables, CommandsFollowRun, EndsHere, IsTerminal, Base, Inv, TypeOK
  <2>3. BindingOK'
    BY <2>1 DEF Tables, BindingOK, IsExecuting
  <2>4. DispatchOK'
    BY <2>1 DEF Tables, DispatchOK, Idling, IsTerminal, IsExecuting
  <2>. QED
    BY <2>2, <2>3, <2>4 DEF Tables
<1>. QED
  BY <1>1, <1>2

(* Only the status of stop commands changes. *)
LEMMA ResentTables ==
  ASSUME Tables, UNCHANGED <<run, execute, session>>, UNCHANGED boot,
         \A r \in Run : stop'[r] # stop[r] => stop[r] \in Open,
         DispatchOK'
  PROVE  Tables'
<1>1. CommandsFollowRun'
  BY DEF Tables, CommandsFollowRun, IsTerminal, Open
<1>2. BindingOK'
  BY DEF Tables, BindingOK, IsExecuting
<1>. QED
  BY <1>1, <1>2 DEF Tables

(* Sending an interrupt, and hearing that it arrived, keep the tables. *)
LEMMA SendInterruptTables ==
  ASSUME Base, Tables, NEW r \in Run, SendInterrupt(r) \/ HearInterrupted(r) PROVE Tables'
<1>1. /\ UNCHANGED <<run, execute, session, boot, link>>
      /\ \A q \in Run : stop'[q] # stop[q] => stop[q] \in Open
  BY DEF SendInterrupt, HearInterrupted, runner, Open, Base, Inv, TypeOK
<1>2. /\ dispatch'.run = dispatch.run /\ dispatch'.stage = dispatch.stage
      /\ dispatch'.gen = dispatch.gen /\ dispatch'.boot = dispatch.boot
      /\ dispatch'.stale = dispatch.stale
  BY Typed DEF SendInterrupt, HearInterrupted, Slot
<1>3. DispatchOK'
  BY <1>1, <1>2 DEF Tables, DispatchOK, Idling, IsTerminal, IsExecuting
<1>. QED
  BY <1>1, <1>3, ResentTables

(* A claim keeps the tables. *)
LEMMA ClaimTables == ASSUME Base, Tables, NEW r \in Run, Claim(r) PROVE Tables'
<1>1. /\ run' = [run EXCEPT ![r].status = "starting"]
      /\ execute' = [execute EXCEPT ![r] = "dispatched"]
      /\ dispatch' = [Idle EXCEPT !.stage = "claimed", !.run = r]
      /\ UNCHANGED <<stop, grant, session, link, boot>>
      /\ run[r].status = "queued" /\ NextInThread(r)
  BY DEF Claim, runner
<1>2. run[r].bound = 0
  BY <1>1 DEF Base, Inv, Rows, RowOK
<1>3. /\ run'[r].status = "starting" /\ run'[r].bound = 0 /\ run'[r].lastBoot = run[r].lastBoot
      /\ \A q \in Run : q # r => run'[q] = run[q] /\ execute'[q] = execute[q]
  BY <1>1, <1>2 DEF Base, Inv, TypeOK, RunRow
<1>4. CommandsFollowRun'
  BY <1>1, <1>3 DEF Tables, CommandsFollowRun, IsTerminal, Terminal
<1>5. BindingOK'
  BY <1>1, <1>3 DEF Tables, BindingOK, IsExecuting
<1>6. DispatchOK'
  <2>1. dispatch'.stage = "claimed" /\ dispatch'.run = r
    BY <1>1 DEF Idle
  <2>2. \A q \in Run : q < r => IsTerminal(q)'
    BY <1>1, <1>3 DEF NextInThread, IsTerminal, Run
  <2>. QED
    BY <1>3, <2>1, <2>2 DEF DispatchOK, Idling
<1>. QED
  BY <1>4, <1>5, <1>6 DEF Tables

(* A new binding keeps the tables: it is the session's newest. *)
LEMMA BindTables == ASSUME Base, Tables, Bind PROVE Tables'
<1>. DEFINE r == dispatch.run
            g == session.gen + 1
<1>1. /\ dispatch.stage = "planned" /\ r \in Run /\ ~Idling
      /\ run[r].status = "starting"
      /\ session' = [session EXCEPT !.gen = g, !.holder = dispatch.boot,
                                    !.lease = "live", !.status = "starting"]
      /\ run' = [run EXCEPT ![r].bound = g, ![r].lastBoot = dispatch.boot]
      /\ dispatch' = [dispatch EXCEPT !.stage = "bound", !.gen = g]
      /\ UNCHANGED <<execute, stop, link, boot>>
  BY DEF Bind, Bindable, Base, Inv, Claimed, Idling, runner
<1>2. /\ session'.gen = g /\ session'.holder = dispatch.boot /\ session'.lease = "live"
      /\ session'.status = "starting"
  BY <1>1 DEF Base, Inv, TypeOK, SessionRow
<1>3. /\ run'[r].bound = g /\ run'[r].lastBoot = dispatch.boot /\ run'[r].status = "starting"
      /\ \A q \in Run : q # r => run'[q] = run[q]
  BY <1>1 DEF Base, Inv, TypeOK, RunRow
<1>4. /\ dispatch'.stage = "bound" /\ dispatch'.gen = g /\ dispatch'.run = r
      /\ dispatch'.boot = dispatch.boot /\ dispatch'.stale = dispatch.stale
  BY <1>1, Typed DEF Slot
<1>5. CommandsFollowRun'
  BY <1>1, <1>3 DEF Tables, CommandsFollowRun, IsTerminal, Terminal
<1>6. dispatch.boot <= boot /\ dispatch.boot # 0
  BY <1>1 DEF Tables, DispatchOK
<1>7. BindingOK'
  <2>1. ASSUME NEW q \in Run, IsExecuting(q)', q # r PROVE FALSE
    BY <1>1, <1>3, <2>1 DEF Base, Order, IsExecuting, IsTerminal, Executing, Terminal, Run
  <2>. QED
    BY <1>1, <1>2, <1>3, <1>6, <2>1 DEF Tables, BindingOK
<1>8. DispatchOK'
  <2>1. g \in 1..g
    BY Typed
  <2>2. \A q \in Run : q < r => IsTerminal(q)'
    BY <1>1, <1>3, Typed DEF Tables, DispatchOK, IsTerminal
  <2>. QED
    BY <1>1, <1>2, <1>3, <1>4, <1>6, <2>1, <2>2 DEF Tables, DispatchOK, Idling
<1>. QED
  BY <1>5, <1>7, <1>8 DEF Tables

(* Actions around one transaction, that keep the dispatch or drop it. *)
LEMMA EffectKeepsTables ==
  ASSUME Base, Tables, NEW r \in Run, Effect(r), UNCHANGED boot,
         dispatch' = Idle \/ (UNCHANGED dispatch /\ (link' = link \/ link' = "attached"))
  PROVE  Tables'
<1>1. CommandsFollowRun' /\ BindingOK'
  BY EffectTables DEF Tables
<1>2. DispatchOK'
  BY IdleDispatch, EffectDispatch DEF Tables
<1>. QED
  BY <1>1, <1>2 DEF Tables

(* Actions that leave the tables alone. *)
LEMMA QuietTables ==
  ASSUME Base, Tables, UNCHANGED db, UNCHANGED boot, DispatchOK' PROVE Tables'
<1>1. CommandsFollowRun' /\ BindingOK'
  BY DEF Tables, CommandsFollowRun, BindingOK, IsTerminal, IsExecuting
<1>. QED
  BY <1>1 DEF Tables

(* The dispatch goes nowhere: its answer came, or its connection is lost. *)
LEMMA SlotKept ==
  ASSUME DispatchOK, UNCHANGED <<run, session, boot>>,
         /\ dispatch'.run = dispatch.run /\ dispatch'.stage = dispatch.stage
         /\ dispatch'.gen = dispatch.gen /\ dispatch'.boot = dispatch.boot,
         (dispatch'.stale = dispatch.stale /\ UNCHANGED link) \/ dispatch'.stale
           \/ dispatch.stage = "claimed"
  PROVE  DispatchOK'
  BY DEF DispatchOK, Idling, IsTerminal, IsExecuting

(* Access that ends and leases that run out keep the tables. *)
LEMMA HostTables ==
  ASSUME Base, Tables, NEW r \in Run, Abandon(r) \/ Sweep(r) PROVE Tables'
<1>1. UNCHANGED <<boot, link, dispatch>>
  BY DEF Abandon, Sweep, runner
<1>2. Effect(r)
  BY FinalizeEnds, RecoverEffect DEF Abandon, Sweep, Bound, Terminal, Effect, Base, Inv
<1>. QED
  BY <1>1, <1>2, EffectKeepsTables

(* The steps of a dispatch between its binding and its answer keep them. *)
LEMMA DispatchTables ==
  ASSUME Base, Tables, Plan \/ Check \/ Send PROVE Tables'
<1>1. UNCHANGED db /\ UNCHANGED boot /\ UNCHANGED link
  BY DEF Plan, Check, Send, runner
<1>2. CASE Plan
  <2>1. /\ dispatch'.stage = "planned" /\ dispatch'.run = dispatch.run /\ dispatch'.boot = boot
        /\ dispatch.stage = "claimed" /\ link \in {"up", "attached"}
    BY <1>2, Typed DEF Plan, Slot
  <2>. QED
    BY <1>1, <2>1, Typed, QuietTables DEF Tables, DispatchOK, Idling, IsTerminal, IsExecuting
<1>3. CASE Check
  <2>1. /\ dispatch'.stage = "checked" /\ dispatch'.run = dispatch.run
        /\ dispatch'.boot = dispatch.boot /\ dispatch'.gen = dispatch.gen
        /\ dispatch'.stale = dispatch.stale
        /\ dispatch.stage = "bound" /\ link = "attached" /\ session.lease = "live"
    BY <1>3, Typed DEF Check, Authorized, Slot
  <2>. QED
    BY <1>1, <2>1, QuietTables DEF Tables, DispatchOK, Idling, IsTerminal, IsExecuting
<1>4. CASE Send
  <2>1. /\ dispatch'.stage = "sent" /\ dispatch'.run = dispatch.run
        /\ dispatch'.boot = dispatch.boot /\ dispatch'.gen = dispatch.gen
        /\ dispatch'.stale = dispatch.stale
        /\ dispatch.stage = "checked"
    BY <1>4, Typed DEF Send, Slot
  <2>. QED
    BY <1>1, <2>1, QuietTables DEF Tables, DispatchOK, Idling, IsTerminal, IsExecuting
<1>. QED
  BY <1>2, <1>3, <1>4

(* The ends of a dispatch keep the tables. *)
LEMMA EndDispatchTables ==
  ASSUME Base, Tables, Reject \/ GiveUp \/ HearReply \/ LoseReply PROVE Tables'
<1>1. dispatch' = Idle /\ UNCHANGED boot /\ UNCHANGED link /\ ~Idling
  BY DEF Reject, GiveUp, HearReply, LoseReply, runner, Idling
<1>. DEFINE r == dispatch.run
<1>2. r \in Run
  BY <1>1 DEF Base, Inv, Claimed
<1>3. \/ Fail(r) \/ Retry(r) \/ UNCHANGED db
      \/ /\ execute' = [execute EXCEPT ![r] = IF @ = "dispatched" THEN "succeeded" ELSE @]
         /\ UNCHANGED <<run, stop, grant, session>>
         /\ dispatch.stage = "sent"
  <2>1. dispatch.reply \in {"none", "accepted", "retryable", "refused"}
    BY Typed DEF Slot
  <2>. QED
    BY <2>1 DEF Reject, GiveUp, HearReply, LoseReply
<1>4. CASE Fail(r) \/ Retry(r) \/ UNCHANGED db
  <2>1. Effect(r)
    BY <1>2, <1>4, FailEffect, RetryEffect DEF Effect, Names, SameBinding, Base, Inv
  <2>. QED
    BY <1>1, <1>2, <2>1, EffectKeepsTables
<1>5. CASE /\ execute' = [execute EXCEPT ![r] = IF @ = "dispatched" THEN "succeeded" ELSE @]
           /\ UNCHANGED <<run, stop, grant, session>>
  <2>1. \A q \in Run : execute[q] \notin {"dispatched"} => execute'[q] = execute[q]
    BY <1>2, <1>5 DEF Base, Inv, TypeOK
  <2>2. CommandsFollowRun'
    BY <1>2, <1>5, <2>1 DEF Tables, CommandsFollowRun, IsTerminal, Open
  <2>3. BindingOK'
    BY <1>1, <1>5 DEF Tables, BindingOK, IsExecuting
  <2>. QED
    BY <1>1, <2>2, <2>3, IdleDispatch DEF Tables
<1>. QED
  BY <1>3, <1>4, <1>5

(* A dispatch whose connection is lost is otherwise what it was. *)
LEMMA StaleKeeps ==
  ASSUME Base
  PROVE  /\ Stale.run = dispatch.run /\ Stale.stage = dispatch.stage
         /\ Stale.gen = dispatch.gen /\ Stale.boot = dispatch.boot
         /\ Stale.fenced = dispatch.fenced /\ Stale.reply = dispatch.reply
         /\ Stale.stale \/ dispatch.stage \in {"idle", "claimed"}
  BY Typed DEF Stale, Slot

(* Only commands that are open are sent again. *)
LEMMA ResentOpen ==
  ASSUME Base, stop' = Resent PROVE \A r \in Run : stop'[r] # stop[r] => stop[r] \in Open
  BY DEF Resent, Open, Base, Inv, TypeOK

(* Connections coming and going, and the clock, keep the tables. *)
LEMMA LinkTables ==
  ASSUME Base, Tables, Connect \/ Disconnect \/ Notice \/ LeaseExpires PROVE Tables'
<1>0. UNCHANGED boot
  BY DEF Connect, Disconnect, Notice, LeaseExpires, runner
<1>1. CASE Connect
  <2>1. UNCHANGED db /\ UNCHANGED dispatch /\ link = "down" /\ link' = "up"
    BY <1>1 DEF Connect
  <2>2. DispatchOK'
    BY <1>0, <2>1 DEF Tables, DispatchOK, Idling, IsTerminal, IsExecuting
  <2>. QED
    BY <1>0, <2>1, <2>2, QuietTables
<1>2. CASE Disconnect
  <2>1. UNCHANGED <<run, execute, session>> /\ stop' = Resent /\ dispatch' = Stale
    BY <1>2 DEF Disconnect
  <2>2. DispatchOK'
    <3>1. CASE dispatch.stage = "idle"
      BY <2>1, <3>1, StaleKeeps DEF DispatchOK, Idling
    <3>2. CASE dispatch.stage # "idle"
      BY <1>0, <2>1, <3>2, StaleKeeps, SlotKept DEF Tables
    <3>. QED
      BY <3>1, <3>2
  <2>. QED
    BY <1>0, <2>1, <2>2, ResentOpen, ResentTables
<1>3. CASE Notice
  <2>1. UNCHANGED db /\ UNCHANGED dispatch /\ link = "draining"
    BY <1>3 DEF Notice
  <2>2. DispatchOK'
    BY <1>0, <2>1 DEF Tables, DispatchOK, Idling, IsTerminal, IsExecuting
  <2>. QED
    BY <1>0, <2>1, <2>2, QuietTables
<1>4. CASE LeaseExpires
  <2>1. /\ UNCHANGED <<run, execute, stop, grant, dispatch, link>>
        /\ session'.gen = session.gen /\ session'.holder = session.holder
        /\ session'.status = session.status
        /\ ~(dispatch.stage \in {"checked", "sent"} /\ dispatch.gen = session.gen)
    BY <1>4 DEF LeaseExpires, Renewed, Base, Inv, TypeOK, SessionRow
  <2>2. CommandsFollowRun' /\ BindingOK'
    BY <1>0, <2>1 DEF Tables, CommandsFollowRun, BindingOK, IsTerminal, IsExecuting
  <2>3. DispatchOK'
    BY <1>0, <2>1 DEF Tables, DispatchOK, Idling, IsTerminal, IsExecuting
  <2>. QED
    BY <2>2, <2>3 DEF Tables
<1>. QED
  BY <1>1, <1>2, <1>3, <1>4

(* A restart of the Host keeps the tables. *)
LEMMA HostRestartTables == ASSUME Base, Tables, HostRestart PROVE Tables'
<1>1. dispatch' = Idle /\ UNCHANGED boot
  BY DEF HostRestart, runner
<1>2. CASE \E r \in Run : ClaimedOnly(r) /\ Requeue(r)
  <2>. PICK r \in Run : ClaimedOnly(r) /\ Requeue(r)
    BY <1>2
  <2>1. Effect(r)
    BY RequeueEffect DEF ClaimedOnly, IsExecuting, Executing, Effect, Base, Inv
  <2>. QED
    BY <1>1, <2>1, EffectKeepsTables
<1>3. CASE \A r \in Run : ~ClaimedOnly(r)
  <2>1. /\ session' \in {session, [session EXCEPT !.lease = "live"]}
        /\ stop' = Resent
        /\ UNCHANGED <<run, execute, grant>>
    BY <1>3 DEF HostRestart
  <2>2. /\ session'.gen = session.gen /\ session'.holder = session.holder
        /\ session'.status = session.status
    BY <2>1 DEF Base, Inv, TypeOK, SessionRow
  <2>3. CommandsFollowRun' /\ BindingOK'
    BY <1>1, <2>1, <2>2, ResentOpen
       DEF Tables, CommandsFollowRun, BindingOK, IsTerminal, IsExecuting, Open
  <2>. QED
    BY <1>1, <2>3, IdleDispatch DEF Tables
<1>. QED
  BY <1>2, <1>3 DEF HostRestart

(* What an attach makes of the Run it settles. *)
LEMMA AttachEffect ==
  ASSUME Base, NEW r \in Run, Bound(r), Settle(r)
  PROVE  UNCHANGED db \/ Ends(r) \/ Returns(r) \/ Recovers(r)
<1>1. IsExecuting(r)
  BY DEF Bound
<1>2. UNCHANGED db \/ RecoverLost(r) \/ Requeue(r)
  BY DEF Settle
<1>. QED
  BY <1>1, <1>2, RecoverEffect, RequeueEffect DEF Base, Inv

(* An attach keeps the tables. *)
LEMMA AttachTables == ASSUME Base, Tables, Attach PROVE Tables'
<1>0. UNCHANGED boot /\ UNCHANGED dispatch /\ link = "up" /\ link' = "attached"
  BY DEF Attach, runner
<1>1. CASE \E r \in Run : Bound(r) /\ Settle(r)
  <2>. PICK r \in Run : Bound(r) /\ Settle(r)
    BY <1>1
  <2>1. Effect(r)
    BY AttachEffect DEF Effect, Names, SameBinding
  <2>. QED
    BY <1>0, <2>1, EffectKeepsTables
<1>2. CASE UNCHANGED db
  <2>1. DispatchOK'
    BY <1>0, <1>2 DEF Tables, DispatchOK, Idling, IsTerminal, IsExecuting
  <2>. QED
    BY <1>0, <1>2, <2>1, QuietTables
<1>. QED
  BY <1>1, <1>2 DEF Attach

(* A reply reaches the dispatch that waits, and changes no more of it. *)
LEMMA ReplyKeeps ==
  ASSUME Base, NEW answer, Reply(answer)
  PROVE  /\ dispatch'.run = dispatch.run /\ dispatch'.stage = dispatch.stage
         /\ dispatch'.gen = dispatch.gen /\ dispatch'.boot = dispatch.boot
         /\ dispatch'.stale = dispatch.stale /\ dispatch'.fenced = dispatch.fenced
         /\ dispatch'.reply = IF dispatch.stage = "sent" /\ ~dispatch.stale THEN answer
                              ELSE dispatch.reply
  BY Typed DEF Reply, Slot

(* The Runner reading an execute command keeps the tables. *)
LEMMA DeliverExecuteTables == ASSUME Base, Tables, DeliverExecute PROVE Tables'
<1>1. UNCHANGED db /\ UNCHANGED <<link, boot>>
  BY DEF DeliverExecute
<1>2. \E answer : Reply(answer)
  BY DEF DeliverExecute
<1>3. DispatchOK'
  BY <1>1, <1>2, ReplyKeeps, SlotKept DEF Tables
<1>. QED
  BY <1>1, <1>3, QuietTables

(* What the Runner does by itself keeps the tables. *)
LEMMA RunnerTables ==
  ASSUME Base, Tables,
         \/ DeliverInterrupt \/ DeliverRevoked \/ DeliverAttached \/ StrayEnds \/ OrphanEnds
         \/ UNCHANGED vars
         \/ \E r \in Run : Heartbeat(r) \/ Begin(r) \/ Say(r) \/ LeaseLost(r) \/ End(r) \/ Evict(r)
  PROVE  Tables'
<1>1. UNCHANGED db /\ UNCHANGED <<link, boot, dispatch>>
  BY DEF DeliverInterrupt, DeliverRevoked, DeliverAttached, StrayEnds, OrphanEnds, Heartbeat,
         Begin, Say, LeaseLost, End, Evict, vars, runner
<1>2. DispatchOK'
  BY <1>1 DEF Tables, DispatchOK, Idling, IsTerminal, IsExecuting
<1>. QED
  BY <1>1, <1>2, QuietTables

(* A restart of the Runner keeps the tables: its new boot is the newest. *)
LEMMA RunnerRestartTables == ASSUME Base, Tables, RunnerRestart PROVE Tables'
<1>1. /\ boot' = boot + 1 /\ dispatch' = Stale /\ stop' = Resent
      /\ UNCHANGED <<run, execute, grant, session>>
  BY DEF RunnerRestart
<1>2. CommandsFollowRun'
  BY <1>1, ResentOpen DEF Tables, CommandsFollowRun, IsTerminal, Open
<1>3. BindingOK'
  BY <1>1, Typed DEF Tables, BindingOK, IsExecuting
<1>4. dispatch.boot <= boot => dispatch.boot <= boot'
  BY <1>1, Typed
<1>5. DispatchOK'
  BY <1>1, <1>4, StaleKeeps DEF Tables, DispatchOK, Idling, IsTerminal, IsExecuting
<1>. QED
  BY <1>2, <1>3, <1>5 DEF Tables

(* A report the Host takes is a late one that changes nothing, or one it   *)
(* accepts and applies.                                                    *)
LEMMA CommitEffect ==
  ASSUME Base, NEW r \in Run, Commit(r)
  PROVE  /\ Head(held[r].log) \in Entry
         /\ \/ UNCHANGED db /\ Late(r)
            \/ /\ Accepts(r, Head(held[r].log))
               /\ Apply(r, Head(held[r].log))
               /\ Effect(r)
<1>. DEFINE e == Head(held[r].log)
<1>1. e \in Entry
  BY AcknowledgedType DEF Commit, Reporting, Base
<1>2. CASE Accepts(r, e) /\ Apply(r, e)
  <2>1. Effect(r)
    BY <1>1, <1>2, ApplyEffect DEF Base, Inv, Effect, Entry, Terminal
  <2>. QED
    BY <1>1, <1>2, <2>1
<1>3. CASE Late(r) /\ UNCHANGED db
  BY <1>1, <1>3
<1>. QED
  BY <1>2, <1>3 DEF Commit

(* A report of the Runner, taken or refused, keeps the tables. *)
LEMMA ReportTables ==
  ASSUME Base, Tables, NEW r \in Run, Commit(r) \/ Refuse(r) PROVE Tables'
<1>1. UNCHANGED <<boot, link, dispatch>>
  BY DEF Commit, Refuse, runner
<1>2. Effect(r)
  <2>1. UNCHANGED db => Names
    BY DEF Names, SameBinding
  <2>2. CASE Commit(r)
    BY <2>1, <2>2, CommitEffect DEF Effect
  <2>3. CASE Refuse(r)
    <3>1. UNCHANGED db \/ (~IsTerminal(r) /\ Finalize(r, "failed", Host))
      BY <2>3 DEF Refuse, Binds, Bound, IsExecuting, IsTerminal, Executing, Terminal
    <3>. QED
      BY <2>1, <3>1, FinalizeEnds DEF Effect, Terminal, Base, Inv
  <2>. QED
    BY <2>2, <2>3
<1>. QED
  BY <1>1, <1>2, EffectKeepsTables

(* Every step keeps the tables. *)
LEMMA TablesStep == ASSUME Base, Tables, [Next]_vars PROVE Tables'
<1>1. ASSUME NEW r \in Run, OfHost(r) PROVE Tables'
  BY <1>1, StopTables, HostTables, ClaimTables, SendInterruptTables DEF OfHost
<1>2. ASSUME NEW r \in Run, OfRunner(r) PROVE Tables'
  BY <1>2, RunnerTables, ReportTables DEF OfRunner
<1>3. CASE Dispatcher
  BY <1>3, DispatchTables, BindTables, EndDispatchTables DEF Dispatcher
<1>4. CASE Connection
  BY <1>4, LinkTables, HostRestartTables, AttachTables, DeliverExecuteTables, RunnerTables
     DEF Connection
<1>5. CASE Processes
  BY <1>5, RunnerRestartTables, RunnerTables DEF Processes
<1>6. CASE UNCHANGED vars
  BY <1>6, RunnerTables
<1>. QED
  BY <1>1, <1>2, <1>3, <1>4, <1>5, <1>6 DEF Next

(* The tables start out so. *)
LEMMA TablesInit == ASSUME Init PROVE Tables
  BY BoundAssumption DEF Init, Tables, CommandsFollowRun, BindingOK, DispatchOK, Idling, Idle,
                         IsTerminal,
         IsExecuting, Terminal, Executing

(* The Host's tables agree with each other in every state: the commands    *)
(* follow their Runs, the binding of an executing Run is the session's     *)
(* and names its boot, and the dispatch in flight knows its Run            *)
(* (claimObservedCommand, acquireExecutionBinding,                         *)
(* attachRunnerExecutions, the sweep and both restarts, in any order).     *)
THEOREM TablesHold == Spec => [](Base /\ Tables)
<1>1. RunsInOrder => Order
  BY DEF RunsInOrder, Lifecycle!InOrder, Lifecycle!Ended, Lifecycle!Outcomes, Order, life,
         IsTerminal, IsExecuting, Terminal
<1>2. Spec => []Base
  BY <1>1, Invariance, RunsKeepOrder, PTL DEF Base
<1>3. Init => Tables
  BY TablesInit
<1>4. Base /\ Tables /\ [Next]_vars => Tables'
  BY TablesStep
<1>. QED
  BY <1>2, <1>3, <1>4, PTL DEF Spec

(* How a Run ended stands: no late event, answer, inventory or sweep, and  *)
(* no restart of the Host or of the Runner, revises its status or opens a  *)
(* command of it again (finalizeRunTransaction).                           *)
THEOREM OutcomesStand ==
  Spec => [][\A r \in Run : IsTerminal(r) =>
               /\ run'[r].status = run[r].status
               /\ execute'[r] \notin Open /\ stop'[r] \notin Open]_vars
<1>1. ASSUME Base, Tables', [Next]_vars, NEW r \in Run, IsTerminal(r)
      PROVE  /\ run'[r].status = run[r].status
             /\ execute'[r] \notin Open /\ stop'[r] \notin Open
  <2>1. Inv /\ LifeStep
    BY <1>1, EveryStep DEF Base, Sound
  <2>2. Lifecycle!TypeOK
    BY <2>1 DEF Inv, TypeOK, RunRow, Lifecycle!TypeOK, Lifecycle!Outcomes, life, stopped,
                IsExecuting, Executing, Terminal
  <2>3. life[r] = run[r].status /\ Lifecycle!Ended(r)
    BY <1>1 DEF life, IsTerminal, IsExecuting, Executing, Terminal,
                Lifecycle!Ended, Lifecycle!Outcomes
  <2>4. life'[r] = run[r].status
    BY <2>1, <2>2, <2>3, EndedStays DEF LifeStep
  <2>5. run'[r].status = run[r].status
    BY <1>1, <2>4 DEF life, IsTerminal, IsExecuting, Executing, Terminal
  <2>6. IsTerminal(r)'
    BY <1>1, <2>5 DEF IsTerminal
  <2>. QED
    BY <1>1, <2>5, <2>6 DEF Tables, CommandsFollowRun
<1>2. Base /\ Tables' /\ [Next]_vars =>
        [\A r \in Run : IsTerminal(r) =>
           /\ run'[r].status = run[r].status
           /\ execute'[r] \notin Open /\ stop'[r] \notin Open]_vars
  BY <1>1
<1>. QED
  BY <1>2, TablesHold, PTL DEF Spec

-----------------------------------------------------------------------------
(* 6. Journals.                                                            *)

(* What is known of the Host's tables in every state. *)
Known == Base /\ Tables

(* The journal of an execution: its outcome comes last and only once the   *)
(* execution has ended, and an ended execution is held only for its        *)
(* outcome.                                                                *)
LogOK(r) ==
  LET log == held[r].log
  IN  /\ held[r].phase = "none" => log = <<>>
      /\ held[r].phase # "ended" => \A i \in 1..Len(log) : log[i] \in {"bound", "started"}
      /\ held[r].phase = "ended" =>
           /\ log # <<>>
           /\ log[Len(log)] \notin {"bound", "started"}
           /\ \A i \in 1..Len(log) : i # Len(log) => log[i] \in {"bound", "started"}

Logs == \A r \in Run : LogOK(r)

(* The types of what the Runner holds. *)
LEMMA HeldTyped ==
  ASSUME Base, NEW r \in Run
  PROVE  /\ held[r] \in Execution /\ held[r].log \in Seq(Entry)
         /\ held[r].gen \in Nat /\ begun[r] \in Nat
<1>1. held[r] \in Execution /\ begun[r] \in 0..MaxGen
  BY DEF Base, Inv, TypeOK
<1>2. held[r].log \in Seq(Entry) /\ held[r].gen \in 0..MaxGen
  BY <1>1 DEF Execution
<1>. QED
  BY <1>1, <1>2, BoundAssumption

(* An entry added to a sequence is its last. *)
LEMMA Appended ==
  ASSUME NEW S, NEW s \in Seq(S), NEW e
  PROVE  /\ Len(Append(s, e)) = Len(s) + 1 /\ Len(s) \in Nat
         /\ Append(s, e) # <<>>
         /\ Append(s, e)[Len(s) + 1] = e
         /\ \A i \in 1..Len(Append(s, e)) :
              i = Len(s) + 1 \/ (i \in 1..Len(s) /\ Append(s, e)[i] = s[i])
<1>1. Len(Append(s, e)) = Len(s) + 1 /\ Len(s) \in Nat
  OBVIOUS
<1>2. Len(<<>>) = 0
  OBVIOUS
<1>3. \A i \in 1..Len(s) : Append(s, e)[i] = s[i]
  OBVIOUS
<1>4. Append(s, e)[Len(s) + 1] = e
  OBVIOUS
<1>5. Append(s, e) # <<>>
  <2>1. Len(Append(s, e)) # 0
    BY <1>1
  <2>. QED
    BY <1>2, <2>1
<1>6. \A i \in 1..(Len(s) + 1) : i = Len(s) + 1 \/ i \in 1..Len(s)
  BY <1>1
<1>. QED
  BY <1>1, <1>3, <1>4, <1>5, <1>6

(* An entry added to the journal. *)
LEMMA SaidLog ==
  ASSUME Base, Logs, NEW r \in Run, NEW e, held'[r].log = Append(held[r].log, e),
         held[r].phase \notin {"none", "ended"},
         \/ held'[r].phase \notin {"none", "ended"} /\ e \in {"bound", "started"}
         \/ held'[r].phase = "ended" /\ e \notin {"bound", "started"}
  PROVE  LogOK(r)'
<1>. DEFINE log == held[r].log
<1>1. log \in Seq(Entry)
  BY HeldTyped
<1>2. /\ Len(Append(log, e)) = Len(log) + 1 /\ Len(log) \in Nat
      /\ Append(log, e) # <<>>
      /\ Append(log, e)[Len(log) + 1] = e
      /\ \A i \in 1..Len(Append(log, e)) :
            i = Len(log) + 1 \/ (i \in 1..Len(log) /\ Append(log, e)[i] = log[i])
  BY <1>1, Appended
<1>3. \A i \in 1..Len(log) : log[i] \in {"bound", "started"}
  BY DEF Logs, LogOK
<1>. HIDE DEF log
<1>4. held'[r].log = Append(log, e)
  BY DEF log
<1>. QED
  BY <1>2, <1>3, <1>4 DEF LogOK

(* An execution let go. *)
LEMMA NotHeldLog == ASSUME NEW r \in Run, held'[r] = NotHeld PROVE LogOK(r)'
  BY DEF LogOK, NotHeld

(* The phase changes and the log does not. *)
LEMMA PhaseLog ==
  ASSUME Logs, NEW r \in Run, held'[r].log = held[r].log,
         held[r].phase \notin {"none", "ended"}, held'[r].phase \notin {"none", "ended"}
  PROVE  LogOK(r)'
  BY DEF Logs, LogOK

(* An abort keeps the binding and the journal, and the first cause. *)
LEMMA AbortedKeeps ==
  ASSUME Base, NEW r \in Run, NEW cause
  PROVE  /\ Aborted(r, cause).phase = "stopping" /\ Aborted(r, cause).gen = held[r].gen
         /\ Aborted(r, cause).log = held[r].log
         /\ Aborted(r, cause).cause = IF held[r].cause = "none" THEN cause ELSE held[r].cause
  BY HeldTyped DEF Aborted, Execution

(* A revoked execution stops and forgets its journal, or is let go. *)
LEMMA RevokedKeeps ==
  ASSUME Base, NEW r \in Run
  PROVE  \/ /\ held[r].phase \in Active
            /\ Revoked(r).phase = "stopping" /\ Revoked(r).gen = held[r].gen
            /\ Revoked(r).cause = "revoked" /\ Revoked(r).log = <<>>
         \/ held[r].phase \notin Active /\ Revoked(r) = NotHeld
  BY HeldTyped DEF Revoked, Execution

(* A revocation keeps journals sound. *)
LEMMA RevokedLog == ASSUME Base, NEW r \in Run, held'[r] = Revoked(r) PROVE LogOK(r)'
  BY RevokedKeeps, NotHeldLog DEF LogOK

(* The Run that a frame names. *)
LEMMA TheRunIs == ASSUME NEW r \in Run, Head(wire).runs = {r} PROVE TheRun = r
  BY DEF TheRun

(* Only one execution changes. *)
LEMMA ChangesOne ==
  ASSUME Base, NEW r, NEW x, held' = [held EXCEPT ![r] = x]
  PROVE  /\ r \in Run => held'[r] = x
         /\ \A q \in Run : q # r => held'[q] = held[q]
  BY DEF Base, Inv, TypeOK

(* What each action does with what the Runner holds. *)
Stays(q) == held'[q] = held[q]

(* An entry acknowledged is the first, and the last one lets the           *)
(* execution go.                                                           *)
LEMMA AckKeeps ==
  ASSUME Base, Logs, NEW r \in Run, held[r].log # <<>>
  PROVE  \/ /\ Acknowledged(r) = NotHeld
            /\ held[r].phase = "ended" /\ Len(held[r].log) = 1
         \/ /\ Acknowledged(r).phase = held[r].phase /\ Acknowledged(r).gen = held[r].gen
            /\ Acknowledged(r).cause = held[r].cause /\ Acknowledged(r).log = Tail(held[r].log)
            /\ held[r].phase = "ended" => Tail(held[r].log) # <<>>
<1>1. held[r].log \in Seq(Entry) /\ held[r] \in Execution
  BY HeldTyped
<1>2. Tail(held[r].log) = <<>> => Len(held[r].log) = 1
  <2>1. Len(Tail(held[r].log)) = Len(held[r].log) - 1 /\ Len(held[r].log) \in Nat
    BY <1>1
  <2>2. Tail(held[r].log) = <<>> => Len(Tail(held[r].log)) = Len(<<>>)
    BY Zenon
  <2>3. Len(<<>>) = 0
    OBVIOUS
  <2>. QED
    BY <2>1, <2>2, <2>3
<1>. QED
  BY <1>1, <1>2 DEF Acknowledged, Execution

(* An acknowledgement keeps journals sound. *)
LEMMA AckLog ==
  ASSUME Base, Logs, NEW r \in Run, held[r].log # <<>>, held'[r] = Acknowledged(r)
  PROVE  LogOK(r)'
<1>. DEFINE log == held[r].log
<1>1. CASE Acknowledged(r) = NotHeld
  BY <1>1, NotHeldLog
<1>2. CASE Acknowledged(r) # NotHeld
  <2>1. /\ held'[r].phase = held[r].phase /\ held'[r].log = Tail(log)
        /\ held[r].phase = "ended" => Tail(log) # <<>>
    BY <1>2, AckKeeps
  <2>2. log \in Seq(Entry) /\ log # <<>>
    BY HeldTyped
  <2>3. /\ Len(Tail(log)) = Len(log) - 1
        /\ \A i \in 1..Len(Tail(log)) : Tail(log)[i] = log[i + 1] /\ i + 1 \in 1..Len(log)
    BY <2>2
  <2>4. Tail(log) # <<>> => Len(Tail(log)) \in 1..Len(Tail(log)) /\ Len(Tail(log)) + 1 = Len(log)
    BY <2>2, <2>3
  <2>. HIDE DEF log
  <2>5. LogOK(r)
    BY DEF Logs
  <2>6. held[r].phase # "none"
    BY <2>2, <2>5 DEF LogOK, log
  <2>7. CASE held[r].phase # "ended"
    BY <2>1, <2>3, <2>5, <2>6, <2>7 DEF LogOK, log
  <2>8. CASE held[r].phase = "ended"
    <3>1. Len(log) \in Nat
      BY <2>2
    <3>. QED
      BY <2>1, <2>3, <2>4, <2>5, <2>8, <3>1 DEF LogOK, log
  <2>. QED
    BY <2>7, <2>8
<1>. QED
  BY <1>1, <1>2

(* Every step keeps the journals sound. *)
LEMMA LogStep == ASSUME Base, Base', Logs, [Next]_vars PROVE Logs'
<1>. SUFFICES ASSUME NEW q \in Run PROVE LogOK(q)'
  BY DEF Logs
<1>0. Stays(q) => LogOK(q)'
  BY DEF Stays, Logs, LogOK
<1>1. ASSUME NEW r \in Run, OfRunner(r) PROVE LogOK(q)'
  <2>1. CASE Heartbeat(r) \/ Begin(r)
    <3>1. \E p \in {"leased", "acting"} : held' = [held EXCEPT ![r].phase = p]
      BY <2>1 DEF Heartbeat, Begin
    <3>2. held[r].phase \in {"admitted", "leased"}
      BY <2>1 DEF Heartbeat, Begin
    <3>3. q = r => /\ held'[q].phase \in {"leased", "acting"} /\ held'[q].log = held[q].log
      BY <3>1, HeldTyped DEF Execution, Base, Inv, TypeOK
    <3>4. q # r => Stays(q)
      BY <3>1 DEF Stays, Base, Inv, TypeOK
    <3>. QED
      BY <1>0, <3>2, <3>3, <3>4, PhaseLog
  <2>2. CASE Say(r)
    <3>1. PICK e \in {"bound", "started"} :
            held' = [held EXCEPT ![r].said = @ + 1, ![r].log = Append(@, e)]
      BY <2>2 DEF Say
    <3>2. q # r => Stays(q)
      BY <3>1 DEF Stays, Base, Inv, TypeOK
    <3>3. q = r => held'[q].phase = "acting" /\ held'[q].log = Append(held[q].log, e)
      <4>1. held \in [Run -> Execution]
        BY DEF Base, Inv, TypeOK
      <4>2. held'[r] = [held[r] EXCEPT !.said = @ + 1, !.log = Append(@, e)]
        BY <3>1, <4>1
      <4>3. held[r] \in Execution /\ held[r].phase = "acting"
        BY <2>2, <4>1 DEF Say
      <4>. QED
        BY <4>2, <4>3 DEF Execution
    <3>5. q = r => held[q].phase = "acting"
      BY <2>2 DEF Say
    <3>. QED
      BY <1>0, <3>2, <3>3, <3>5, SaidLog
  <2>3. CASE LeaseLost(r)
    BY <1>0, <2>3, ChangesOne, AbortedKeeps, PhaseLog DEF LeaseLost, Stays
  <2>4. CASE End(r)
    <3>1. CASE Outcomes(r) = {}
      BY <1>0, <2>4, <3>1, ChangesOne, NotHeldLog DEF End, Stays
    <3>2. CASE Outcomes(r) # {}
      <4>1. PICK o \in Outcomes(r) :
              held' = [held EXCEPT ![r].phase = "ended", ![r].log = Append(@, o)]
        BY <2>4, <3>2 DEF End
      <4>2. o \notin {"bound", "started"}
        BY HeldTyped DEF Outcomes, Execution
      <4>3. q # r => Stays(q)
        BY <4>1 DEF Stays, Base, Inv, TypeOK
      <4>4. q = r => held'[q].phase = "ended" /\ held'[q].log = Append(held[q].log, o)
        <5>1. held \in [Run -> Execution]
          BY DEF Base, Inv, TypeOK
        <5>2. held'[r] = [held[r] EXCEPT !.phase = "ended", !.log = Append(@, o)]
          BY <4>1, <5>1
        <5>3. held[r] \in Execution
          BY <5>1
        <5>. QED
          BY <5>2, <5>3 DEF Execution
      <4>6. q = r => held[q].phase \notin {"none", "ended"}
        BY <2>4 DEF End
      <4>. QED
        BY <1>0, <4>2, <4>3, <4>4, <4>6, SaidLog
    <3>. QED
      BY <3>1, <3>2
  <2>5. CASE Evict(r)
    BY <1>0, <2>5, ChangesOne, NotHeldLog DEF Evict, Stays
  <2>6. CASE Commit(r)
    BY <1>0, <2>6, ChangesOne, AckLog DEF Commit, Reporting, Stays
  <2>7. CASE Refuse(r)
    BY <1>0, <2>7 DEF Refuse, Stays, runner
  <2>. QED
    BY <1>1, <2>1, <2>2, <2>3, <2>4, <2>5, <2>6, <2>7 DEF OfRunner
<1>2. ASSUME DeliverExecute PROVE LogOK(q)'
  <2>1. CASE held' = held
    BY <1>0, <2>1 DEF Stays
  <2>2. CASE held' # held
    <3>1. held' = [held EXCEPT ![TheRun] = [NotHeld EXCEPT !.phase = "admitted",
                                                           !.gen = Head(wire).gen]]
      BY <1>2, <2>2 DEF DeliverExecute
    <3>. QED
      BY <1>0, <3>1, ChangesOne DEF Stays, LogOK, NotHeld
  <2>. QED
    BY <2>1, <2>2
<1>3. ASSUME DeliverInterrupt PROVE LogOK(q)'
  BY <1>0, <1>3, ChangesOne, AbortedKeeps, PhaseLog DEF DeliverInterrupt, Stays, Active
<1>4. ASSUME DeliverRevoked PROVE LogOK(q)'
  BY <1>0, <1>4, ChangesOne, RevokedLog DEF DeliverRevoked, Stays
<1>5. ASSUME DeliverAttached PROVE LogOK(q)'
  <2>1. \/ held'[q] = Revoked(q)
        \/ held[q].phase = "admitted" /\ held'[q] = [held[q] EXCEPT !.phase = "leased"]
        \/ Stays(q)
    BY <1>5 DEF DeliverAttached, Stays
  <2>2. CASE held[q].phase = "admitted" /\ held'[q] = [held[q] EXCEPT !.phase = "leased"]
    BY <2>2, HeldTyped, PhaseLog DEF Execution
  <2>. QED
    BY <1>0, <2>1, <2>2, RevokedLog
<1>6. ASSUME RunnerRestart PROVE LogOK(q)'
  BY <1>6, NotHeldLog DEF RunnerRestart
<1>7. CASE UNCHANGED held
  BY <1>0, <1>7 DEF Stays
<1>8. ASSUME NEW r \in Run, OfHost(r) PROVE UNCHANGED held
  BY <1>8 DEF OfHost, Stop, Abandon, Claim, SendInterrupt, HearInterrupted, Sweep, runner
<1>9. Dispatcher => UNCHANGED held
  BY DEF Dispatcher, Plan, Bind, Reject, Check, Send, GiveUp, HearReply, LoseReply, runner
<1>10. Connect \/ Disconnect \/ Notice \/ HostRestart \/ Attach \/ LeaseExpires => UNCHANGED held
  BY DEF Connect, Disconnect, Notice, HostRestart, Attach, LeaseExpires, runner
<1>11. StrayEnds \/ OrphanEnds \/ UNCHANGED vars => UNCHANGED held
  BY DEF StrayEnds, OrphanEnds, vars, runner
<1>. QED
  BY <1>1, <1>2, <1>3, <1>4, <1>5, <1>6, <1>7, <1>8, <1>9, <1>10, <1>11
     DEF Next, Connection, Processes

-----------------------------------------------------------------------------
(* 7. The invariant, and what a step does to frames and bindings.          *)

(* The places of the frames on the wire. *)
Sent == 1..Len(wire)

(* A frame that takes a Run from the Runner. *)
Revokes(f, r) ==
  \/ f.type = "revoked" /\ r \in f.runs
  \/ f.type = "attached" /\ r \notin f.runs

(* The frame is an execute command of the Run. *)
Offered(i, r) == i \in Sent /\ wire[i].type = "execute" /\ r \in wire[i].runs

(* The frames on the wire: none on a connection that is down, one answer   *)
(* to the attach, and at most one execute command, which no frame but a    *)
(* revocation or an interrupt follows.                                     *)
WireOK ==
  /\ link = "down" => wire = <<>>
  /\ link = "up" => \A i \in Sent : wire[i].type = "revoked"
  /\ \A i, j \in Sent : wire[i].type = "attached" /\ wire[j].type = "attached" => i = j
  /\ \A i, j \in Sent : wire[i].type = "execute" /\ i < j
       => wire[j].type \notin {"execute", "attached"}
  /\ \A i \in Sent : wire[i].type # "attached" => \E r \in Run : wire[i].runs = {r}

(* A binding that the Run was given: the session's newest is this boot's   *)
(* and the Run's until it ends, and the Runs before have ended.            *)
Granted(r, g) ==
  /\ g \in 1..session.gen
  /\ g = session.gen => session.holder = boot /\ (IsTerminal(r) \/ run[r].bound = g)
  /\ \A q \in Run : q < r => IsTerminal(q)

(* An execute command on the wire: of a binding newer than any the Runner  *)
(* holds, over a standing connection the one being dispatched, and         *)
(* revoked after it only when its Run has ended.                           *)
OfferOK(i, r) ==
  /\ Granted(r, wire[i].gen)
  /\ \A q \in Run : held[q].phase # "none" => held[q].gen < wire[i].gen
  /\ Idling \/ dispatch.stage = "sent"
  /\ link = "attached" =>
       /\ ~Idling /\ ~dispatch.stale /\ dispatch.reply = "none"
       /\ dispatch.run = r /\ dispatch.gen = wire[i].gen
       /\ IsTerminal(r) \/ wire[i].gen = session.gen
  /\ \A j \in Sent : i < j /\ Revokes(wire[j], r) => IsTerminal(r)

(* The Runner acts on the Run or goes on to when it reads on: it holds a   *)
(* lease, or it waits for one that no answer on its way will deny.         *)
Firm(r) ==
  \/ held[r].phase \in {"leased", "acting"}
  \/ /\ held[r].phase = "admitted" /\ link = "attached"
     /\ \A i \in Sent : wire[i].type = "attached" => r \in wire[i].runs

(* An execution the Runner holds: older than the binding being             *)
(* dispatched, under the newest binding and its live lease if held         *)
(* firmly, and revoked under the newest binding only when its Run has      *)
(* ended.                                                                  *)
HeldOK(r) ==
  /\ Granted(r, held[r].gen)
  /\ dispatch.stage \in {"bound", "checked"} => held[r].gen < dispatch.gen
  /\ ~Idling /\ ~dispatch.stale /\ dispatch.reply = "retryable" /\ dispatch.run = r
       => held[r].gen < dispatch.gen
  /\ Firm(r) => IsTerminal(r) \/ (held[r].gen = session.gen /\ session.lease = "live")
  /\ held[r].gen = session.gen =>
       (held[r].cause = "revoked" \/ (\E i \in Sent : Revokes(wire[i], r)) => IsTerminal(r))

(* Every frame and every execution is so. *)
Offers == \A i \in Sent, r \in Run : Offered(i, r) => OfferOK(i, r)
Helds == \A r \in Run : held[r].phase # "none" => HeldOK(r)

(* A dispatch past its check is still that of the session's binding. *)
Ready ==
  /\ dispatch.stage # "sent" => dispatch.reply = "none"
  /\ dispatch.stage = "checked" /\ ~dispatch.stale =>
       \/ IsTerminal(dispatch.run)
       \/ dispatch.gen = session.gen /\ run[dispatch.run].bound = session.gen

(* What the wire carries and the Runner holds agrees with the tables. *)
Engine == WireOK /\ Offers /\ Helds /\ Ready

(* A frame added to the wire is its last. *)
LEMMA PutSent ==
  ASSUME Base, NEW type, NEW rs, NEW g, wire' = Put(type, rs, g)
  PROVE  \E n \in Sent' :
           /\ wire'[n] = [type |-> type, runs |-> rs, gen |-> g]
           /\ \A i \in Sent : i \in Sent' /\ wire'[i] = wire[i] /\ i < n
           /\ \A i \in Sent' : i = n \/ i \in Sent
<1>. DEFINE f == [type |-> type, runs |-> rs, gen |-> g]
            n == Len(wire) + 1
<1>1. wire \in Seq(Frame) /\ wire' = Append(wire, f)
  BY DEF Base, Inv, TypeOK, Put
<1>. HIDE DEF f
<1>2. /\ Len(wire') = n /\ Len(wire) \in Nat /\ wire'[n] = f
      /\ \A i \in 1..Len(wire') : i = n \/ (i \in 1..Len(wire) /\ wire'[i] = wire[i])
  BY <1>1, Appended
<1>3. \A i \in Sent : i \in Sent' /\ i < n /\ i # n
  BY <1>2 DEF Sent
<1>4. n \in Sent'
  BY <1>2 DEF Sent
<1>5. \A i \in Sent' : i = n \/ (i \in Sent /\ wire'[i] = wire[i])
  BY <1>2 DEF Sent
<1>. QED
  BY <1>2, <1>3, <1>4, <1>5 DEF f

(* A frame read is the first, and the others move up. *)
LEMMA ReadSent ==
  ASSUME Base, NEW type, Reading(type)
  PROVE  /\ 1 \in Sent /\ Head(wire) = wire[1] /\ wire[1].type = type
         /\ \A i \in Sent' : i + 1 \in Sent /\ i + 1 # 1 /\ wire'[i] = wire[i + 1]
         /\ \A i, j \in Sent' : (i < j => i + 1 < j + 1) /\ (i + 1 = j + 1 => i = j)
         /\ \A i \in Sent' : 1 < i + 1
         /\ \A i \in Sent : i = 1 \/ \E j \in Sent' : i = j + 1
<1>1. wire \in Seq(Frame) /\ wire # <<>> /\ wire' = Tail(wire) /\ Head(wire).type = type
  BY DEF Base, Inv, TypeOK, Reading
<1>2. /\ Len(wire) \in Nat /\ Len(wire) >= 1 /\ Head(wire) = wire[1]
      /\ Len(wire') = Len(wire) - 1
      /\ \A i \in 1..Len(wire') : wire'[i] = wire[i + 1]
  BY <1>1
<1>3. \A i \in Sent' : i \in Nat /\ i >= 1 /\ i + 1 \in Sent
  BY <1>2 DEF Sent
<1>4. ASSUME NEW i \in Sent, i # 1 PROVE \E j \in Sent' : i = j + 1
  <2>1. i - 1 \in Sent' /\ i = (i - 1) + 1
    BY <1>2, <1>4 DEF Sent
  <2>. QED
    BY <2>1
<1>5. /\ 1 \in Sent
      /\ \A i \in Sent' : wire'[i] = wire[i + 1]
  BY <1>2 DEF Sent
<1>6. \A i \in Sent' : 1 < i + 1 /\ i + 1 # 1
  BY <1>3
<1>7. \A i, j \in Sent' : (i < j => i + 1 < j + 1) /\ (i + 1 = j + 1 => i = j)
  BY <1>3
<1>8. /\ 1 \in Sent /\ Head(wire) = wire[1] /\ wire[1].type = type
      /\ \A i \in Sent' : i + 1 \in Sent /\ wire'[i] = wire[i + 1]
  BY <1>1, <1>2, <1>3, <1>5
<1>9. \A i \in Sent : i = 1 \/ \E j \in Sent' : i = j + 1
  BY <1>4
<1>. QED
  BY <1>6, <1>7, <1>8, <1>9

(* The wire keeps its frames, or loses the first, or all of them. *)
Shrinks ==
  \/ wire' = wire
  \/ \E type : Reading(type)
  \/ wire' = <<>>

(* An empty wire carries nothing. *)
LEMMA NoneSent == ASSUME wire' = <<>> PROVE Sent' = {}
<1>1. Len(wire') = 0
  <2>1. Len(<<>>) = 0
    OBVIOUS
  <2>. QED
    BY <2>1, Zenon
<1>2. 1..0 = {}
  OBVIOUS
<1>. QED
  BY <1>1, <1>2 DEF Sent

(* A wire that loses frames stays in order. *)
LEMMA WireShrinks ==
  ASSUME Base, WireOK, Shrinks,
         link' = "down" => wire' = <<>>,
         link' = "up" => (link = "up" \/ wire' = <<>>)
  PROVE  WireOK'
<1>1. CASE wire' = <<>>
  BY <1>1, NoneSent DEF WireOK
<1>2. CASE wire' = wire
  <2>1. Sent' = Sent
    BY <1>2 DEF Sent
  <2>2. CASE wire = <<>>
    BY <1>1, <1>2, <2>2
  <2>. QED
    BY <1>2, <2>1, <2>2 DEF WireOK
<1>3. CASE (\E type : Reading(type)) /\ wire' # <<>>
  <2>1. PICK type : Reading(type)
    BY <1>3
  <2>. QED
    BY <1>3, <2>1, ReadSent DEF WireOK
<1>. QED
  BY <1>1, <1>2, <1>3 DEF Shrinks

(* A wire that gains a frame stays in order. *)
LEMMA WirePut ==
  ASSUME Base, WireOK, NEW type, NEW rs, NEW g, wire' = Put(type, rs, g),
         link' \in {"up", "attached", "draining"},
         \/ type \in {"revoked", "interrupt"} /\ (\E r \in Run : rs = {r})
         \/ type = "execute" /\ (\E r \in Run : rs = {r})
              /\ \A i \in Sent : wire[i].type # "execute"
         \/ type = "attached" /\ \A i \in Sent : wire[i].type \notin {"execute", "attached"},
         link' = "up" => link = "up" /\ type = "revoked"
  PROVE  WireOK'
<1>1. PICK n \in Sent' :
           /\ wire'[n] = [type |-> type, runs |-> rs, gen |-> g]
           /\ \A i \in Sent : i \in Sent' /\ wire'[i] = wire[i] /\ i < n
           /\ \A i \in Sent' : i = n \/ i \in Sent
  BY PutSent
<1>2. wire'[n].type = type /\ wire'[n].runs = rs
  BY <1>1
<1>3. \A i \in Sent' : i \in Nat
  BY DEF Sent
<1>. QED
  BY <1>1, <1>2, <1>3 DEF WireOK

(* What a step does to a binding.                                          *)

Calm(r) ==
  /\ \A q \in Run : IsTerminal(q) => IsTerminal(q)'
  /\ session'.gen \in Nat /\ session'.gen >= session.gen
  /\ session'.gen = session.gen =>
       session'.holder = session.holder /\ (IsTerminal(r)' \/ run'[r].bound = run[r].bound)

(* A transaction leaves the bindings alone, unless it gives its own Run    *)
(* back.                                                                   *)
LEMMA EffectCalm ==
  ASSUME Base, NEW q \in Run, Effect(q), NEW r \in Run
  PROVE  /\ \A p \in Run : IsTerminal(p) => IsTerminal(p)'
         /\ Calm(r) \/ (q = r /\ Returns(r))
<1>1. \A p \in Run : IsTerminal(p) => IsTerminal(p)'
  BY DEF Effect, Names, Ends, Returns, Recovers, Starts, Elsewhere, IsTerminal, IsExecuting,
         Terminal, Executing
<1>2. session'.gen \in Nat /\ session'.gen >= session.gen
  BY Typed DEF Effect, Names, Ends, Returns, Recovers, Starts, SameBinding
<1>3. \/ session'.gen = session.gen + 1 \/ session'.holder = session.holder
  BY DEF Effect, Names, Ends, Returns, Recovers, Starts, SameBinding
<1>4. \/ q = r /\ Returns(r)
      \/ session'.gen = session.gen + 1
      \/ IsTerminal(r)' \/ run'[r].bound = run[r].bound
  BY DEF Effect, Names, Ends, Returns, Recovers, Starts, Elsewhere
<1>. QED
  BY <1>1, <1>2, <1>3, <1>4, Typed DEF Calm

(* An action that leaves the Runs alone leaves their bindings. *)
LEMMA QuietCalm ==
  ASSUME Base, UNCHANGED run, NEW r \in Run,
         session'.gen = session.gen, session'.holder = session.holder
  PROVE  Calm(r)
  BY Typed DEF Calm, IsTerminal

(* A Run the Runner neither holds nor is offered under the binding of now. *)
Unheld(r) ==
  /\ held[r].phase # "none" => held[r].gen # session.gen
  /\ \A i \in Sent : Offered(i, r) => wire[i].gen # session.gen

(* A claim touches no binding. *)
LEMMA ClaimCalm == ASSUME Base, NEW q \in Run, Claim(q), NEW r \in Run PROVE Calm(r)
<1>1. /\ UNCHANGED session
      /\ run'[q].bound = run[q].bound /\ run[q].status = "queued"
      /\ \A p \in Run : p # q => run'[p] = run[p]
  BY DEF Claim, Base, Inv, TypeOK, RunRow
<1>. QED
  BY <1>1, Typed DEF Calm, IsTerminal, Terminal

(* A new binding takes a new generation. *)
LEMMA BindCalm == ASSUME Base, Bind, NEW r \in Run PROVE Calm(r)
<1>1. session'.gen = session.gen + 1
  BY DEF Bind, Base, Inv, TypeOK, SessionRow
<1>2. \A p \in Run : run'[p].status = run[p].status
  BY DEF Bind, Base, Inv, TypeOK, RunRow
<1>. QED
  BY <1>1, <1>2, Typed DEF Calm, IsTerminal

(* A Run under the session's newest generation is bound by it. *)
LEMMA GrantHeld ==
  ASSUME Known, NEW r \in Run, Granted(r, session.gen), ~IsTerminal(r)
  PROVE  IsExecuting(r) /\ Bound(r) /\ run[r].bound = session.gen /\ session.gen # 0
         /\ session.holder = boot /\ session.status # "broken"
<1>1. run[r].bound = session.gen /\ session.gen # 0 /\ session.holder = boot
  BY DEF Granted
<1>2. IsExecuting(r)
  BY <1>1 DEF Known, Base, Inv, TypeOK, RunRow, Rows, RowOK, IsTerminal, IsExecuting
<1>. QED
  BY <1>1, <1>2 DEF Known, Tables, BindingOK, Bound

(* Only an execution that no Runner has is given back. *)
LEMMA GiveUpUnheld ==
  ASSUME Known, Engine, GiveUp \/ HearReply, Returns(dispatch.run), dispatch.run \in Run,
         dispatch.reply = "retryable" \/ GiveUp
  PROVE  Unheld(dispatch.run)
<1>. DEFINE r == dispatch.run
<1>1. IsExecuting(r) /\ ~IsTerminal(r)
  BY DEF Returns, IsExecuting, IsTerminal, Executing, Terminal
<1>2. \A i \in Sent : ~Offered(i, r)
  BY DEF GiveUp, HearReply, MaySend, Engine, Offers, OfferOK, Known, Tables, DispatchOK, Idling
<1>3. ASSUME held[r].phase # "none", held[r].gen = session.gen PROVE FALSE
  <2>1. HeldOK(r) /\ run[r].bound = session.gen /\ session.gen # 0
    BY <1>1, <1>3, GrantHeld DEF Engine, Helds, HeldOK
  <2>2. CASE dispatch.stage \in {"claimed", "planned"}
    BY <1>1, <2>1, <2>2 DEF Known, Tables, DispatchOK, Idling
  <2>3. CASE dispatch.stage \in {"bound", "checked"}
    BY <1>1, <1>3, <2>1, <2>3, Typed DEF HeldOK, Known, Tables, DispatchOK, Idling
  <2>4. CASE HearReply
    BY <1>1, <1>3, <2>1, <2>4, Typed DEF HearReply, HeldOK, Known, Tables, DispatchOK, Idling,
             GiveUp
  <2>. QED
    BY <2>2, <2>3, <2>4 DEF GiveUp
<1>. QED
  BY <1>2, <1>3 DEF Unheld

(* A Run the restarted Host gives back was never bound. *)
LEMMA HostRestartUnheld ==
  ASSUME Known, Engine, NEW r \in Run, ClaimedOnly(r) PROVE Unheld(r)
<1>1. ~IsTerminal(r) /\ ~Bound(r)
  BY DEF ClaimedOnly, IsTerminal, Terminal
<1>. QED
  BY <1>1, GrantHeld DEF Unheld, Engine, Offers, OfferOK, Helds, HeldOK

(* A Run an attach gives back was not announced, and no offer of it is on  *)
(* the wire of a connection not attached yet.                              *)
LEMMA AttachUnheld ==
  ASSUME Known, Engine, Attach, NEW r \in Run, Bound(r), Settle(r), Returns(r)
  PROVE  Unheld(r)
<1>1. \A i \in Sent : ~Offered(i, r)
  BY DEF Attach, Engine, WireOK, Offered
<1>2. ~IsTerminal(r) /\ run[r].status # "queued"
  BY DEF Bound, IsExecuting, IsTerminal, Executing, Terminal
<1>3. run'[r].status = "queued" /\ UNCHANGED session
  BY DEF Returns
<1>4. ~RecoverLost(r) /\ ~UNCHANGED db
  <2>1. RecoverLost(r) => Ends(r) \/ Recovers(r)
    BY RecoverEffect DEF Bound, Known, Base, Inv
  <2>2. Ends(r) \/ Recovers(r) => FALSE
    BY <1>3, Typed DEF Known, Ends, Recovers, IsTerminal, Terminal
  <2>. QED
    BY <1>2, <1>3, <2>1, <2>2
<1>5. ~Announced(r)
  BY <1>4 DEF Settle
<1>6. ASSUME held[r].phase # "none", held[r].gen = session.gen PROVE FALSE
  BY <1>2, <1>5, <1>6, GrantHeld DEF Announced, Binds, Engine, Helds, HeldOK
<1>. QED
  BY <1>1, <1>6 DEF Unheld

(* A Run that ends is not given back. *)
LEMMA EndsKeepsOut == ASSUME NEW r, Ends(r) PROVE ~Returns(r) /\ ~Recovers(r)
  BY DEF Ends, Returns, Recovers, IsTerminal, Terminal

(* Failing a dispatch ends its Run or changes nothing. *)
LEMMA FailEnds == ASSUME Base, NEW r \in Run, Fail(r) PROVE UNCHANGED db \/ Ends(r)
  BY FinalizeEnds DEF Fail, Terminal, Base, Inv

(* Every step leaves the binding of a Run alone until a newer one, unless  *)
(* it gives back a Run that no Runner has.                                 *)
LEMMA StepCalm ==
  ASSUME Known, Engine, [Next]_vars, NEW r \in Run
  PROVE  Calm(r) \/ (Returns(r) /\ Unheld(r) /\ (dispatch' = Idle \/ Attach))
<1>. USE DEF Known
<1>0. UNCHANGED <<run, session>> => Calm(r)
  BY QuietCalm
<1>1. ASSUME NEW q \in Run, OfHost(q) PROVE Calm(r)
  <2>1. CASE Stop(q)
    <3>1. UNCHANGED <<run, session>> \/ Ends(q)
      <4>1. CASE EndsHere(q)
        <5>1. /\ ~IsTerminal(q)
              /\ run' = [run EXCEPT ![q].status = "interrupted"]
              /\ execute' = [execute EXCEPT ![q] = IF @ \in Open THEN "failed" ELSE @]
              /\ stop' = [stop EXCEPT ![q] = "succeeded"]
              /\ UNCHANGED <<grant, session>>
          BY <2>1, <4>1 DEF Stop
        <5>. QED
          BY <5>1 DEF Ends, Elsewhere, SameBinding, Base, Inv, Rows, DbTypeOK, RunRow, Open,
                      IsTerminal, Terminal
      <4>2. CASE ~EndsHere(q)
        BY <2>1, <4>2 DEF Stop
      <4>. QED
        BY <4>1, <4>2
    <3>2. Ends(q) => ~Returns(q)
      BY DEF Ends, Returns, IsTerminal, Terminal
    <3>. QED
      BY <1>0, <3>1, <3>2, EffectCalm DEF Effect
  <2>2. CASE Abandon(q)
    <3>1. Ends(q) /\ ~Returns(q)
      BY <2>2, FinalizeEnds DEF Abandon, Terminal, Base, Inv, Ends, Returns, IsTerminal
    <3>. QED
      BY <3>1, EffectCalm DEF Effect
  <2>3. CASE Sweep(q)
    <3>1. (Ends(q) \/ Recovers(q)) /\ ~Returns(q)
      BY <2>3, RecoverEffect, Typed DEF Sweep, Bound, Base, Inv, Ends, Recovers, Returns,
                                        IsTerminal,
                                 Terminal
    <3>. QED
      BY <3>1, EffectCalm DEF Effect
  <2>4. CASE Claim(q)
    BY <2>4, ClaimCalm
  <2>5. CASE SendInterrupt(q) \/ HearInterrupted(q)
    BY <1>0, <2>5 DEF SendInterrupt, HearInterrupted
  <2>. QED
    BY <1>1, <2>1, <2>2, <2>3, <2>4, <2>5 DEF OfHost
<1>2. ASSUME NEW q \in Run, OfRunner(q) PROVE Calm(r)
  <2>1. CASE Commit(q)
    <3>1. UNCHANGED db \/ (Effect(q) /\ ~Returns(q))
      <4>1. CASE UNCHANGED db
        BY <4>1
      <4>2. CASE ~UNCHANGED db
        <5>1. /\ Head(held[q].log) \in Entry
              /\ Accepts(q, Head(held[q].log)) /\ Apply(q, Head(held[q].log)) /\ Effect(q)
          BY <2>1, <4>2, CommitEffect
        <5>2. Names \/ Starts(q) \/ Ends(q) \/ Recovers(q)
          BY <5>1, ApplyEffect DEF Entry, Terminal, Base, Inv
        <5>3. IsExecuting(q)
          BY <5>1 DEF Accepts, Binds, Bound
        <5>4. ~Returns(q)
          BY <5>2, <5>3, Typed DEF Names, Starts, Ends, Recovers, Returns, IsTerminal,
                                   IsExecuting, Executing,
                          Terminal
        <5>. QED
          BY <5>1, <5>4
      <4>. QED
        BY <4>1, <4>2
    <3>. QED
      BY <1>0, <3>1, EffectCalm
  <2>2. CASE Refuse(q)
    <3>1. UNCHANGED db \/ (Ends(q) /\ ~Returns(q))
      BY <2>2, FinalizeEnds DEF Refuse, Binds, Bound, IsExecuting, IsTerminal, Executing,
                                Terminal,
                  Base, Inv, Ends, Returns
    <3>. QED
      BY <1>0, <3>1, EffectCalm DEF Effect
  <2>3. CASE ~Commit(q) /\ ~Refuse(q)
    BY <1>0, <1>2, <2>3 DEF OfRunner, Heartbeat, Begin, Say, LeaseLost, End, Evict
  <2>. QED
    BY <2>1, <2>2, <2>3
<1>3. CASE Dispatcher
  <2>1. CASE Plan \/ Check \/ Send \/ LoseReply
    BY <1>0, <2>1 DEF Plan, Check, Send, LoseReply
  <2>2. CASE Bind
    BY <2>2, BindCalm
  <2>3. CASE Reject
    <3>1. dispatch.run \in Run
      BY <2>3 DEF Reject, Base, Inv, Claimed, Idling
    <3>2. Fail(dispatch.run)
      BY <2>3 DEF Reject
    <3>3. UNCHANGED db \/ (Ends(dispatch.run) /\ ~Returns(dispatch.run))
      BY <3>1, <3>2, FailEnds, EndsKeepsOut
    <3>. QED
      BY <1>0, <3>1, <3>3, EffectCalm DEF Effect
  <2>4. CASE GiveUp \/ HearReply
    <3>1. dispatch.run \in Run
      BY <2>4 DEF GiveUp, HearReply, Base, Inv, Claimed, Idling
    <3>2. \/ UNCHANGED <<run, session>>
          \/ Retry(dispatch.run) /\ (GiveUp \/ dispatch.reply = "retryable")
          \/ Fail(dispatch.run)
      <4>1. dispatch.reply \in {"none", "accepted", "retryable", "refused"}
        BY Typed DEF Slot
      <4>. QED
        BY <2>4, <4>1 DEF GiveUp, HearReply
    <3>3. CASE Retry(dispatch.run) /\ (GiveUp \/ dispatch.reply = "retryable")
      <4>1. Effect(dispatch.run)
        BY <3>1, <3>3, RetryEffect DEF Effect, Base, Inv
      <4>2. Returns(dispatch.run) => Unheld(dispatch.run)
        BY <2>4, <3>1, <3>3, GiveUpUnheld
      <4>. QED
        BY <2>4, <3>1, <4>1, <4>2, EffectCalm DEF GiveUp, HearReply
    <3>4. CASE Fail(dispatch.run)
      <4>1. UNCHANGED db \/ (Ends(dispatch.run) /\ ~Returns(dispatch.run))
        BY <3>1, <3>4, FailEnds, EndsKeepsOut
      <4>. QED
        BY <1>0, <3>1, <4>1, EffectCalm DEF Effect
    <3>. QED
      BY <1>0, <3>2, <3>3, <3>4
  <2>. QED
    BY <1>3, <2>1, <2>2, <2>3, <2>4 DEF Dispatcher
<1>4. CASE HostRestart
  <2>1. CASE \E q \in Run : ClaimedOnly(q) /\ Requeue(q)
    <3>. PICK q \in Run : ClaimedOnly(q) /\ Requeue(q)
      BY <2>1
    <3>1. Effect(q)
      BY RequeueEffect DEF ClaimedOnly, IsExecuting, Executing, Effect, Base, Inv
    <3>2. Unheld(q)
      BY HostRestartUnheld
    <3>. QED
      BY <1>4, <3>1, <3>2, EffectCalm DEF HostRestart
  <2>2. CASE \A q \in Run : ~ClaimedOnly(q)
    <3>1. UNCHANGED run /\ session' \in {session, [session EXCEPT !.lease = "live"]}
      BY <1>4, <2>2 DEF HostRestart
    <3>2. session'.gen = session.gen /\ session'.holder = session.holder
      BY <3>1 DEF Base, Inv, TypeOK, SessionRow
    <3>. QED
      BY <3>1, <3>2, QuietCalm
  <2>. QED
    BY <1>4, <2>1, <2>2 DEF HostRestart
<1>5. CASE Attach
  <2>1. CASE \E q \in Run : Bound(q) /\ Settle(q)
    <3>. PICK q \in Run : Bound(q) /\ Settle(q)
      BY <2>1
    <3>1. UNCHANGED db \/ Effect(q)
      BY AttachEffect DEF Effect
    <3>2. Returns(q) => Unheld(q)
      BY <1>5, AttachUnheld
    <3>. QED
      BY <1>0, <1>5, <3>1, <3>2, EffectCalm
  <2>2. CASE UNCHANGED db
    BY <1>0, <2>2
  <2>. QED
    BY <1>5, <2>1, <2>2 DEF Attach
<1>6. CASE LeaseExpires
  <2>1. UNCHANGED run /\ session'.gen = session.gen /\ session'.holder = session.holder
    BY <1>6 DEF LeaseExpires, Base, Inv, TypeOK, SessionRow
  <2>. QED
    BY <2>1, QuietCalm
<1>7. CASE \/ Connect \/ Disconnect \/ Notice \/ DeliverExecute \/ DeliverInterrupt
           \/ DeliverRevoked \/ DeliverAttached \/ Processes \/ UNCHANGED vars
  BY <1>0, <1>7 DEF Connect, Disconnect, Notice, DeliverExecute, DeliverInterrupt,
                    DeliverRevoked,
        DeliverAttached, Processes, RunnerRestart, StrayEnds, OrphanEnds, vars
<1>. QED
  BY <1>1, <1>2, <1>3, <1>4, <1>5, <1>6, <1>7 DEF Next, Connection

(* At most one Run executes. *)
LEMMA OneExecutes ==
  ASSUME Base, NEW q \in Run, NEW r \in Run, IsExecuting(q), IsExecuting(r) PROVE q = r
  BY Typed DEF Base, Order, IsExecuting, IsTerminal, Executing, Terminal

(* Which steps take a generation from the session. *)
LEMMA StepGen ==
  ASSUME Base, [Next]_vars
  PROVE  \/ session'.gen = session.gen /\ session'.lease = session.lease
         \/ session'.gen = session.gen /\ HostRestart /\ session'.lease = "live"
         \/ session'.gen = session.gen /\ LeaseExpires
         \/ Bind
         \/ \E q \in Run : Recovers(q) /\ Sweep(q)
         \/ \E q \in Run : Recovers(q) /\ Commit(q) /\ Head(held[q].log) = "lost"
                                       /\ Accepts(q, "lost")
         \/ \E q \in Run : Recovers(q) /\ Attach /\ Bound(q) /\ Settle(q)
<1>0. UNCHANGED session => session'.gen = session.gen /\ session'.lease = session.lease
  OBVIOUS
<1>1. ASSUME NEW q \in Run, OfHost(q)
      PROVE  \/ session'.gen = session.gen /\ session'.lease = session.lease
             \/ Recovers(q) /\ Sweep(q)
  <2>1. CASE Abandon(q)
    <3>1. Ends(q)
      BY <2>1, FinalizeEnds DEF Abandon, Terminal, Base, Inv
    <3>. QED
      BY <3>1 DEF Ends, SameBinding
  <2>2. CASE Sweep(q)
    BY <2>2, RecoverEffect DEF Sweep, Bound, Base, Inv, Ends, SameBinding
  <2>3. CASE Stop(q) \/ Claim(q) \/ SendInterrupt(q) \/ HearInterrupted(q)
    BY <1>0, <2>3 DEF Stop, Claim, SendInterrupt, HearInterrupted
  <2>. QED
    BY <1>1, <2>1, <2>2, <2>3 DEF OfHost
<1>2. ASSUME NEW q \in Run, OfRunner(q)
      PROVE  \/ session'.gen = session.gen /\ session'.lease = session.lease
             \/ Recovers(q) /\ Commit(q) /\ Head(held[q].log) = "lost" /\ Accepts(q, "lost")
  <2>1. CASE Commit(q)
    <3>1. CASE UNCHANGED db
      BY <1>0, <3>1
    <3>2. CASE ~UNCHANGED db
      <4>1. /\ Head(held[q].log) \in Entry
            /\ Accepts(q, Head(held[q].log)) /\ Apply(q, Head(held[q].log)) /\ Effect(q)
        BY <2>1, <3>2, CommitEffect
      <4>2. \/ Names \/ Starts(q) \/ Ends(q)
            \/ Recovers(q) /\ Head(held[q].log) = "lost"
        BY <4>1, ApplyEffect DEF Entry, Terminal, Base, Inv
      <4>3. Names \/ Starts(q) \/ Ends(q)
              => session'.gen = session.gen /\ session'.lease = session.lease
        BY DEF Names, Starts, Ends, SameBinding
      <4>. QED
        BY <2>1, <4>1, <4>2, <4>3
    <3>. QED
      BY <3>1, <3>2
  <2>2. CASE Refuse(q)
    <3>1. UNCHANGED db \/ Ends(q)
      BY <2>2, FinalizeEnds DEF Refuse, Binds, Bound, IsExecuting, IsTerminal, Executing,
                                Terminal,
                  Base, Inv
    <3>. QED
      BY <1>0, <3>1 DEF Ends, SameBinding
  <2>3. CASE ~Commit(q) /\ ~Refuse(q)
    BY <1>0, <1>2, <2>3 DEF OfRunner, Heartbeat, Begin, Say, LeaseLost, End, Evict
  <2>. QED
    BY <2>1, <2>2, <2>3
<1>3. CASE Dispatcher
  <2>1. CASE Plan \/ Check \/ Send \/ LoseReply
    BY <1>0, <2>1 DEF Plan, Check, Send, LoseReply
  <2>2. CASE Reject \/ GiveUp \/ HearReply
    <3>1. dispatch.run \in Run
      BY <2>2 DEF Reject, GiveUp, HearReply, Base, Inv, Claimed, Idling
    <3>2. Fail(dispatch.run) \/ Retry(dispatch.run) \/ UNCHANGED session
      <4>1. dispatch.reply \in {"none", "accepted", "retryable", "refused"}
        BY Typed DEF Slot
      <4>. QED
        BY <2>2, <4>1 DEF Reject, GiveUp, HearReply
    <3>3. UNCHANGED session \/ Names \/ Ends(dispatch.run) \/ Returns(dispatch.run)
      BY <3>1, <3>2, FailEffect, RetryEffect DEF Base, Inv
    <3>. QED
      BY <1>0, <3>3 DEF Names, Ends, Returns, SameBinding
  <2>. QED
    BY <1>3, <2>1, <2>2 DEF Dispatcher
<1>4. CASE HostRestart
  <2>1. CASE \E q \in Run : ClaimedOnly(q) /\ Requeue(q)
    <3>. PICK q \in Run : ClaimedOnly(q) /\ Requeue(q)
      BY <2>1
    <3>1. Ends(q) \/ Returns(q)
      BY RequeueEffect DEF ClaimedOnly, IsExecuting, Executing, Base, Inv
    <3>. QED
      BY <3>1 DEF Ends, Returns, SameBinding
  <2>2. CASE \A q \in Run : ~ClaimedOnly(q)
    BY <1>4, <2>2 DEF HostRestart, Base, Inv, TypeOK, SessionRow
  <2>. QED
    BY <1>4, <2>1, <2>2 DEF HostRestart
<1>5. CASE Attach
  <2>1. CASE \E q \in Run : Bound(q) /\ Settle(q)
    <3>. PICK q \in Run : Bound(q) /\ Settle(q)
      BY <2>1
    <3>1. UNCHANGED db \/ Ends(q) \/ Returns(q) \/ Recovers(q)
      BY AttachEffect
    <3>. QED
      BY <1>5, <3>1 DEF Ends, Returns, SameBinding
  <2>2. CASE UNCHANGED db
    BY <1>0, <2>2
  <2>. QED
    BY <1>5, <2>1, <2>2 DEF Attach
<1>6. CASE LeaseExpires
  BY <1>6 DEF LeaseExpires, Base, Inv, TypeOK, SessionRow
<1>7. CASE \/ Connect \/ Disconnect \/ Notice \/ DeliverExecute \/ DeliverInterrupt
           \/ DeliverRevoked \/ DeliverAttached \/ Processes \/ UNCHANGED vars
  BY <1>0, <1>7 DEF Connect, Disconnect, Notice, DeliverExecute, DeliverInterrupt,
                    DeliverRevoked,
        DeliverAttached, Processes, RunnerRestart, StrayEnds, OrphanEnds, vars
<1>. QED
  BY <1>1, <1>2, <1>3, <1>4, <1>5, <1>6, <1>7 DEF Next, Connection

(* The head of a journal is its first entry. *)
LEMMA HeadFirst == ASSUME Base, NEW r \in Run, held[r].log # <<>>
  PROVE Head(held[r].log) = held[r].log[1] /\ 1 \in 1..Len(held[r].log)
  BY HeldTyped

(* What is firmly held keeps its binding and its lease until the Run ends. *)
LEMMA StepFirm ==
  ASSUME Known, Logs, Engine, [Next]_vars, NEW r \in Run, Firm(r), ~IsTerminal(r)
  PROVE  IsTerminal(r)' \/ (session'.gen = session.gen /\ session'.lease = "live")
<1>. USE DEF Known
<1>0. held[r].phase \in {"admitted", "leased", "acting"} /\ held[r].phase # "none"
  BY DEF Firm
<1>1. /\ HeldOK(r) /\ held[r].gen = session.gen /\ session.lease = "live"
  BY <1>0 DEF Engine, Helds, HeldOK
<1>2. /\ IsExecuting(r) /\ Bound(r) /\ run[r].bound = session.gen /\ session.gen # 0
      /\ session.holder = boot /\ session.status # "broken"
  BY <1>1, GrantHeld DEF HeldOK
<1>3. ASSUME Bind PROVE FALSE
  BY <1>2, <1>3, OneExecutes DEF Bind, Bindable, IsExecuting, Executing, Base, Inv, Claimed,
                                 Idling,
                    Tables, DispatchOK
<1>4. ASSUME LeaseExpires PROVE FALSE
  BY <1>0, <1>1, <1>2, <1>4 DEF LeaseExpires, Renewed, Firm
<1>5. ASSUME NEW q \in Run, Sweep(q) PROVE FALSE
  BY <1>1, <1>5 DEF Sweep
<1>6. ASSUME NEW q \in Run, Commit(q), Head(held[q].log) = "lost", Recovers(q) PROVE FALSE
  <2>1. q = r
    BY <1>2, <1>6, OneExecutes DEF Recovers
  <2>. QED
    BY <1>0, <1>6, <2>1, HeadFirst DEF Commit, Reporting, Logs, LogOK
<1>7. ASSUME NEW q \in Run, Attach, Bound(q), Settle(q), Recovers(q) PROVE FALSE
  <2>1. q = r
    BY <1>2, <1>7, OneExecutes DEF Recovers
  <2>2. Announced(r)
    BY <1>0, <1>1, <1>2 DEF Announced, Binds
  <2>3. UNCHANGED db
    BY <1>1, <1>7, <2>1, <2>2 DEF Settle
  <2>. QED
    BY <1>7, <2>3, Typed DEF Recovers
<1>. QED
  BY <1>1, <1>3, <1>4, <1>5, <1>6, <1>7, StepGen

(* What is offered over a standing connection keeps its binding. *)
LEMMA StepOffered ==
  ASSUME Known, Logs, Engine, [Next]_vars, NEW r \in Run, NEW i \in Sent, Offered(i, r),
         link = "attached", ~IsTerminal(r)
  PROVE  session'.gen = session.gen
<1>. USE DEF Known
<1>1. /\ OfferOK(i, r) /\ wire[i].gen = session.gen /\ dispatch.gen = session.gen
      /\ dispatch.stage = "sent" /\ ~Idling
  BY DEF Engine, Offers, OfferOK
<1>2. session.lease = "live"
  BY <1>1 DEF Tables, DispatchOK
<1>3. ~Bind
  BY <1>1 DEF Bind
<1>4. ASSUME NEW q \in Run, Commit(q), Accepts(q, "lost") PROVE FALSE
  <2>1. held[q].gen = session.gen /\ held[q].phase # "none"
    BY <1>4 DEF Commit, Reporting, Accepts, Binds, Logs, LogOK
  <2>. QED
    BY <1>1, <2>1, Typed DEF OfferOK
<1>. QED
  BY <1>2, <1>3, <1>4, StepGen DEF Sweep, Attach

-----------------------------------------------------------------------------
(* 8. Offers.                                                              *)

(* Every step keeps the wire in order. *)
LEMMA WireStep == ASSUME Known, Engine, [Next]_vars PROVE WireOK'
<1>. USE DEF Known, Engine
<1>0. wire' = wire /\ link' = link => WireOK'
  BY WireShrinks DEF Shrinks, WireOK
<1>1. ASSUME NEW q \in Run, OfHost(q) PROVE WireOK'
  <2>1. CASE Abandon(q)
    <3>1. wire' = wire \/ (wire' = Put("revoked", {q}, 0) /\ link \in {"up", "attached"})
      BY <2>1 DEF Abandon
    <3>2. link' = link
      BY <2>1 DEF Abandon
    <3>. QED
      BY <1>0, <3>1, <3>2, WirePut
  <2>2. CASE SendInterrupt(q)
    BY <2>2, WirePut DEF SendInterrupt
  <2>3. CASE Stop(q) \/ Claim(q) \/ HearInterrupted(q) \/ Sweep(q)
    BY <1>0, <2>3 DEF Stop, Claim, HearInterrupted, Sweep
  <2>. QED
    BY <1>1, <2>1, <2>2, <2>3 DEF OfHost
<1>2. ASSUME NEW q \in Run, OfRunner(q) PROVE WireOK'
  <2>1. CASE Refuse(q)
    BY <2>1, WirePut DEF Refuse, Reporting
  <2>2. CASE ~Refuse(q)
    BY <1>0, <1>2, <2>2 DEF OfRunner, Heartbeat, Begin, Say, LeaseLost, End, Evict, Commit
  <2>. QED
    BY <2>1, <2>2
<1>3. CASE Dispatcher
  <2>1. CASE Send
    <3>1. \A i \in Sent : wire[i].type # "execute"
      BY <2>1 DEF Send, Offers, OfferOK, Offered, WireOK, Idling
    <3>2. dispatch.run \in Run /\ link' = "attached"
      BY <2>1 DEF Send, MaySend, Base, Inv, Claimed, Idling, Tables, DispatchOK
    <3>. QED
      BY <2>1, <3>1, <3>2, WirePut DEF Send
  <2>2. CASE ~Send
    BY <1>0, <1>3, <2>2 DEF Dispatcher, Plan, Bind, Reject, Check, GiveUp, HearReply, LoseReply
  <2>. QED
    BY <2>1, <2>2
<1>4. CASE Attach
  BY <1>4, WirePut DEF Attach, WireOK
<1>5. CASE DeliverExecute \/ DeliverInterrupt \/ DeliverRevoked \/ DeliverAttached
  <2>1. (\E type : Reading(type)) /\ link' = link /\ link # "down"
    BY <1>5 DEF DeliverExecute, DeliverInterrupt, DeliverRevoked, DeliverAttached, Reading
  <2>. QED
    BY <2>1, WireShrinks DEF Shrinks
<1>6. CASE Connect \/ Disconnect \/ Notice \/ HostRestart \/ LeaseExpires
  <2>1. CASE Connect
    BY <2>1, WireShrinks DEF Connect, Shrinks, WireOK
  <2>2. CASE Disconnect \/ HostRestart
    BY <2>2, WireShrinks DEF Disconnect, HostRestart, Shrinks, WireOK
  <2>3. CASE Notice
    BY <2>3, WireShrinks DEF Notice, Shrinks
  <2>4. CASE LeaseExpires
    BY <1>0, <2>4 DEF LeaseExpires
  <2>. QED
    BY <1>6, <2>1, <2>2, <2>3, <2>4
<1>7. CASE Processes
  BY <1>0, <1>7, WireShrinks DEF Processes, RunnerRestart, StrayEnds, OrphanEnds, Shrinks
<1>8. CASE UNCHANGED vars
  BY <1>0, <1>8 DEF vars
<1>. QED
  BY <1>1, <1>2, <1>3, <1>4, <1>5, <1>6, <1>7, <1>8 DEF Next, Connection

(* A binding given to a Run stays given. *)
LEMMA GrantedKept ==
  ASSUME Known, NEW r \in Run, NEW g, Granted(r, g), UNCHANGED boot,
         Calm(r) \/ (Returns(r) /\ g # session.gen)
  PROVE  Granted(r, g)'
<1>1. CASE Calm(r)
  <2>1. g \in 1..session'.gen /\ (g = session'.gen => session'.gen = session.gen)
    BY <1>1, Typed DEF Known, Granted, Calm
  <2>. QED
    BY <1>1, <2>1 DEF Granted, Calm, IsTerminal
<1>2. CASE Returns(r) /\ g # session.gen
  <2>1. \A q \in Run : IsTerminal(q) => IsTerminal(q)'
    BY <1>2, EffectCalm DEF Known, Effect
  <2>. QED
    BY <1>2, <2>1 DEF Granted, Returns
<1>. QED
  BY <1>1, <1>2

(* A Run that has ended stays ended. *)
LEMMA TerminalStays ==
  ASSUME Known, Engine, [Next]_vars PROVE \A q \in Run : IsTerminal(q) => IsTerminal(q)'
<1>. SUFFICES ASSUME NEW q \in Run, IsTerminal(q) PROVE IsTerminal(q)'
  OBVIOUS
<1>1. ~Returns(q)
  BY DEF Returns, IsTerminal, IsExecuting, Executing, Terminal
<1>. QED
  BY <1>1, StepCalm DEF Calm

(* The Runner holds nothing it did not hold before. *)
HeldShrinks ==
  \A q \in Run : held'[q].phase # "none" => held[q].phase # "none" /\ held'[q].gen = held[q].gen

(* The dispatch of an offer that still stands. *)
OfferSlot(r, g) ==
  /\ Idling \/ dispatch.stage = "sent"
  /\ link = "attached" =>
       /\ ~Idling /\ ~dispatch.stale /\ dispatch.reply = "none"
       /\ dispatch.run = r /\ dispatch.gen = g

(* An offer on the wire before a step is sound after it. *)
LEMMA OfferKept ==
  ASSUME Known, Logs, Engine, [Next]_vars, UNCHANGED boot, HeldShrinks,
         NEW r \in Run, NEW i \in Sent', NEW j \in Sent, Offered(j, r),
         wire'[i] = wire[j], link' = "attached" => link = "attached",
         \A g : wire[j].gen = g => OfferSlot(r, g)',
         \A k \in Sent' : i < k /\ Revokes(wire'[k], r) => IsTerminal(r)'
  PROVE  OfferOK(i, r)'
<1>. PICK g : g = wire[j].gen
  OBVIOUS
<1>0. wire'[i].gen = g /\ OfferSlot(r, g)'
  OBVIOUS
<1>1. OfferOK(j, r)
  BY DEF Engine, Offers
<1>2. Granted(r, g)'
  <2>1. Granted(r, g)
    BY <1>1 DEF OfferOK
  <2>2. Unheld(r) => g # session.gen
    BY DEF Unheld
  <2>. QED
    BY <2>1, <2>2, StepCalm, GrantedKept
<1>3. \A q \in Run : held'[q].phase # "none" => held'[q].gen < g
  BY <1>1 DEF OfferOK, HeldShrinks
<1>4. link' = "attached" => IsTerminal(r)' \/ g = session'.gen
  BY <1>1, StepOffered, TerminalStays DEF OfferOK
<1>. QED
  BY <1>0, <1>2, <1>3, <1>4 DEF OfferOK, OfferSlot

(* Where no execute command can be on the wire. *)
LEMMA NoOffers ==
  ASSUME Known, Engine,
         \/ dispatch.stage \in {"claimed", "planned", "bound", "checked"}
         \/ link \in {"down", "up"}
         \/ link = "attached" /\ (Idling \/ dispatch.stale \/ dispatch.reply # "none")
  PROVE  \A i \in Sent, r \in Run : ~Offered(i, r)
<1>. SUFFICES ASSUME NEW i \in Sent, NEW r \in Run, Offered(i, r) PROVE FALSE
  OBVIOUS
<1>1. OfferOK(i, r) /\ link \notin {"down", "up"}
  <2>1. link # "down"
    <3>1. wire = <<>> => Sent = {}
      <4>1. wire = <<>> => Len(wire) = Len(<<>>)
        BY Zenon
      <4>. QED
        BY <4>1 DEF Sent
    <3>. QED
      BY <3>1 DEF Engine, WireOK
  <2>. QED
    BY <2>1 DEF Engine, Offers, WireOK, Offered
<1>. QED
  BY <1>1 DEF OfferOK, Idling

(* No frame is added that revokes or offers. *)
LEMMA SameOffers ==
  ASSUME Known, Logs, Engine, [Next]_vars, UNCHANGED <<boot, wire>>, HeldShrinks,
         link' = "attached" => link = "attached",
         \A i \in Sent, r \in Run : \A g : Offered(i, r) /\ wire[i].gen = g => OfferSlot(r, g)'
  PROVE  Offers'
<1>. SUFFICES ASSUME NEW i \in Sent', NEW r \in Run, Offered(i, r)' PROVE OfferOK(i, r)'
  BY DEF Offers
<1>1. i \in Sent /\ Offered(i, r) /\ wire'[i] = wire[i]
  BY DEF Sent, Offered
<1>2. \A k \in Sent' : i < k /\ Revokes(wire'[k], r) => IsTerminal(r)'
  BY <1>1, TerminalStays DEF Engine, Offers, OfferOK, Sent
<1>. QED
  BY <1>1, <1>2, OfferKept

(* A frame is read. *)
LEMMA ReadOffers ==
  ASSUME Known, Logs, Engine, [Next]_vars, UNCHANGED <<boot, link>>, HeldShrinks,
         NEW type, Reading(type),
         \A i \in Sent, r \in Run : \A g : Offered(i, r) /\ wire[i].gen = g => OfferSlot(r, g)'
  PROVE  Offers'
<1>. SUFFICES ASSUME NEW i \in Sent', NEW r \in Run, Offered(i, r)' PROVE OfferOK(i, r)'
  BY DEF Offers
<1>0. Base
  BY DEF Known
<1>1. /\ i + 1 \in Sent /\ wire'[i] = wire[i + 1]
      /\ \A k \in Sent' : k + 1 \in Sent /\ wire'[k] = wire[k + 1] /\ (i < k => i + 1 < k + 1)
  BY <1>0, ReadSent
<1>2. Offered(i + 1, r)
  BY <1>1 DEF Offered
<1>3. \A k \in Sent' : i < k /\ Revokes(wire'[k], r) => IsTerminal(r)'
  BY <1>1, <1>2, TerminalStays DEF Engine, Offers, OfferOK
<1>. QED
  BY <1>1, <1>2, <1>3, OfferKept

(* A frame is added: none of the offers before it is taken back by it. *)
LEMMA PutOffers ==
  ASSUME Known, Logs, Engine, [Next]_vars, UNCHANGED boot, HeldShrinks,
         NEW type \in {"revoked", "interrupt", "attached"}, NEW rs, NEW g,
         wire' = Put(type, rs, g),
         link' = "attached" => link = "attached" \/ \A i \in Sent, r \in Run : ~Offered(i, r),
         \A i \in Sent, r \in Run : \A m : Offered(i, r) /\ wire[i].gen = m => OfferSlot(r, m)',
         \A i \in Sent, r \in Run : Offered(i, r) =>
           type = "interrupt" \/ (type = "revoked" /\ (r \notin rs \/ IsTerminal(r)'))
  PROVE  Offers'
<1>0. Base
  BY DEF Known
<1>1. PICK n \in Sent' :
           /\ wire'[n] = [type |-> type, runs |-> rs, gen |-> g]
           /\ \A i \in Sent : i \in Sent' /\ wire'[i] = wire[i] /\ i < n
           /\ \A i \in Sent' : i = n \/ i \in Sent
  BY <1>0, PutSent
<1>. SUFFICES ASSUME NEW i \in Sent', NEW r \in Run, Offered(i, r)' PROVE OfferOK(i, r)'
  BY DEF Offers
<1>2. i # n
  BY <1>1 DEF Offered
<1>3. i \in Sent /\ Offered(i, r) /\ wire'[i] = wire[i]
  BY <1>1, <1>2 DEF Offered
<1>4. ASSUME NEW k \in Sent', i < k, Revokes(wire'[k], r) PROVE IsTerminal(r)'
  <2>1. CASE k = n
    BY <1>1, <1>3, <1>4, <2>1 DEF Revokes
  <2>2. CASE k # n
    BY <1>1, <1>3, <1>4, <2>2, TerminalStays DEF Engine, Offers, OfferOK
  <2>. QED
    BY <2>1, <2>2
<1>. QED
  BY <1>3, <1>4, OfferKept

(* The wire is lost. *)
LEMMA EmptyOffers == ASSUME wire' = <<>> PROVE Offers'
  BY NoneSent DEF Offers

(* An execute command is sent. *)
LEMMA SendOffers ==
  ASSUME Known, Engine, [Next]_vars, Send PROVE Offers'
<1>. USE DEF Known
<1>. PICK g : g = dispatch.gen
  OBVIOUS
<1>1. /\ dispatch.stage = "checked" /\ ~dispatch.stale /\ ~Idling /\ link = "attached"
      /\ wire' = Put("execute", {dispatch.run}, g)
      /\ dispatch' = [dispatch EXCEPT !.stage = "sent"]
      /\ UNCHANGED <<run, session, link, held, boot>>
  BY DEF Send, MaySend, Idling, Tables, DispatchOK, runner
<1>2. /\ dispatch'.stage = "sent" /\ dispatch'.run = dispatch.run /\ dispatch'.gen = g
      /\ ~dispatch'.stale /\ dispatch'.reply = "none"
  BY <1>1, Typed DEF Slot, Engine, Ready
<1>3. PICK n \in Sent' :
           /\ wire'[n] = [type |-> "execute", runs |-> {dispatch.run}, gen |-> g]
           /\ \A i \in Sent : i \in Sent' /\ wire'[i] = wire[i] /\ i < n
           /\ \A i \in Sent' : i = n \/ i \in Sent
  BY <1>1, PutSent
<1>. SUFFICES ASSUME NEW i \in Sent', NEW r \in Run, Offered(i, r)' PROVE OfferOK(i, r)'
  BY DEF Offers
<1>4. \A k \in Sent : ~Offered(k, r)
  BY <1>1, NoOffers
<1>5. i = n
  BY <1>3, <1>4 DEF Offered
<1>6. r = dispatch.run /\ wire'[i].gen = g
  BY <1>3, <1>5 DEF Offered
<1>7. Granted(r, g)
  <2>1. g \in 1..session.gen /\ (g = session.gen => session.holder = boot)
        /\ \A q \in Run : q < r => IsTerminal(q)
    BY <1>1, <1>6 DEF Tables, DispatchOK
  <2>2. IsTerminal(r) \/ run[r].bound = session.gen
    BY <1>1, <1>6 DEF Engine, Ready
  <2>. QED
    BY <2>1, <2>2 DEF Granted
<1>8. Granted(r, g)'
  BY <1>1, <1>7 DEF Granted, IsTerminal
<1>9. ASSUME NEW q \in Run, held'[q].phase # "none" PROVE held'[q].gen < g
  BY <1>1, <1>9 DEF Engine, Helds, HeldOK
<1>11. \A k \in Sent' : ~(i < k)
  BY <1>3, <1>5 DEF Sent
<1>12. IsTerminal(r)' \/ g = session'.gen
  BY <1>1, <1>6 DEF Engine, Ready, IsTerminal
<1>13. ~Idling'
  BY <1>2 DEF Idling
<1>. QED
  BY <1>1, <1>2, <1>6, <1>8, <1>9, <1>11, <1>12, <1>13 DEF OfferOK

(* What a step does to the executions the Runner holds. *)
LEMMA StepHeld ==
  ASSUME Known, Logs, [Next]_vars
  PROVE  DeliverExecute \/ RunnerRestart \/ (HeldShrinks /\ UNCHANGED boot)
<1>. USE DEF Known
<1>0. UNCHANGED <<held, boot>> => HeldShrinks /\ UNCHANGED boot
  BY DEF HeldShrinks
<1>1. ASSUME NEW r \in Run, OfRunner(r) PROVE HeldShrinks /\ UNCHANGED boot
  <2>1. CASE Heartbeat(r) \/ Begin(r) \/ Say(r) \/ LeaseLost(r) \/ End(r) \/ Evict(r)
             \/ Commit(r)
    <3>1. UNCHANGED boot /\ held[r].phase # "none"
      BY <2>1 DEF Heartbeat, Begin, Say, LeaseLost, End, Evict, Commit, Reporting, Logs, LogOK
    <3>2. PICK x : held' = [held EXCEPT ![r] = x]
      BY <2>1 DEF Heartbeat, Begin, Say, LeaseLost, End, Evict, Commit
    <3>3. held'[r].phase = "none" \/ held'[r].gen = held[r].gen
      <4>0. held[r] \in Execution /\ held \in [Run -> Execution]
        BY HeldTyped DEF Base, Inv, TypeOK
      <4>1. CASE Heartbeat(r) \/ Begin(r) \/ Say(r)
        BY <4>0, <4>1 DEF Heartbeat, Begin, Say, Execution
      <4>2. CASE LeaseLost(r)
        BY <4>2, ChangesOne, AbortedKeeps DEF LeaseLost
      <4>4. CASE Commit(r)
        <5>1. held'[r] = Acknowledged(r) /\ held[r].log # <<>>
          BY <4>4, ChangesOne DEF Commit, Reporting
        <5>. QED
          BY <5>1, AckKeeps DEF NotHeld
      <4>3. CASE End(r) \/ Evict(r)
        BY <4>0, <4>3 DEF End, Evict, NotHeld, Execution
      <4>. QED
        BY <2>1, <4>1, <4>2, <4>3, <4>4
    <3>. QED
      BY <3>1, <3>2, <3>3, ChangesOne DEF HeldShrinks
  <2>2. CASE Refuse(r)
    BY <1>0, <2>2 DEF Refuse, runner
  <2>. QED
    BY <1>1, <2>1, <2>2 DEF OfRunner
<1>2. CASE DeliverInterrupt
  <2>1. UNCHANGED boot
    BY <1>2 DEF DeliverInterrupt
  <2>. QED
    BY <1>2, <2>1, ChangesOne, AbortedKeeps DEF DeliverInterrupt, HeldShrinks, Active
<1>3. CASE DeliverRevoked \/ DeliverAttached
  <2>1. UNCHANGED boot
    BY <1>3 DEF DeliverRevoked, DeliverAttached
  <2>2. ASSUME NEW q \in Run
        PROVE  \/ held'[q] = Revoked(q)
               \/ held[q].phase = "admitted" /\ held'[q] = [held[q] EXCEPT !.phase = "leased"]
               \/ held'[q] = held[q]
    BY <1>3, ChangesOne DEF DeliverRevoked, DeliverAttached
  <2>3. ASSUME NEW q \in Run
        PROVE  held'[q].phase # "none" => held[q].phase # "none" /\ held'[q].gen = held[q].gen
    <3>1. CASE held'[q] = Revoked(q)
      BY <3>1, RevokedKeeps DEF NotHeld, Active
    <3>2. CASE held[q].phase = "admitted" /\ held'[q] = [held[q] EXCEPT !.phase = "leased"]
      BY <3>2, HeldTyped DEF Execution
    <3>. QED
      BY <2>2, <3>1, <3>2
  <2>. QED
    BY <2>1, <2>3 DEF HeldShrinks
<1>4. ASSUME NEW r \in Run, OfHost(r) PROVE UNCHANGED <<held, boot>>
  BY <1>4 DEF OfHost, Stop, Abandon, Claim, SendInterrupt, HearInterrupted, Sweep, runner
<1>5. Dispatcher => UNCHANGED <<held, boot>>
  BY DEF Dispatcher, Plan, Bind, Reject, Check, Send, GiveUp, HearReply, LoseReply, runner
<1>6. Connect \/ Disconnect \/ Notice \/ HostRestart \/ Attach \/ LeaseExpires
        => UNCHANGED <<held, boot>>
  BY DEF Connect, Disconnect, Notice, HostRestart, Attach, LeaseExpires, runner
<1>7. StrayEnds \/ OrphanEnds \/ UNCHANGED vars => UNCHANGED <<held, boot>>
  BY DEF StrayEnds, OrphanEnds, vars, runner
<1>. QED
  BY <1>0, <1>1, <1>2, <1>3, <1>4, <1>5, <1>6, <1>7 DEF Next, Connection, Processes

(* What a step does to the dispatch slot. *)
Begins == /\ Idling /\ dispatch'.stage = "claimed" /\ dispatch'.reply = "none"
          /\ dispatch'.run \in Run /\ ~IsTerminal(dispatch'.run)
          /\ \A q \in Run : q < dispatch'.run => IsTerminal(q)
          /\ run[dispatch'.run].status = "queued"
          /\ UNCHANGED <<wire, link, held, boot, session>>

Moved(from, to) ==
  /\ dispatch.stage = from /\ dispatch'.stage = to
  /\ dispatch'.run = dispatch.run
  /\ dispatch'.reply = dispatch.reply
  /\ UNCHANGED <<wire, link, held, boot>>

Answered ==
  /\ dispatch.stage = "sent" /\ dispatch'.stage = "sent" /\ ~dispatch.stale
  /\ dispatch'.run = dispatch.run /\ dispatch'.gen = dispatch.gen
  /\ ~dispatch'.stale
  /\ DeliverExecute

Keeps ==
  /\ dispatch'.stage = dispatch.stage /\ dispatch'.run = dispatch.run
  /\ dispatch'.gen = dispatch.gen /\ dispatch'.reply = dispatch.reply
  /\ dispatch'.boot = dispatch.boot
  /\ dispatch.fenced => dispatch'.fenced
  /\ dispatch'.stale = dispatch.stale \/ (dispatch'.stale /\ link' # "attached")

Finishes ==
  /\ dispatch' = Idle
  /\ \/ link' # "attached" \/ dispatch.stage \in {"claimed", "planned", "bound", "checked"}
     \/ link' = link /\ (dispatch.stale \/ dispatch.reply # "none")

(* What a step does to the dispatch slot. *)
LEMMA StepDispatch ==
  ASSUME Known, [Next]_vars
  PROVE  \/ Keeps
         \/ Finishes
         \/ \E r \in Run : Claim(r) /\ Begins
         \/ Plan /\ Moved("claimed", "planned")
         \/ Bind /\ Moved("planned", "bound") /\ dispatch'.gen = session'.gen
                 /\ session'.gen = session.gen + 1
         \/ Check /\ Moved("bound", "checked") /\ dispatch'.gen = dispatch.gen
                  /\ dispatch'.stale = dispatch.stale /\ UNCHANGED <<run, session>>
         \/ Send
         \/ Answered
<1>. USE DEF Known
<1>0. UNCHANGED dispatch => Keeps
  BY DEF Keeps
<1>1. dispatch \in Slot /\ session \in SessionRow /\ session.gen \in Nat
  BY Typed DEF Base, Inv, TypeOK
<1>2. dispatch' = Stale /\ link' # "attached" => Keeps
  BY <1>1, StaleKeeps DEF Keeps, Stale, Slot
<1>3. ASSUME NEW r \in Run, Claim(r) PROVE Begins
  BY <1>3 DEF Claim, Begins, Idle, runner, NextInThread, IsTerminal, Terminal
<1>4. Plan => Moved("claimed", "planned")
  BY <1>1 DEF Plan, Moved, Slot, runner
<1>5. Bind => Moved("planned", "bound") /\ dispatch'.gen = session'.gen
                 /\ session'.gen = session.gen + 1
  BY <1>1 DEF Bind, Moved, Slot, SessionRow, runner
<1>6. Check => Moved("bound", "checked") /\ dispatch'.gen = dispatch.gen
                  /\ dispatch'.stale = dispatch.stale /\ UNCHANGED <<run, session>>
  BY <1>1 DEF Check, Moved, Slot, runner
<1>7. ASSUME NEW answer, Reply(answer), DeliverExecute PROVE Answered \/ Keeps
  BY <1>0, <1>1, <1>7 DEF Reply, Answered, Slot
<1>8. DeliverExecute => Answered \/ Keeps
  BY <1>7 DEF DeliverExecute
<1>9. ASSUME NEW r \in Run, SendInterrupt(r) PROVE Keeps
  BY <1>1, <1>9 DEF SendInterrupt, Keeps, Slot
<1>10. Reject \/ GiveUp \/ HearReply \/ LoseReply \/ HostRestart => Finishes
  BY DEF Reject, GiveUp, HearReply, LoseReply, HostRestart, Finishes
<1>11. Disconnect \/ RunnerRestart => Keeps
  BY <1>2 DEF Disconnect, RunnerRestart
<1>12. ASSUME NEW r \in Run, OfHost(r), ~Claim(r), ~SendInterrupt(r) PROVE UNCHANGED dispatch
  BY <1>12 DEF OfHost, Stop, Abandon, HearInterrupted, Sweep
<1>13. ASSUME NEW r \in Run, OfRunner(r) PROVE UNCHANGED dispatch
  BY <1>13 DEF OfRunner, Heartbeat, Begin, Say, LeaseLost, End, Evict, Commit, Refuse
<1>14. Connect \/ Notice \/ Attach \/ LeaseExpires \/ DeliverInterrupt \/ DeliverRevoked
         \/ DeliverAttached \/ StrayEnds \/ OrphanEnds \/ UNCHANGED vars => UNCHANGED dispatch
  BY DEF Connect, Notice, Attach, LeaseExpires, DeliverInterrupt, DeliverRevoked,
         DeliverAttached, StrayEnds, OrphanEnds, vars
<1>15. CASE \E r \in Run : OfHost(r) \/ OfRunner(r)
  BY <1>0, <1>3, <1>9, <1>12, <1>13, <1>15
<1>16. CASE Dispatcher
  BY <1>4, <1>5, <1>6, <1>10, <1>16 DEF Dispatcher
<1>17. CASE Connection \/ Processes \/ UNCHANGED vars
  BY <1>0, <1>8, <1>10, <1>11, <1>14, <1>17 DEF Connection, Processes
<1>. QED
  BY <1>15, <1>16, <1>17 DEF Next

(* A frame is read by the handler of its type. *)
Delivers(type) ==
  /\ type = "attached" => DeliverAttached
  /\ type = "interrupt" => DeliverInterrupt

(* What a step does to the frames on the wire. *)
LEMMA StepWire ==
  ASSUME [Next]_vars
  PROVE  \/ wire' = wire /\ (link' = "attached" => link = "attached")
         \/ wire' = <<>> /\ link' = "down"
         \/ \E type : Reading(type) /\ link' = link /\ Delivers(type)
         \/ Send
         \/ Attach
         \/ \E r \in Run : SendInterrupt(r)
         \/ \E r \in Run : (Abandon(r) \/ Refuse(r)) /\ wire' = Put("revoked", {r}, 0) /\ link' = link
<1>1. ASSUME NEW r \in Run, OfHost(r), ~SendInterrupt(r), ~Abandon(r)
      PROVE  wire' = wire /\ link' = link
  BY <1>1 DEF OfHost, Stop, Claim, HearInterrupted, Sweep
<1>2. ASSUME NEW r \in Run, Abandon(r)
      PROVE  link' = link /\ (wire' = wire \/ wire' = Put("revoked", {r}, 0))
  BY <1>2 DEF Abandon
<1>3. ASSUME NEW r \in Run, OfRunner(r), ~Refuse(r) PROVE wire' = wire /\ link' = link
  BY <1>3 DEF OfRunner, Heartbeat, Begin, Say, LeaseLost, End, Evict, Commit
<1>4. ASSUME NEW r \in Run, Refuse(r) PROVE wire' = Put("revoked", {r}, 0) /\ link' = link
  BY <1>4 DEF Refuse
<1>5. ASSUME Dispatcher, ~Send PROVE wire' = wire /\ link' = link
  BY <1>5 DEF Dispatcher, Plan, Bind, Reject, Check, GiveUp, HearReply, LoseReply
<1>6. ASSUME Connection, ~Attach
      PROVE  \/ wire' = wire /\ (link' = "attached" => link = "attached")
             \/ wire' = <<>> /\ link' = "down"
             \/ \E type : Reading(type) /\ link' = link /\ Delivers(type)
  <2>1. Connect \/ Disconnect \/ HostRestart \/ LeaseExpires
          => wire' = wire /\ (link' = "attached" => link = "attached")
    BY DEF Connect, Disconnect, HostRestart, LeaseExpires
  <2>2. Notice => wire' = <<>> /\ link' = "down"
    BY DEF Notice
  <2>3. DeliverExecute \/ DeliverInterrupt \/ DeliverRevoked \/ DeliverAttached
          => \E type : Reading(type) /\ link' = link /\ Delivers(type)
    <3>1. DeliverExecute => Reading("execute") /\ link' = link
      BY DEF DeliverExecute
    <3>2. DeliverInterrupt => Reading("interrupt") /\ link' = link
      BY DEF DeliverInterrupt
    <3>3. DeliverRevoked => Reading("revoked") /\ link' = link
      BY DEF DeliverRevoked
    <3>4. DeliverAttached => Reading("attached") /\ link' = link
      BY DEF DeliverAttached
    <3>. QED
      BY <3>1, <3>2, <3>3, <3>4 DEF Delivers
  <2>. QED
    BY <1>6, <2>1, <2>2, <2>3 DEF Connection
<1>7. Processes => (wire' = <<>> /\ link' = "down") \/ (wire' = wire /\ link' = link)
  BY DEF Processes, RunnerRestart, StrayEnds, OrphanEnds
<1>8. UNCHANGED vars => wire' = wire /\ link' = link
  BY DEF vars
<1>9. CASE \E r \in Run : OfHost(r) \/ OfRunner(r)
  BY <1>1, <1>2, <1>3, <1>4, <1>9
<1>10. CASE ~ \E r \in Run : OfHost(r) \/ OfRunner(r)
  BY <1>5, <1>6, <1>7, <1>8, <1>10 DEF Next
<1>. QED
  BY <1>9, <1>10

(* Every step but the sending and the reading of an offer leaves its       *)
(* dispatch waiting.                                                       *)
LEMMA OfferSlots ==
  ASSUME Known, Engine, [Next]_vars, ~Send, ~DeliverExecute
  PROVE  \A i \in Sent, r \in Run : \A g : Offered(i, r) /\ wire[i].gen = g => OfferSlot(r, g)'
<1>. SUFFICES ASSUME NEW i \in Sent, NEW r \in Run, NEW g, Offered(i, r), wire[i].gen = g
              PROVE  OfferSlot(r, g)'
  OBVIOUS
<1>1. /\ OfferOK(i, r)
      /\ dispatch.stage \notin {"claimed", "planned", "bound", "checked"}
      /\ link \notin {"down", "up"}
      /\ link = "attached" => ~Idling /\ ~dispatch.stale /\ dispatch.reply = "none"
  BY NoOffers DEF Engine, Offers
<1>2. link' = "attached" => link = "attached"
  BY <1>1, StepWire DEF Attach, SendInterrupt
<1>3. CASE Keeps
  BY <1>1, <1>2, <1>3 DEF Keeps, OfferOK, OfferSlot, Idling
<1>4. CASE Finishes
  BY <1>1, <1>2, <1>4 DEF Finishes, OfferSlot, Idling, Idle
<1>5. ASSUME NEW q \in Run, Claim(q) PROVE FALSE
  BY <1>1, <1>5 DEF Claim
<1>. QED
  BY <1>1, <1>3, <1>4, <1>5, StepDispatch DEF Moved, Answered

(* Every step keeps the offers sound. *)
LEMMA OffersStep ==
  ASSUME Known, Logs, Engine, [Next]_vars PROVE Offers'
<1>. USE DEF Known
<1>1. CASE DeliverExecute
  <2>1. Reading("execute")
    BY <1>1 DEF DeliverExecute
  <2>2. \A i \in Sent' : wire'[i].type # "execute"
    BY <2>1, ReadSent DEF Engine, WireOK
  <2>. QED
    BY <2>2 DEF Offers, Offered
<1>2. CASE wire' = <<>>
  BY <1>2, EmptyOffers
<1>3. CASE Send
  BY <1>3, SendOffers
<1>4. CASE ~DeliverExecute /\ ~Send /\ wire' # <<>>
  <2>0. HeldShrinks /\ UNCHANGED boot
    BY <1>4, StepHeld DEF RunnerRestart
  <2>1. \A i \in Sent, r \in Run : \A g : Offered(i, r) /\ wire[i].gen = g => OfferSlot(r, g)'
    BY <1>4, OfferSlots
  <2>2. CASE wire' = wire /\ (link' = "attached" => link = "attached")
    BY <2>0, <2>1, <2>2, SameOffers
  <2>3. ASSUME NEW type, Reading(type), link' = link PROVE Offers'
    BY <2>0, <2>1, <2>3, ReadOffers
  <2>4. CASE Attach
    <3>1. \A i \in Sent, r \in Run : ~Offered(i, r)
      BY <2>4, NoOffers DEF Attach
    <3>2. PICK rs : wire' = Put("attached", rs, 0)
      BY <2>4 DEF Attach
    <3>. QED
      BY <2>0, <2>1, <3>1, <3>2, PutOffers
  <2>5. ASSUME NEW r \in Run, SendInterrupt(r) PROVE Offers'
    BY <2>0, <2>1, <2>5, PutOffers DEF SendInterrupt
  <2>6. ASSUME NEW r \in Run, Abandon(r) \/ Refuse(r), wire' = Put("revoked", {r}, 0), link' = link
        PROVE  Offers'
    <3>1. ASSUME NEW i \in Sent, Offered(i, r) PROVE IsTerminal(r)'
      <4>1. CASE Abandon(r)
        BY <4>1, FinalizeEnds DEF Abandon, Terminal, Base, Inv, Ends
      <4>2. CASE Refuse(r)
        <5>1. OfferOK(i, r) /\ link = "attached" /\ held[r].phase # "none"
          BY <3>1, <4>2 DEF Engine, Offers, Refuse, Reporting, Logs, LogOK
        <5>2. held[r].gen < dispatch.gen /\ dispatch.run = r /\ dispatch.stage = "sent" /\ ~Idling
          BY <5>1 DEF OfferOK
        <5>3. Replaced(r)
          BY <5>2, HeldTyped, Typed DEF Replaced, Dispatching
        <5>. QED
          BY <4>2, <5>3 DEF Refuse
      <4>. QED
        BY <2>6, <4>1, <4>2
    <3>. QED
      BY <2>0, <2>1, <2>6, <3>1, PutOffers
  <2>. QED
    BY <1>4, <2>2, <2>3, <2>4, <2>5, <2>6, StepWire
<1>. QED
  BY <1>1, <1>2, <1>3, <1>4

-----------------------------------------------------------------------------
(* 9. Executions the Runner holds.                                         *)

(* What the dispatch of now means for an execution the Runner holds. *)
Outranked(r, g) ==
  /\ dispatch.stage \in {"bound", "checked"} => g < dispatch.gen
  /\ ~Idling /\ ~dispatch.stale /\ dispatch.reply = "retryable" /\ dispatch.run = r
       => g < dispatch.gen

(* A binding older than the one being dispatched stays so. *)
LEMMA OutrankedStep ==
  ASSUME Known, Engine, [Next]_vars, NEW r \in Run, NEW g \in Nat, g <= session.gen,
         Outranked(r, g), \A i \in Sent : Offered(i, r) => g < wire[i].gen
  PROVE  Outranked(r, g)'
<1>. USE DEF Known
<1>1. dispatch.stage # "sent" => dispatch.reply = "none"
  BY DEF Engine, Ready
<1>2. CASE Keeps
  BY <1>1, <1>2 DEF Keeps, Outranked, Idling
<1>3. CASE Finishes
  BY <1>3 DEF Finishes, Outranked, Idling, Idle
<1>4. CASE Begins
  BY <1>4 DEF Begins, Outranked
<1>5. CASE Moved("claimed", "planned")
  BY <1>1, <1>5 DEF Moved, Outranked
<1>6. CASE Moved("planned", "bound") /\ dispatch'.gen = session'.gen /\ session'.gen = session.gen + 1
  BY <1>1, <1>6, Typed DEF Moved, Outranked
<1>7. CASE Moved("bound", "checked") /\ dispatch'.gen = dispatch.gen
  BY <1>1, <1>7 DEF Moved, Outranked
<1>8. CASE Send
  <2>1. dispatch'.stage = "sent" /\ dispatch'.reply = "none"
    BY <1>1, <1>8, Typed DEF Send, Slot
  <2>. QED
    BY <2>1 DEF Outranked
<1>9. CASE Answered
  <2>1. link = "attached" /\ ~Idling
    BY <1>9 DEF Answered, Tables, DispatchOK, Idling
  <2>2. Reading("execute")
    BY <1>9 DEF Answered, DeliverExecute
  <2>3. 1 \in Sent /\ wire[1].type = "execute"
    BY <2>2, ReadSent
  <2>4. PICK q \in Run : wire[1].runs = {q}
    BY <2>3 DEF Engine, WireOK
  <2>5. OfferOK(1, q) /\ Offered(1, q)
    BY <2>3, <2>4 DEF Engine, Offers, Offered
  <2>6. dispatch.run = q /\ dispatch.gen = wire[1].gen
    BY <2>1, <2>5 DEF OfferOK
  <2>7. q = r => g < wire[1].gen
    BY <2>3, <2>5
  <2>8. dispatch.run = r => g < dispatch.gen
    BY <2>6, <2>7
  <2>. QED
    BY <1>9, <2>8 DEF Answered, Outranked
<1>. QED
  BY <1>2, <1>3, <1>4, <1>5, <1>6, <1>7, <1>8, <1>9, StepDispatch

(* An execution held is older than the binding being dispatched after the  *)
(* step, too.                                                              *)
LEMMA HeldOutranked ==
  ASSUME Known, Engine, [Next]_vars, NEW r \in Run, NEW g, held[r].phase # "none",
         held[r].gen = g
  PROVE  Outranked(r, g)'
<1>1. Outranked(r, g) /\ g \in Nat /\ g <= session.gen
  BY Typed DEF Known, Engine, Helds, HeldOK, Outranked, Granted
<1>2. \A i \in Sent : Offered(i, r) => g < wire[i].gen
  BY DEF Engine, Offers, OfferOK
<1>. QED
  BY <1>1, <1>2, OutrankedStep


(* How one execution the Runner holds proceeds. *)
Proceeds(r, from, to) ==
  /\ held[r].phase \in from /\ held'[r].phase \in to
  /\ held'[r].gen = held[r].gen /\ held'[r].cause = held[r].cause

(* The Runner reads that the Run is taken from it. *)
Withdrawn(r) == (DeliverRevoked \/ DeliverAttached) /\ 1 \in Sent /\ Revokes(wire[1], r)

(* The execution is aborted. *)
Stops(r) ==
  /\ held[r].phase \in Active /\ held'[r].phase = "stopping"
  /\ held'[r].gen = held[r].gen
  /\ held'[r].cause = "revoked" => held[r].cause = "revoked" \/ Withdrawn(r)

(* The execution is let go. *)
Drops(r) ==
  /\ held'[r] = NotHeld
  /\ \/ RunnerRestart \/ Evict(r) \/ Withdrawn(r)
     \/ End(r) /\ held[r].cause = "revoked"
     \/ Commit(r) /\ Len(held[r].log) = 1 /\ held[r].phase = "ended"

(* What a step that is not the reading of an offer does to one execution. *)
LEMMA StepPhase ==
  ASSUME Known, Logs, Engine, [Next]_vars, NEW r \in Run, ~DeliverExecute
  PROVE  \/ held'[r] = held[r]
         \/ Drops(r)
         \/ /\ Heartbeat(r) \/ (DeliverAttached /\ Kept(r) /\ r \in Head(wire).runs)
            /\ Proceeds(r, {"admitted"}, {"leased"})
         \/ Begin(r) /\ Proceeds(r, {"leased"}, {"acting"})
         \/ Say(r) /\ Proceeds(r, {"acting"}, {"acting"})
         \/ End(r) /\ Proceeds(r, {"leased", "acting", "stopping"}, {"ended"})
         \/ Commit(r) /\ Proceeds(r, {held[r].phase}, {held[r].phase})
         \/ Stops(r)
<1>. USE DEF Known
<1>. SUFFICES ASSUME held'[r] # held[r]
              PROVE  \/ Drops(r)
                     \/ /\ Heartbeat(r) \/ (DeliverAttached /\ Kept(r) /\ r \in Head(wire).runs)
                        /\ Proceeds(r, {"admitted"}, {"leased"})
                     \/ Begin(r) /\ Proceeds(r, {"leased"}, {"acting"})
                     \/ Say(r) /\ Proceeds(r, {"acting"}, {"acting"})
                     \/ End(r) /\ Proceeds(r, {"leased", "acting", "stopping"}, {"ended"})
                     \/ Commit(r) /\ Proceeds(r, {held[r].phase}, {held[r].phase})
                     \/ Stops(r)
  OBVIOUS
<1>0. held \in [Run -> Execution] /\ held[r] \in Execution
  BY DEF Base, Inv, TypeOK
<1>1. ASSUME NEW q \in Run, OfRunner(q)
      PROVE  \/ Drops(r)
             \/ Heartbeat(r) /\ Proceeds(r, {"admitted"}, {"leased"})
             \/ Begin(r) /\ Proceeds(r, {"leased"}, {"acting"})
             \/ Say(r) /\ Proceeds(r, {"acting"}, {"acting"})
             \/ End(r) /\ Proceeds(r, {"leased", "acting", "stopping"}, {"ended"})
             \/ Commit(r) /\ Proceeds(r, {held[r].phase}, {held[r].phase})
             \/ Stops(r)
  <2>1. ~Refuse(q)
    BY DEF Refuse, runner
  <2>2. q = r
    BY <1>0, <1>1, <2>1 DEF OfRunner, Heartbeat, Begin, Say, LeaseLost, End, Evict, Commit
  <2>3. CASE Heartbeat(r) \/ Begin(r) \/ Say(r)
    <3>1. Heartbeat(r) => Proceeds(r, {"admitted"}, {"leased"})
      BY <1>0 DEF Heartbeat, Proceeds, Execution
    <3>2. Begin(r) => Proceeds(r, {"leased"}, {"acting"})
      BY <1>0 DEF Begin, Proceeds, Execution
    <3>3. Say(r) => Proceeds(r, {"acting"}, {"acting"})
      BY <1>0 DEF Say, Proceeds, Execution
    <3>. QED
      BY <2>3, <3>1, <3>2, <3>3
  <2>4. CASE LeaseLost(r)
    BY <2>4, ChangesOne, AbortedKeeps DEF LeaseLost, Stops, Active
  <2>5. CASE End(r)
    <3>1. CASE Outcomes(r) = {}
      <4>1. held'[r] = NotHeld
        BY <1>0, <2>5, <3>1, ChangesOne DEF End
      <4>2. held[r].cause = "revoked"
        BY <1>0, <3>1 DEF Outcomes, Execution
      <4>. QED
        BY <2>5, <4>1, <4>2 DEF Drops
    <3>2. CASE Outcomes(r) # {}
      <4>1. Proceeds(r, {"leased", "acting", "stopping"}, {"ended"})
        BY <1>0, <2>5, <3>2 DEF End, Proceeds, Execution
      <4>. QED
        BY <2>5, <4>1
    <3>. QED
      BY <3>1, <3>2
  <2>6. CASE Evict(r)
    BY <2>6, ChangesOne DEF Evict, Drops
  <2>7. CASE Commit(r)
    <3>1. held'[r] = Acknowledged(r) /\ held[r].log # <<>>
      BY <2>7, ChangesOne DEF Commit, Reporting
    <3>. QED
      BY <2>7, <3>1, AckKeeps DEF Proceeds, Drops
  <2>. QED
    BY <1>1, <2>1, <2>2, <2>3, <2>4, <2>5, <2>6, <2>7 DEF OfRunner
<1>2. CASE DeliverInterrupt
  BY <1>2, ChangesOne, AbortedKeeps DEF DeliverInterrupt, Stops
<1>3. ASSUME held'[r] = Revoked(r), Withdrawn(r) PROVE Drops(r) \/ Stops(r)
  BY <1>3, RevokedKeeps DEF Drops, Stops
<1>4. CASE DeliverRevoked
  <2>1. r = TheRun /\ held'[r] = Revoked(r)
    BY <1>4, ChangesOne DEF DeliverRevoked
  <2>2. 1 \in Sent /\ Head(wire) = wire[1] /\ wire[1].type = "revoked"
    BY <1>4, ReadSent DEF DeliverRevoked
  <2>3. PICK p \in Run : wire[1].runs = {p}
    BY <2>2 DEF Engine, WireOK
  <2>4. Withdrawn(r)
    BY <1>4, <2>1, <2>2, <2>3, TheRunIs DEF Withdrawn, Revokes
  <2>. QED
    BY <1>3, <2>1, <2>4
<1>5. CASE DeliverAttached
  <2>1. 1 \in Sent /\ Head(wire) = wire[1] /\ wire[1].type = "attached"
    BY <1>5, ReadSent DEF DeliverAttached
  <2>2. CASE r \notin Head(wire).runs
    BY <1>3, <1>5, <2>1, <2>2 DEF DeliverAttached, Withdrawn, Revokes
  <2>3. CASE r \in Head(wire).runs
    <3>1. held[r].phase = "admitted" /\ Kept(r) /\ held'[r] = [held[r] EXCEPT !.phase = "leased"]
      BY <1>5, <2>3 DEF DeliverAttached
    <3>. QED
      BY <1>0, <1>5, <2>3, <3>1 DEF Proceeds, Execution
  <2>. QED
    BY <2>2, <2>3
<1>6. CASE RunnerRestart
  BY <1>6 DEF RunnerRestart, Drops
<1>7. ASSUME NEW q \in Run, OfHost(q) PROVE FALSE
  BY <1>7 DEF OfHost, Stop, Abandon, Claim, SendInterrupt, HearInterrupted, Sweep, runner
<1>8. ~Dispatcher
  BY DEF Dispatcher, Plan, Bind, Reject, Check, Send, GiveUp, HearReply, LoseReply, runner
<1>9. ~(Connect \/ Disconnect \/ Notice \/ HostRestart \/ Attach \/ LeaseExpires
            \/ StrayEnds \/ OrphanEnds \/ UNCHANGED vars)
  BY DEF Connect, Disconnect, Notice, HostRestart, Attach, LeaseExpires, StrayEnds, OrphanEnds,
         vars, runner
<1>10. CASE \E q \in Run : OfHost(q) \/ OfRunner(q)
  BY <1>1, <1>7, <1>10
<1>11. CASE ~ \E q \in Run : OfHost(q) \/ OfRunner(q)
  BY <1>2, <1>4, <1>5, <1>6, <1>8, <1>9, <1>11 DEF Next, Connection, Processes
<1>. QED
  BY <1>10, <1>11

(* An answer to the attach that lets a Run go on goes with its live lease, *)
(* and one that does not ends it.                                          *)
LEMMA AttachAnswer ==
  ASSUME Known, Engine, Attach, NEW r \in Run, held[r].phase # "none"
  PROVE  /\ (Announced(r) /\ session.lease = "live")
              => held[r].gen = session'.gen /\ session'.lease = "live"
         /\ ~(Announced(r) /\ session.lease = "live") /\ held[r].gen = session'.gen
              => IsTerminal(r)'
<1>. USE DEF Known
<1>0. HeldOK(r)
  BY DEF Engine, Helds
<1>1. ASSUME Announced(r), session.lease = "live"
      PROVE  held[r].gen = session'.gen /\ session'.lease = "live"
  <2>1. Bound(r) /\ held[r].gen = session.gen
    BY <1>1 DEF Announced, Binds
  <2>2. PICK q \in Run : Bound(q) /\ Settle(q)
    BY <2>1 DEF Attach
  <2>3. q = r
    BY <2>1, <2>2, OneExecutes DEF Bound
  <2>4. UNCHANGED db
    BY <1>1, <2>2, <2>3 DEF Settle
  <2>. QED
    BY <1>1, <2>1, <2>4
<1>2. ASSUME ~(Announced(r) /\ session.lease = "live"), held[r].gen = session'.gen,
             ~IsTerminal(r)'
      PROVE  FALSE
  <2>1. session'.gen \in Nat /\ session'.gen >= session.gen /\ (IsTerminal(r) => IsTerminal(r)')
    <3>1. \/ UNCHANGED db
          \/ \E q \in Run : Effect(q)
      BY AttachEffect DEF Attach, Effect
    <3>2. UNCHANGED db => session'.gen \in Nat /\ session'.gen >= session.gen
                          /\ (IsTerminal(r) => IsTerminal(r)')
      BY Typed DEF IsTerminal
    <3>3. \A q \in Run : Effect(q) => session'.gen \in Nat /\ session'.gen >= session.gen
                          /\ (IsTerminal(r) => IsTerminal(r)')
      BY EffectCalm, Typed DEF Calm, Returns
    <3>. QED
      BY <3>1, <3>2, <3>3
  <2>2. held[r].gen = session.gen /\ ~IsTerminal(r)
    BY <1>0, <1>2, <2>1, Typed DEF HeldOK, Granted
  <2>3. Bound(r) /\ Announced(r) /\ IsExecuting(r) /\ session.lease # "live"
    BY <1>0, <1>2, <2>2, GrantHeld DEF HeldOK, Announced, Binds
  <2>4. PICK q \in Run : Bound(q) /\ Settle(q)
    BY <2>3 DEF Attach
  <2>5. q = r
    BY <2>3, <2>4, OneExecutes DEF Bound
  <2>6. Ends(r) \/ Recovers(r)
    BY <2>3, <2>4, <2>5, RecoverEffect DEF Settle, Base, Inv
  <2>. QED
    BY <1>2, <2>2, <2>6, Typed DEF Ends, Recovers
<1>. QED
  BY <1>1, <1>2

(* An execution held firmly after a step was so before, or was just        *)
(* granted the live lease of its binding.                                  *)
LEMMA HeldFirm ==
  ASSUME Known, Logs, Engine, [Next]_vars, NEW r \in Run, NEW g, held[r].phase # "none",
         held[r].gen = g, ~DeliverExecute, Firm(r)'
  PROVE  Firm(r) \/ (g = session'.gen /\ session'.lease = "live")
<1>. USE DEF Known
<1>1. CASE held'[r].phase \in {"leased", "acting"}
  <2>1. CASE held[r].phase \in {"leased", "acting"}
    BY <2>1 DEF Firm
  <2>2. CASE Heartbeat(r)
    BY <2>2 DEF Heartbeat, Firm, Sent
  <2>3. CASE DeliverAttached /\ Kept(r)
    BY <2>3 DEF DeliverAttached, Kept
  <2>. QED
    BY <1>1, <2>1, <2>2, <2>3, StepPhase DEF Drops, Stops, Proceeds, NotHeld
<1>2. CASE held'[r].phase = "admitted"
  <2>1. held[r].phase = "admitted"
    BY <1>2, StepPhase DEF Drops, Stops, Proceeds, NotHeld
  <2>2. link' = "attached" /\ \A i \in Sent' : wire'[i].type = "attached" => r \in wire'[i].runs
    BY <1>2 DEF Firm
  <2>3. ASSUME wire' = wire, link = "attached" PROVE Firm(r)
    BY <2>1, <2>2, <2>3 DEF Firm, Sent
  <2>4. ASSUME NEW type, NEW rs, NEW n, wire' = Put(type, rs, n), link = "attached" PROVE Firm(r)
    <3>1. \A i \in Sent : i \in Sent' /\ wire'[i] = wire[i]
      BY <2>4, PutSent
    <3>. QED
      BY <2>1, <2>2, <2>4, <3>1 DEF Firm
  <2>5. ASSUME NEW type, Reading(type), link = "attached",
               type = "attached" => DeliverAttached
        PROVE  Firm(r)
    <3>1. /\ 1 \in Sent /\ Head(wire) = wire[1] /\ wire[1].type = type
          /\ \A i \in Sent : i = 1 \/ \E j \in Sent' : wire'[j] = wire[i]
      BY <2>5, ReadSent
    <3>2. type = "attached" => r \in wire[1].runs
      BY <1>2, <2>5, <3>1, RevokedKeeps DEF DeliverAttached, NotHeld
    <3>. QED
      BY <2>1, <2>2, <2>5, <3>1, <3>2 DEF Firm
  <2>6. CASE Attach
    <3>1. PICK rs : /\ wire' = Put("attached", rs, 0)
                    /\ r \in rs => Announced(r) /\ session.lease = "live"
      BY <2>6 DEF Attach
    <3>2. Announced(r) /\ session.lease = "live"
      <4>1. PICK n \in Sent' : wire'[n] = [type |-> "attached", runs |-> rs, gen |-> 0]
        BY <3>1, PutSent
      <4>. QED
        BY <2>2, <3>1, <4>1
    <3>. QED
      BY <2>6, <3>2, AttachAnswer
  <2>7. CASE Send
    <3>1. link = "attached" /\ wire' = Put("execute", {dispatch.run}, dispatch.gen)
      BY <2>7 DEF Send, MaySend, Tables, DispatchOK, Idling
    <3>. QED
      BY <2>4, <3>1
  <2>8. ASSUME NEW q \in Run, SendInterrupt(q) PROVE Firm(r)
    BY <2>4, <2>8 DEF SendInterrupt
  <2>9. ASSUME NEW q \in Run, wire' = Put("revoked", {q}, 0), link' = link PROVE Firm(r)
    BY <2>2, <2>4, <2>9
  <2>. QED
    BY <2>2, <2>3, <2>5, <2>6, <2>7, <2>8, <2>9, StepWire DEF Delivers
<1>. QED
  BY <1>1, <1>2 DEF Firm

(* What revokes an execution of the binding of now ends its Run. *)
LEMMA HeldRevoked ==
  ASSUME Known, Logs, Engine, [Next]_vars, NEW r \in Run, held[r].phase # "none",
         held[r].gen = session'.gen, ~DeliverExecute,
         held'[r].phase # "none",
         held'[r].cause = "revoked" \/ \E i \in Sent' : Revokes(wire'[i], r)
  PROVE  IsTerminal(r)'
<1>. USE DEF Known
<1>0. HeldOK(r)
  BY DEF Engine, Helds
<1>1. IsTerminal(r) => IsTerminal(r)'
  BY TerminalStays
<1>2. session'.gen >= session.gen /\ session'.gen \in Nat
  BY StepCalm, Typed DEF Calm, Returns
<1>3. held[r].gen = session.gen
  BY <1>0, <1>2, Typed DEF HeldOK, Granted
<1>4. held[r].cause = "revoked" \/ (\E i \in Sent : Revokes(wire[i], r)) => IsTerminal(r)'
  BY <1>0, <1>1, <1>3 DEF HeldOK
<1>5. CASE held'[r].cause = "revoked"
  BY <1>4, <1>5, StepPhase DEF Drops, Stops, Proceeds, NotHeld, Withdrawn
<1>6. ASSUME NEW i \in Sent', Revokes(wire'[i], r) PROVE IsTerminal(r)'
  <2>1. CASE wire' = wire
    BY <1>4, <1>6, <2>1 DEF Sent
  <2>2. CASE wire' = <<>>
    BY <1>6, <2>2, NoneSent
  <2>3. ASSUME NEW type, Reading(type) PROVE IsTerminal(r)'
    BY <1>4, <1>6, <2>3, ReadSent
  <2>4. ASSUME NEW type, NEW rs, NEW g, wire' = Put(type, rs, g),
               type = "revoked" /\ r \in rs => IsTerminal(r)',
               type = "attached" /\ r \notin rs => IsTerminal(r)'
        PROVE  IsTerminal(r)'
    <3>1. PICK n \in Sent' :
             /\ wire'[n] = [type |-> type, runs |-> rs, gen |-> g]
             /\ \A k \in Sent : k \in Sent' /\ wire'[k] = wire[k] /\ k < n
             /\ \A k \in Sent' : k = n \/ k \in Sent
      BY <2>4, PutSent
    <3>2. CASE i = n
      BY <1>6, <2>4, <3>1, <3>2 DEF Revokes
    <3>3. CASE i # n
      BY <1>4, <1>6, <3>1, <3>3
    <3>. QED
      BY <3>2, <3>3
  <2>5. CASE Send
    BY <2>4, <2>5 DEF Send
  <2>6. ASSUME NEW q \in Run, SendInterrupt(q) PROVE IsTerminal(r)'
    BY <2>4, <2>6 DEF SendInterrupt
  <2>7. CASE Attach
    <3>1. PICK rs : /\ wire' = Put("attached", rs, 0)
                    /\ r \notin rs => ~(Announced(r) /\ session.lease = "live")
      BY <2>7 DEF Attach
    <3>2. r \notin rs => IsTerminal(r)'
      BY <2>7, <3>1, AttachAnswer
    <3>. QED
      BY <2>4, <3>1, <3>2
  <2>8. ASSUME NEW q \in Run, Abandon(q) \/ Refuse(q), wire' = Put("revoked", {q}, 0)
        PROVE  IsTerminal(r)'
    <3>1. CASE q = r
      <4>1. CASE Abandon(r)
        BY <4>1, FinalizeEnds DEF Abandon, Terminal, Base, Inv, Ends
      <4>2. CASE Refuse(r) /\ ~IsTerminal(r)
        <5>1. Bound(r) /\ Binds(r, held[r].gen, boot)
          BY <1>0, <1>3, <4>2, GrantHeld DEF HeldOK, Binds
        <5>2. Finalize(r, "failed", Host) /\ ~IsTerminal(r)
          BY <4>2, <5>1 DEF Refuse
        <5>. QED
          BY <5>2, FinalizeEnds DEF Terminal, Base, Inv, Ends
      <4>. QED
        BY <1>1, <2>8, <3>1, <4>1, <4>2
    <3>2. CASE q # r
      BY <2>4, <2>8, <3>2
    <3>. QED
      BY <3>1, <3>2
  <2>. QED
    BY <2>1, <2>2, <2>3, <2>5, <2>6, <2>7, <2>8, StepWire
<1>. QED
  BY <1>5, <1>6

(* Every step keeps the executions sound. *)
LEMMA HeldsStep ==
  ASSUME Known, Known', Logs, Engine, [Next]_vars PROVE Helds'
<1>. USE DEF Known
<1>. SUFFICES ASSUME NEW r \in Run, held'[r].phase # "none" PROVE HeldOK(r)'
  BY DEF Helds
<1>1. CASE ~DeliverExecute
  <2>1. HeldShrinks /\ UNCHANGED boot
    BY <1>1, StepHeld DEF RunnerRestart, NotHeld
  <2>. PICK g : g = held[r].gen
    OBVIOUS
  <2>2. held[r].phase # "none" /\ held'[r].gen = g /\ HeldOK(r)
    BY <2>1 DEF HeldShrinks, Engine, Helds
  <2>3. Granted(r, g)'
    <3>1. Granted(r, g) /\ (Unheld(r) => g # session.gen)
      BY <2>2 DEF HeldOK, Unheld
    <3>. QED
      BY <2>1, <3>1, StepCalm, GrantedKept
  <2>4. Outranked(r, g)'
    BY <2>2, HeldOutranked
  <2>5. Firm(r)' => IsTerminal(r)' \/ (g = session'.gen /\ session'.lease = "live")
    <3>1. Firm(r) => IsTerminal(r) \/ g = session.gen
      BY <2>2 DEF HeldOK
    <3>. QED
      BY <1>1, <2>2, <3>1, HeldFirm, StepFirm, TerminalStays
  <2>6. g = session'.gen =>
          (held'[r].cause = "revoked" \/ (\E i \in Sent' : Revokes(wire'[i], r)) => IsTerminal(r)')
    BY <1>1, <2>2, HeldRevoked
  <2>. QED
    BY <2>2, <2>3, <2>4, <2>5, <2>6 DEF HeldOK, Outranked
<1>2. CASE DeliverExecute
  <2>1. /\ Reading("execute") /\ UNCHANGED <<run, session, link, boot>>
    BY <1>2 DEF DeliverExecute
  <2>2. /\ 1 \in Sent /\ Head(wire) = wire[1] /\ wire[1].type = "execute"
        /\ \A i \in Sent' : i + 1 \in Sent /\ wire'[i] = wire[i + 1] /\ 1 < i + 1
    BY <2>1, ReadSent
  <2>3. PICK p \in Run : wire[1].runs = {p}
    BY <2>2 DEF Engine, WireOK
  <2>. PICK g : g = wire[1].gen
    OBVIOUS
  <2>4. TheRun = p /\ Head(wire).gen = g
    BY <2>2, <2>3, TheRunIs
  <2>5. OfferOK(1, p)
    BY <2>2, <2>3 DEF Engine, Offers, Offered
  <2>6. CASE held'[r] = held[r]
    <3>1. held[r].phase # "none" /\ HeldOK(r)
      BY <2>6 DEF Engine, Helds
    <3>. PICK h : h = held[r].gen
      OBVIOUS
    <3>2. Outranked(r, h)'
      BY <3>1, HeldOutranked
    <3>3. \A i \in Sent' : Revokes(wire'[i], r) => \E j \in Sent : Revokes(wire[j], r)
      BY <2>2
    <3>4. Firm(r)' => Firm(r)
      BY <2>1, <2>2, <2>6, ReadSent DEF Firm
    <3>. QED
      BY <2>1, <2>6, <3>1, <3>2, <3>3, <3>4 DEF HeldOK, Outranked, Granted, IsTerminal
  <2>7. CASE held'[r] # held[r]
    <3>1. /\ held' = [held EXCEPT ![p] = [NotHeld EXCEPT !.phase = "admitted", !.gen = g]]
          /\ Reply("accepted")
      BY <1>2, <2>4, <2>7 DEF DeliverExecute
    <3>2. r = p /\ held'[r] = [NotHeld EXCEPT !.phase = "admitted", !.gen = g]
      BY <2>7, <3>1, ChangesOne
    <3>3. held'[r].phase = "admitted" /\ held'[r].gen = g /\ held'[r].cause = "none"
      BY <3>2 DEF NotHeld
    <3>4. Granted(r, g)'
      BY <2>1, <2>5, <3>2 DEF OfferOK, Granted, IsTerminal
    <3>5. Outranked(r, g)'
      BY <2>5, <3>1, Typed DEF OfferOK, Outranked, Reply, Idling, Slot
    <3>6. Firm(r)' => IsTerminal(r)' \/ (g = session'.gen /\ session'.lease = "live")
      BY <2>1, <2>5, <3>2, <3>3, ReplyKeeps DEF Firm, OfferOK, Tables, DispatchOK, IsTerminal
    <3>7. \A i \in Sent' : Revokes(wire'[i], r) => IsTerminal(r)'
      BY <2>1, <2>2, <2>5, <3>2 DEF OfferOK, IsTerminal
    <3>. QED
      BY <3>3, <3>4, <3>5, <3>6, <3>7 DEF HeldOK, Outranked
  <2>. QED
    BY <2>6, <2>7
<1>. QED
  BY <1>1, <1>2

(* Every step keeps a checked dispatch at the session's binding. *)
LEMMA ReadyStep ==
  ASSUME Known, Logs, Engine, [Next]_vars PROVE Ready'
<1>. USE DEF Known
<1>1. dispatch'.stage # "sent" => dispatch'.reply = "none"
  <2>1. Send => dispatch'.stage = "sent"
    BY Typed DEF Send, Slot
  <2>. QED
    BY <2>1, StepDispatch DEF Engine, Ready, Keeps, Finishes, Begins, Moved, Answered, Idle
<1>2. ASSUME dispatch'.stage = "checked", ~dispatch'.stale, NEW r, r = dispatch'.run
      PROVE  \/ IsTerminal(r)'
             \/ dispatch'.gen = session'.gen /\ run'[r].bound = session'.gen
  <2>1. Send => dispatch'.stage = "sent"
    BY Typed DEF Send, Slot
  <2>2. CASE Check /\ Moved("bound", "checked") /\ dispatch'.gen = dispatch.gen
    <3>1. r = dispatch.run /\ UNCHANGED <<run, session>>
      BY <1>2, <2>2 DEF Check, Moved
    <3>2. dispatch.gen = session.gen /\ run[r].bound = session.gen
      BY <2>2, <3>1 DEF Check, Authorized, Binds, Bound
    <3>. QED
      BY <2>2, <3>1, <3>2
  <2>3. CASE Keeps
    <3>1. /\ dispatch.stage = "checked" /\ ~dispatch.stale /\ ~Idling /\ r \in Run
          /\ dispatch.run = r /\ dispatch'.gen = dispatch.gen
      BY <1>2, <2>3 DEF Keeps, Idling, Base, Inv, Claimed
    <3>2. IsTerminal(r) => IsTerminal(r)'
      BY <3>1, TerminalStays
    <3>3. CASE IsTerminal(r)
      BY <3>1, <3>2, <3>3
    <3>4. CASE ~IsTerminal(r)
      <4>1. /\ dispatch.gen = session.gen /\ run[r].bound = session.gen
            /\ link = "attached" /\ session.lease = "live"
        BY <3>1, <3>4 DEF Engine, Ready, Tables, DispatchOK
      <4>2. Calm(r)
        BY <1>2, <3>1, <4>1, StepCalm DEF Attach, Idle
      <4>3. session'.gen = session.gen
        <5>1. ~Bind /\ ~Attach
          BY <3>1, <4>1 DEF Bind, Attach
        <5>2. ASSUME NEW q \in Run, Sweep(q) PROVE FALSE
          BY <4>1, <5>2 DEF Sweep
        <5>3. ASSUME NEW q \in Run, Commit(q), Accepts(q, "lost") PROVE FALSE
          <6>1. held[q].gen = session.gen /\ held[q].phase # "none"
            BY <5>3 DEF Commit, Reporting, Accepts, Binds, Logs, LogOK
          <6>. QED
            BY <3>1, <4>1, <6>1, Typed DEF Engine, Helds, HeldOK
        <5>. QED
          BY <5>1, <5>2, <5>3, StepGen
      <4>. QED
        BY <3>1, <4>1, <4>2, <4>3 DEF Calm
    <3>. QED
      BY <3>3, <3>4
  <2>. QED
    BY <1>2, <2>1, <2>2, <2>3, StepDispatch DEF Finishes, Idle, Begins, Moved, Answered
<1>. QED
  BY <1>1, <1>2 DEF Ready

(* The Runner starts with nothing and nothing is on the wire. *)
LEMMA EngineInit == ASSUME Init PROVE Logs /\ Engine
<1>1. /\ Sent = {} /\ wire = <<>> /\ dispatch = Idle
      /\ \A r \in Run : held[r] = NotHeld
  <2>1. Len(wire) = Len(<<>>)
    BY Zenon DEF Init
  <2>. QED
    BY <2>1 DEF Init, Sent
<1>2. Logs
  BY <1>1 DEF Logs, LogOK, NotHeld
<1>3. WireOK /\ Offers /\ Helds /\ Ready
  BY <1>1 DEF WireOK, Offers, Helds, Ready, Idle, NotHeld
<1>. QED
  BY <1>2, <1>3 DEF Engine

(* In every state what is on the wire and what the Runner holds agrees     *)
(* with the Host's tables: no offer and no execution is of a binding the   *)
(* Host does not know, a lease the Runner goes by is live at the Host,     *)
(* and nothing of a Run that goes on is revoked (#admitExecution,          *)
(* attachRunnerExecutions, renewActiveExecutionBindings, revokeRuns).      *)
THEOREM EngineHolds == Spec => [](Known /\ Logs /\ Engine)
<1>2. Spec => []Known
  <2>1. Base /\ Tables => Known
    BY DEF Known
  <2>. QED
    BY <2>1, TablesHold, PTL
<1>3. Init => Logs /\ Engine
  BY EngineInit
<1>4. Known /\ Known' /\ Logs /\ Engine /\ [Next]_vars => Logs' /\ Engine'
  <2>. SUFFICES ASSUME Known, Known', Logs, Engine, [Next]_vars PROVE Logs' /\ Engine'
    OBVIOUS
  <2>1. Logs'
    BY LogStep DEF Known
  <2>2. WireOK' /\ Offers' /\ Helds' /\ Ready'
    BY WireStep, OffersStep, HeldsStep, ReadyStep
  <2>. QED
    BY <2>1, <2>2 DEF Engine
<1>. QED
  BY <1>2, <1>3, <1>4, PTL DEF Spec

(* An engine that acts is held firmly. *)
LEMMA EngineActing == ASSUME Known, Engine PROVE NoStaleActing
<1>. SUFFICES ASSUME NEW r \in Run, held[r].phase = "acting", ~IsTerminal(r)
              PROVE  Bound(r) /\ held[r].gen = session.gen /\ session.holder = boot
  BY DEF NoStaleActing
<1>1. HeldOK(r) /\ Firm(r)
  BY DEF Engine, Helds, Firm
<1>. QED
  BY <1>1, GrantHeld DEF HeldOK

(* An engine never acts for a Run that waits again or was bound anew:      *)
(* heartbeats, the answers to them, attaches and interrupts name Runs and  *)
(* not bindings, yet none of them lets an execution of an earlier binding  *)
(* go on.                                                                  *)
THEOREM NeverStale == Spec => []NoStaleActing
<1>1. Known /\ Logs /\ Engine => NoStaleActing
  BY EngineActing
<1>. QED
  BY <1>1, EngineHolds, PTL
-----------------------------------------------------------------------------
(* 10. Interrupts.                                                         *)

(* The ways back to the queue for a Run given to nobody. *)
GivesBack(r) ==
  /\ run[r].status = "starting"
  /\ \/ dispatch.run = r /\ (GiveUp \/ (HearReply /\ dispatch.reply = "retryable"))
     \/ HostRestart /\ ClaimedOnly(r)
     \/ Attach /\ Bound(r) /\ session.holder = boot

(* A retried dispatch gives back only a Run that is starting. *)
LEMMA RetryReturns ==
  ASSUME Known, NEW r \in Run, Retry(r)
  PROVE  Names \/ Ends(r) \/ (Returns(r) /\ run[r].status = "starting")
<1>1. Names \/ Ends(r) \/ Returns(r)
  BY RetryEffect DEF Known, Base, Inv
<1>2. Returns(r) => ~UNCHANGED run
  BY DEF Returns, IsExecuting, Executing
<1>. QED
  BY <1>1, <1>2 DEF Retry

(* An attach gives back a Run only to the boot that holds its binding. *)
LEMMA AttachReturns ==
  ASSUME Known, NEW r \in Run, Attach, Bound(r), Settle(r), Returns(r) PROVE GivesBack(r)
<1>1. ~IsTerminal(r) /\ run[r].status # "queued"
  BY DEF Bound, IsExecuting, IsTerminal, Executing, Terminal
<1>2. run'[r].status = "queued" /\ UNCHANGED session
  BY DEF Returns
<1>3. ~RecoverLost(r) /\ ~UNCHANGED db
  <2>1. RecoverLost(r) => Ends(r) \/ Recovers(r)
    BY RecoverEffect DEF Bound, Known, Base, Inv
  <2>2. Ends(r) \/ Recovers(r) => FALSE
    BY <1>2, Typed DEF Known, Ends, Recovers, IsTerminal, Terminal
  <2>. QED
    BY <1>1, <1>2, <2>1, <2>2
<1>4. GoesBack(r)
  BY <1>3 DEF Settle
<1>. QED
  BY <1>4 DEF GoesBack, GivesBack

(* What each step does to the rows of the Runs. *)
LEMMA StepRuns ==
  ASSUME Known, [Next]_vars
  PROVE  \/ UNCHANGED run
         \/ \E q \in Run : Ends(q)
         \/ \E q \in Run : Starts(q) /\ Commit(q)
         \/ \E q \in Run : Recovers(q) /\ UNCHANGED boot
         \/ \E q \in Run : Returns(q) /\ GivesBack(q) /\ UNCHANGED <<boot, held, begun>>
         \/ \E q \in Run : Claim(q)
         \/ Bind
<1>. USE DEF Known
<1>. DEFINE Goal == \/ UNCHANGED run
                    \/ \E q \in Run : Ends(q)
                    \/ \E q \in Run : Starts(q) /\ Commit(q)
                    \/ \E q \in Run : Recovers(q) /\ UNCHANGED boot
                    \/ \E q \in Run : Returns(q) /\ GivesBack(q) /\ UNCHANGED <<boot, held, begun>>
                    \/ \E q \in Run : Claim(q)
                    \/ Bind
<1>1. ASSUME NEW q \in Run, OfHost(q) PROVE Goal
  <2>1. CASE Stop(q)
    <3>1. CASE EndsHere(q)
      <4>1. /\ ~IsTerminal(q)
            /\ run' = [run EXCEPT ![q].status = "interrupted"]
            /\ execute' = [execute EXCEPT ![q] = IF @ \in Open THEN "failed" ELSE @]
            /\ stop' = [stop EXCEPT ![q] = "succeeded"]
            /\ UNCHANGED <<grant, session>>
        BY <2>1, <3>1 DEF Stop
      <4>2. Ends(q)
        BY <4>1 DEF Ends, Elsewhere, SameBinding, Base, Inv, Rows, DbTypeOK, RunRow, Open,
                    IsTerminal, Terminal
      <4>. QED
        BY <4>2
    <3>2. CASE ~EndsHere(q)
      BY <2>1, <3>2 DEF Stop
    <3>. QED
      BY <3>1, <3>2
  <2>2. CASE Abandon(q)
    BY <2>2, FinalizeEnds DEF Abandon, Terminal, Base, Inv
  <2>3. CASE Sweep(q)
    BY <2>3, RecoverEffect DEF Sweep, Bound, Base, Inv, runner
  <2>4. CASE Claim(q) \/ SendInterrupt(q) \/ HearInterrupted(q)
    BY <2>4 DEF SendInterrupt, HearInterrupted
  <2>. QED
    BY <1>1, <2>1, <2>2, <2>3, <2>4 DEF OfHost
<1>2. ASSUME NEW q \in Run, OfRunner(q) PROVE Goal
  <2>1. CASE Commit(q)
    <3>1. CASE UNCHANGED db
      BY <3>1
    <3>2. CASE ~UNCHANGED db
      <4>1. /\ Head(held[q].log) \in Entry
            /\ Accepts(q, Head(held[q].log)) /\ Apply(q, Head(held[q].log)) /\ Effect(q)
        BY <2>1, <3>2, CommitEffect
      <4>2. Names \/ Starts(q) \/ Ends(q) \/ Recovers(q)
        BY <4>1, ApplyEffect DEF Entry, Terminal, Base, Inv
      <4>. QED
        BY <2>1, <4>2 DEF Names, Commit
    <3>. QED
      BY <3>1, <3>2
  <2>2. CASE Refuse(q)
    BY <2>2, FinalizeEnds DEF Refuse, Binds, Bound, IsExecuting, IsTerminal, Executing, Terminal,
                  Base, Inv
  <2>3. CASE ~Commit(q) /\ ~Refuse(q)
    BY <1>2, <2>3 DEF OfRunner, Heartbeat, Begin, Say, LeaseLost, End, Evict
  <2>. QED
    BY <2>1, <2>2, <2>3
<1>3. CASE Dispatcher
  <2>1. CASE Plan \/ Check \/ Send \/ LoseReply \/ Bind
    BY <2>1 DEF Plan, Check, Send, LoseReply
  <2>2. CASE Reject \/ GiveUp \/ HearReply
    <3>1. dispatch.run \in Run /\ UNCHANGED <<boot, held, begun>>
      BY <2>2 DEF Reject, GiveUp, HearReply, Base, Inv, Claimed, Idling, runner
    <3>2. \/ Fail(dispatch.run) \/ UNCHANGED run
          \/ Retry(dispatch.run) /\ (GiveUp \/ (HearReply /\ dispatch.reply = "retryable"))
      <4>1. dispatch.reply \in {"none", "accepted", "retryable", "refused"}
        BY Typed DEF Slot
      <4>. QED
        BY <2>2, <4>1 DEF Reject, GiveUp, HearReply
    <3>3. UNCHANGED run \/ Ends(dispatch.run) \/ (Returns(dispatch.run) /\ GivesBack(dispatch.run))
      BY <3>1, <3>2, FailEffect, RetryReturns DEF Base, Inv, Names, GivesBack
    <3>. QED
      BY <3>1, <3>3
  <2>. QED
    BY <1>3, <2>1, <2>2 DEF Dispatcher
<1>4. CASE HostRestart
  <2>1. CASE \E q \in Run : ClaimedOnly(q) /\ Requeue(q)
    <3>. PICK q \in Run : ClaimedOnly(q) /\ Requeue(q)
      BY <2>1
    <3>1. Ends(q) \/ Returns(q)
      BY RequeueEffect DEF ClaimedOnly, IsExecuting, Executing, Base, Inv
    <3>. QED
      BY <1>4, <3>1 DEF HostRestart, runner, GivesBack, ClaimedOnly
  <2>2. CASE ~ \E q \in Run : ClaimedOnly(q) /\ Requeue(q)
    BY <1>4, <2>2 DEF HostRestart
  <2>. QED
    BY <2>1, <2>2
<1>5. CASE Attach
  <2>1. CASE \E q \in Run : Bound(q) /\ Settle(q)
    <3>. PICK q \in Run : Bound(q) /\ Settle(q)
      BY <2>1
    <3>1. UNCHANGED db \/ Ends(q) \/ Returns(q) \/ Recovers(q)
      BY AttachEffect
    <3>2. Returns(q) => GivesBack(q)
      BY <1>5, AttachReturns
    <3>. QED
      BY <1>5, <3>1, <3>2 DEF Attach, runner
  <2>2. CASE UNCHANGED db
    BY <2>2
  <2>. QED
    BY <1>5, <2>1, <2>2 DEF Attach
<1>6. CASE \/ Connect \/ Disconnect \/ Notice \/ DeliverExecute \/ DeliverInterrupt
           \/ DeliverRevoked \/ DeliverAttached \/ Processes \/ LeaseExpires \/ UNCHANGED vars
  BY <1>6 DEF Connect, Disconnect, Notice, DeliverExecute, DeliverInterrupt, DeliverRevoked,
        DeliverAttached, Processes, RunnerRestart, StrayEnds, OrphanEnds, LeaseExpires, vars
<1>. QED
  BY <1>1, <1>2, <1>3, <1>4, <1>5, <1>6 DEF Next, Connection

(* A stopped Run that is executing was so before, by the same binding. *)
LEMMA StoppedKeeps ==
  ASSUME Known, [Next]_vars, NEW r \in Run, Stopped(r), IsExecuting(r)'
  PROVE  IsExecuting(r) /\ run'[r].bound = run[r].bound
<1>. USE DEF Known
<1>1. ASSUME NEW q \in Run, Ends(q) \/ Recovers(q) \/ Returns(q) \/ Starts(q)
      PROVE  IsExecuting(r) /\ run'[r].bound = run[r].bound
  BY <1>1 DEF Ends, Recovers, Returns, Starts, Elsewhere, IsExecuting, IsTerminal, Executing,
              Terminal
<1>2. ASSUME NEW q \in Run, Claim(q) PROVE IsExecuting(r) /\ run'[r].bound = run[r].bound
  <2>1. q # r
    BY <1>2 DEF Claim, Tables, CommandsFollowRun, Stopped
  <2>. QED
    BY <1>2, <2>1 DEF Claim, Base, Inv, TypeOK, IsExecuting
<1>3. CASE Bind
  <2>1. dispatch.run # r \/ ~IsExecuting(r)
    BY <1>3 DEF Bind, Tables, DispatchOK, Idling, Base, Inv, Rows, RowOK, IsTerminal,
                IsExecuting,
                Executing, Terminal
  <2>. QED
    BY <1>3, <2>1 DEF Bind, Base, Inv, TypeOK, RunRow, IsExecuting
<1>. QED
  BY <1>1, <1>2, <1>3, StepRuns DEF IsExecuting

(* An interrupt of the Run is on the wire. *)
Told(j, r) == j \in Sent /\ wire[j].type = "interrupt" /\ r \in wire[j].runs

(* The Runner goes on with the Run by its binding of now. *)
Going(r) == held[r].phase \in {"admitted", "leased", "acting"} /\ held[r].gen = run[r].bound

(* The dispatcher is about to send the Run. *)
Sendable(r) == Dispatching(r) /\ dispatch.stage = "checked" /\ MaySend

(* An interrupt that is on its way: it comes after every offer of the Run  *)
(* and before anything that the Runner does on with it, and its dispatch   *)
(* is fenced.                                                              *)
ToldOK(r) ==
  /\ link = "attached"
  /\ ~Sendable(r)
  /\ \A i \in Sent : Offered(i, r) => \E j \in Sent : i < j /\ Told(j, r)
  /\ Going(r) => \E j \in Sent : Told(j, r)

(* An interrupt that was read: nothing of the Run is left to stop. *)
StillOK(r) == ~Sendable(r) /\ (\A i \in Sent : ~Offered(i, r)) /\ ~Going(r)

(* Every interrupt command of an executing Run is one of the two. *)
Interrupts ==
  \A r \in Run :
    /\ stop[r] = "dispatched" => ToldOK(r)
    /\ stop[r] = "succeeded" /\ IsExecuting(r) => StillOK(r)

(* How the command of an executing Run came to its status. *)
LEMMA StepStop ==
  ASSUME Known, Known', Interrupts, [Next]_vars, NEW r \in Run,
         stop'[r] \in {"dispatched", "succeeded"}, IsExecuting(r)'
  PROVE  /\ IsExecuting(r) /\ Stopped(r)
         /\ \/ stop'[r] = stop[r] /\ (stop[r] = "dispatched" => link' = "attached")
            \/ stop'[r] = "dispatched" /\ SendInterrupt(r)
            \/ stop'[r] = "succeeded" /\ HearInterrupted(r)
<1>. USE DEF Known
<1>. DEFINE Same == stop'[r] = stop[r] /\ (stop[r] = "dispatched" => link' = "attached")
<1>0. stop[r] = "dispatched" => link = "attached" /\ IsExecuting(r)
  BY DEF Interrupts, ToldOK, Tables, CommandsFollowRun, IsExecuting, IsTerminal, Open, Base, Inv,
         TypeOK, RunRow
<1>1. ASSUME NEW q \in Run, Ends(q) \/ Recovers(q) \/ Returns(q) \/ Starts(q) \/ Names
      PROVE  stop'[r] = stop[r]
  BY <1>1 DEF Ends, Recovers, Returns, Starts, Names, Elsewhere, IsExecuting, IsTerminal,
              Executing,
              Terminal
<1>2. ASSUME UNCHANGED stop, link' = link \/ link # "attached" PROVE Same
  BY <1>0, <1>2
<1>3. ASSUME NEW q \in Run, Effect(q), link' = link \/ link # "attached" PROVE Same
  BY <1>0, <1>1, <1>3 DEF Effect
<1>4. ASSUME stop' = Resent PROVE stop[r] # "dispatched" /\ stop'[r] = stop[r]
  BY <1>4 DEF Resent
<1>5. ASSUME NEW q \in Run, OfHost(q)
      PROVE  Same \/ (q = r /\ (SendInterrupt(r) \/ HearInterrupted(r)))
  <2>1. CASE Stop(q)
    <3>1. link' = link
      BY <2>1 DEF Stop
    <3>2. stop'[r] = stop[r]
      <4>1. CASE q = r
        <5>1. stop'[r] = "succeeded" => run'[r].status = "interrupted"
          BY <2>1, <4>1 DEF Stop, Base, Inv, TypeOK, RunRow
        <5>2. stop'[r] \in {"succeeded", "pending"}
          BY <2>1, <4>1 DEF Stop, Base, Inv, TypeOK
        <5>. QED
          BY <5>1, <5>2 DEF IsExecuting, Executing
      <4>2. CASE q # r
        BY <2>1, <4>2 DEF Stop, Base, Inv, TypeOK
      <4>. QED
        BY <4>1, <4>2
    <3>. QED
      BY <1>0, <3>1, <3>2
  <2>2. CASE Abandon(q) \/ Sweep(q)
    <3>1. Effect(q)
      BY <2>2, FinalizeEnds, RecoverEffect DEF Abandon, Sweep, Bound, Terminal, Effect, Base, Inv
    <3>2. link' = link
      BY <2>2 DEF Abandon, Sweep
    <3>. QED
      BY <1>3, <3>1, <3>2
  <2>3. CASE Claim(q)
    BY <1>2, <2>3 DEF Claim
  <2>4. CASE SendInterrupt(q) \/ HearInterrupted(q)
    <3>1. link' = link /\ (q # r => stop'[r] = stop[r])
      BY <2>4 DEF SendInterrupt, HearInterrupted, Base, Inv, TypeOK
    <3>. QED
      BY <1>0, <2>4, <3>1
  <2>. QED
    BY <1>5, <2>1, <2>2, <2>3, <2>4 DEF OfHost
<1>6. ASSUME NEW q \in Run, OfRunner(q) PROVE Same
  <2>1. link' = link
    BY <1>6 DEF OfRunner, Heartbeat, Begin, Say, LeaseLost, End, Evict, Commit, Refuse
  <2>2. CASE Commit(q)
    BY <1>2, <1>3, <2>1, <2>2, CommitEffect
  <2>3. CASE Refuse(q)
    <3>1. UNCHANGED db \/ Ends(q)
      BY <2>3, FinalizeEnds DEF Refuse, Binds, Bound, IsExecuting, IsTerminal, Executing,
                                Terminal,
                    Base, Inv
    <3>. QED
      BY <1>2, <1>3, <2>1, <3>1 DEF Effect
  <2>4. CASE ~Commit(q) /\ ~Refuse(q)
    BY <1>2, <1>6, <2>4 DEF OfRunner, Heartbeat, Begin, Say, LeaseLost, End, Evict
  <2>. QED
    BY <2>2, <2>3, <2>4
<1>7. ASSUME Dispatcher PROVE Same
  <2>1. CASE Plan \/ Check \/ Send \/ LoseReply \/ Bind
    BY <1>2, <2>1 DEF Plan, Check, Send, LoseReply, Bind
  <2>2. CASE Reject \/ GiveUp \/ HearReply
    <3>1. dispatch.run \in Run /\ link' = link
      BY <2>2 DEF Reject, GiveUp, HearReply, Base, Inv, Claimed, Idling, runner
    <3>2. Fail(dispatch.run) \/ Retry(dispatch.run) \/ UNCHANGED stop
      <4>1. dispatch.reply \in {"none", "accepted", "retryable", "refused"}
        BY Typed DEF Slot
      <4>. QED
        BY <2>2, <4>1 DEF Reject, GiveUp, HearReply
    <3>3. UNCHANGED stop \/ Effect(dispatch.run)
      BY <3>1, <3>2, FailEffect, RetryEffect DEF Base, Inv, Effect
    <3>. QED
      BY <1>2, <1>3, <3>1, <3>3
  <2>. QED
    BY <1>7, <2>1, <2>2 DEF Dispatcher
<1>8. ASSUME HostRestart PROVE Same
  <2>1. CASE \E q \in Run : ClaimedOnly(q) /\ Requeue(q)
    <3>. PICK q \in Run : ClaimedOnly(q) /\ Requeue(q)
      BY <2>1
    <3>1. IsExecuting(q)
      BY DEF ClaimedOnly, IsExecuting, Executing
    <3>2. Ends(q) \/ Returns(q)
      BY <3>1, RequeueEffect DEF Base, Inv
    <3>3. stop[r] # "dispatched"
      <4>1. stop[r] = "dispatched" => q = r
        BY <1>0, <3>1, OneExecutes
      <4>. QED
        BY <3>2, <4>1 DEF Ends, Returns, Stopped, IsTerminal, IsExecuting, Executing, Terminal
    <3>. QED
      BY <1>1, <3>2, <3>3
  <2>2. CASE ~ \E q \in Run : ClaimedOnly(q) /\ Requeue(q)
    BY <1>4, <1>8, <2>2 DEF HostRestart
  <2>. QED
    BY <2>1, <2>2
<1>9. ASSUME Attach PROVE Same
  <2>1. link = "up"
    BY <1>9 DEF Attach
  <2>2. UNCHANGED db \/ \E q \in Run : Effect(q)
    BY <1>9, AttachEffect DEF Attach, Effect
  <2>. QED
    BY <1>2, <1>3, <2>1, <2>2
<1>10. ASSUME Disconnect \/ RunnerRestart PROVE Same
  BY <1>4, <1>10 DEF Disconnect, RunnerRestart
<1>11. ASSUME Connect \/ Notice \/ LeaseExpires \/ DeliverExecute \/ DeliverInterrupt
                \/ DeliverRevoked \/ DeliverAttached \/ StrayEnds \/ OrphanEnds \/ UNCHANGED vars
       PROVE  Same
  BY <1>2, <1>11 DEF Connect, Notice, LeaseExpires, DeliverExecute, DeliverInterrupt,
        DeliverRevoked, DeliverAttached, StrayEnds, OrphanEnds, vars
<1>15. Same \/ SendInterrupt(r) \/ HearInterrupted(r)
  BY <1>5, <1>6, <1>7, <1>8, <1>9, <1>10, <1>11 DEF Next, Connection, Processes
<1>12. Stopped(r)
  BY <1>15 DEF Stopped, SendInterrupt, HearInterrupted
<1>13. IsExecuting(r)
  BY <1>12, StoppedKeeps
<1>14. /\ SendInterrupt(r) => stop'[r] = "dispatched"
       /\ HearInterrupted(r) => stop'[r] = "succeeded"
  BY DEF SendInterrupt, HearInterrupted, Base, Inv, TypeOK
<1>. QED
  BY <1>12, <1>13, <1>14, <1>15

(* Frames are added at the end of the wire, and read at its head. *)
Grows ==
  /\ \A i \in Sent : i \in Sent' /\ wire'[i] = wire[i]
  /\ \A i \in Sent' :
       \/ i \in Sent
       \/ Send /\ wire'[i].runs = {dispatch.run} /\ wire'[i].gen = dispatch.gen
       \/ wire'[i].type # "execute"

(* Frames are added at the end of the wire, read at its head, or lost. *)
LEMMA StepFrames ==
  ASSUME Known, [Next]_vars
  PROVE  (wire' = <<>> /\ link' = "down") \/ Grows \/ \E type : Reading(type) /\ Delivers(type)
<1>. USE DEF Known
<1>1. wire' = wire => Grows
  BY DEF Grows, Sent
<1>2. ASSUME NEW type, NEW rs, NEW g, wire' = Put(type, rs, g),
             type # "execute" \/ (Send /\ rs = {dispatch.run} /\ g = dispatch.gen)
      PROVE  Grows
  <2>1. PICK n \in Sent' :
           /\ wire'[n] = [type |-> type, runs |-> rs, gen |-> g]
           /\ \A i \in Sent : i \in Sent' /\ wire'[i] = wire[i] /\ i < n
           /\ \A i \in Sent' : i = n \/ i \in Sent
    BY <1>2, PutSent
  <2>2. wire'[n].type = type /\ wire'[n].runs = rs /\ wire'[n].gen = g
    BY <2>1
  <2>. QED
    BY <1>2, <2>1, <2>2 DEF Grows
<1>3. Send => Grows
  BY <1>2 DEF Send
<1>4. Attach => Grows
  BY <1>2 DEF Attach
<1>5. ASSUME NEW r \in Run, SendInterrupt(r) PROVE Grows
  BY <1>2, <1>5 DEF SendInterrupt
<1>6. ASSUME NEW r \in Run, wire' = Put("revoked", {r}, 0) PROVE Grows
  BY <1>2, <1>6
<1>. QED
  BY <1>1, <1>3, <1>4, <1>5, <1>6, StepWire

(* A dispatch of a stopped Run that may be sent was already to be sent: a  *)
(* stopped Run loses its grant, and the check does not pass.               *)
LEMMA SendableBefore ==
  ASSUME Known, [Next]_vars, NEW r \in Run, Stopped(r), IsExecuting(r), Sendable(r)'
  PROVE  Sendable(r) /\ ~SendInterrupt(r)
<1>. USE DEF Known
<1>1. dispatch'.stage = "checked" /\ dispatch'.run = r /\ ~dispatch'.fenced /\ ~dispatch'.stale
  BY DEF Sendable, Dispatching, MaySend
<1>2. ~SendInterrupt(r)
  BY <1>1, Typed DEF SendInterrupt, Fenced, Dispatching, Idling, Slot
<1>3. ASSUME Check, dispatch.run = r PROVE FALSE
  BY <1>3 DEF Check, Authorized, Base, Inv, Rows, RowOK, Tables, DispatchOK, Idling, IsExecuting,
              IsTerminal, Executing, Terminal
<1>4. Send => dispatch'.stage = "sent"
  BY Typed DEF Send, Slot
<1>5. Keeps => Sendable(r)
  BY <1>1 DEF Keeps, Sendable, Dispatching, Idling, MaySend
<1>. QED
  BY <1>1, <1>2, <1>3, <1>4, <1>5, StepDispatch
     DEF Finishes, Idle, Begins, Moved, Answered

(* A stopped Run goes on only if it did, or if an offer of it is read. *)
LEMMA GoingBefore ==
  ASSUME Known, Logs, Engine, [Next]_vars, NEW r \in Run, Stopped(r), IsExecuting(r)', Going(r)'
  PROVE  Going(r) \/ (DeliverExecute /\ Offered(1, r))
<1>. USE DEF Known
<1>1. run'[r].bound = run[r].bound
  BY StoppedKeeps
<1>2. CASE ~DeliverExecute
  BY <1>1, <1>2, StepPhase DEF Going, Drops, Stops, Proceeds, NotHeld
<1>3. CASE DeliverExecute
  <2>1. Reading("execute")
    BY <1>3 DEF DeliverExecute
  <2>2. 1 \in Sent /\ Head(wire) = wire[1] /\ wire[1].type = "execute"
    BY <2>1, ReadSent
  <2>3. PICK p \in Run : wire[1].runs = {p}
    BY <2>2 DEF Engine, WireOK
  <2>4. TheRun = p
    BY <2>2, <2>3, TheRunIs
  <2>5. held'[r] = held[r] \/ r = p
    BY <1>3, <2>4, ChangesOne DEF DeliverExecute
  <2>. QED
    BY <1>1, <1>3, <2>2, <2>3, <2>5 DEF Going, Offered
<1>. QED
  BY <1>2, <1>3

(* No offer of the Run is added while its dispatch may not be sent. *)
LEMMA OfferedBefore ==
  ASSUME Known, Grows, NEW r \in Run, ~Sendable(r), NEW i \in Sent', Offered(i, r)'
  PROVE  Offered(i, r)
<1>1. Send => Sendable(dispatch.run)
  BY DEF Send, Sendable, Dispatching, Idling
<1>. QED
  BY <1>1 DEF Grows, Offered

(* An interrupt just sent is on its way: it fences the dispatch it meets. *)
LEMMA SentInterrupt ==
  ASSUME Known, NEW r \in Run, SendInterrupt(r), ~Sendable(r)' PROVE ToldOK(r)'
<1>. USE DEF Known
<1>1. wire' = Put("interrupt", {r}, 0) /\ link' = "attached"
  BY DEF SendInterrupt
<1>2. PICK n \in Sent' :
           /\ wire'[n] = [type |-> "interrupt", runs |-> {r}, gen |-> 0]
           /\ \A i \in Sent : i \in Sent' /\ wire'[i] = wire[i] /\ i < n
           /\ \A i \in Sent' : i = n \/ i \in Sent
  BY <1>1, PutSent
<1>3. Told(n, r)'
  BY <1>2 DEF Told
<1>4. \A i \in Sent' : Offered(i, r)' => i < n
  BY <1>2 DEF Offered
<1>. QED
  BY <1>1, <1>2, <1>3, <1>4 DEF ToldOK

(* An interrupt on its way stays so until it is read. *)
LEMMA ToldStep ==
  ASSUME Known, Logs, Engine, [Next]_vars, NEW r \in Run, IsExecuting(r)', IsExecuting(r),
         Stopped(r), ToldOK(r), link' = "attached"
  PROVE  ToldOK(r)'
<1>. USE DEF Known
<1>1. ~Sendable(r)'
  BY SendableBefore DEF ToldOK
<1>3. CASE Grows
  <2>1. \A i \in Sent' : Offered(i, r)' => Offered(i, r)
    BY <1>3, OfferedBefore DEF ToldOK
  <2>2. \A j \in Sent : Told(j, r) => j \in Sent' /\ Told(j, r)'
    BY <1>3 DEF Grows, Told
  <2>3. \A i \in Sent' : Offered(i, r)' => \E j \in Sent' : i < j /\ Told(j, r)'
    BY <2>1, <2>2 DEF ToldOK, Offered
  <2>4. Going(r)' => \E j \in Sent' : Told(j, r)'
    BY <2>2, GoingBefore DEF ToldOK, Offered
  <2>. QED
    BY <1>1, <2>3, <2>4 DEF ToldOK
<1>4. ASSUME NEW type, Reading(type), Delivers(type) PROVE ToldOK(r)'
  <2>1. /\ 1 \in Sent /\ Head(wire) = wire[1] /\ wire[1].type = type
        /\ \A i \in Sent' : i + 1 \in Sent /\ i + 1 # 1 /\ wire'[i] = wire[i + 1]
        /\ \A i, j \in Sent' : i + 1 < j + 1 => i < j
        /\ \A i \in Sent : i = 1 \/ \E j \in Sent' : i = j + 1
    <3>1. \A i, j \in Sent' : i + 1 < j + 1 => i < j
      BY DEF Sent
    <3>. QED
      BY <1>4, <3>1, ReadSent
  <2>2. \A j \in Sent : Told(j, r) => j = 1 \/ \E k \in Sent' : j = k + 1 /\ Told(k, r)'
    BY <2>1 DEF Told
  <2>3. \A i \in Sent' : Offered(i, r)' => \E j \in Sent' : i < j /\ Told(j, r)'
    <3>. SUFFICES ASSUME NEW i \in Sent', Offered(i, r)' PROVE \E j \in Sent' : i < j /\ Told(j, r)'
      OBVIOUS
    <3>1. Offered(i + 1, r)
      BY <2>1 DEF Offered
    <3>2. PICK j \in Sent : i + 1 < j /\ Told(j, r)
      BY <2>1, <3>1 DEF ToldOK
    <3>3. j # 1
      BY <3>2 DEF Sent
    <3>. QED
      BY <2>1, <2>2, <3>2, <3>3
  <2>4. Going(r)' => \E j \in Sent' : Told(j, r)'
    <3>. SUFFICES ASSUME Going(r)' PROVE \E j \in Sent' : Told(j, r)'
      OBVIOUS
    <3>1. CASE Offered(1, r)
      <4>1. PICK j \in Sent : 1 < j /\ Told(j, r)
        BY <2>1, <3>1 DEF ToldOK
      <4>. QED
        BY <2>2, <4>1
    <3>2. CASE ~Offered(1, r)
      <4>1. PICK j \in Sent : Told(j, r)
        BY <3>2, GoingBefore DEF ToldOK
      <4>2. CASE j = 1
        <5>1. type = "interrupt" /\ r \in Head(wire).runs
          BY <2>1, <4>1, <4>2 DEF Told
        <5>2. PICK p \in Run : wire[1].runs = {p}
          BY <2>1, <5>1 DEF Engine, WireOK
        <5>3. TheRun = r
          BY <2>1, <5>1, <5>2, TheRunIs
        <5>4. DeliverInterrupt
          BY <1>4, <5>1 DEF Delivers
        <5>5. held'[r].phase \notin {"admitted", "leased", "acting"}
          BY <5>3, <5>4, ChangesOne, AbortedKeeps DEF DeliverInterrupt, Active
        <5>. QED
          BY <5>5 DEF Going
      <4>. QED
        BY <2>2, <4>1, <4>2
    <3>. QED
      BY <3>1, <3>2
  <2>. QED
    BY <1>1, <2>3, <2>4 DEF ToldOK
<1>. QED
  BY <1>3, <1>4, StepFrames

(* A Run whose interrupt was read stays still. *)
LEMMA StillStep ==
  ASSUME Known, Logs, Engine, [Next]_vars, NEW r \in Run, IsExecuting(r)', IsExecuting(r),
         Stopped(r), StillOK(r)
  PROVE  StillOK(r)'
<1>. USE DEF Known
<1>1. ~Sendable(r)'
  BY SendableBefore DEF StillOK
<1>2. \A i \in Sent' : ~Offered(i, r)'
  <2>1. CASE Grows
    BY <2>1, OfferedBefore DEF StillOK, Offered
  <2>2. ASSUME NEW type, Reading(type) PROVE \A i \in Sent' : ~Offered(i, r)'
    <3>1. \A i \in Sent' : i + 1 \in Sent /\ wire'[i] = wire[i + 1]
      BY <2>2, ReadSent
    <3>. QED
      BY <3>1 DEF StillOK, Offered
  <2>3. CASE wire' = <<>>
    BY <2>3, NoneSent
  <2>. QED
    BY <2>1, <2>2, <2>3, StepFrames
<1>3. ~Going(r)'
  BY GoingBefore DEF StillOK, Offered
<1>. QED
  BY <1>1, <1>2, <1>3 DEF StillOK

(* The Host hears of an interrupt after the Runner has read it. *)
LEMMA HeardStill ==
  ASSUME Known, NEW r \in Run, ToldOK(r), HearInterrupted(r) PROVE StillOK(r)'
<1>1. \A j \in Sent : ~Told(j, r)
  BY DEF HearInterrupted, Queued, Told, Sent
<1>2. StillOK(r)
  BY <1>1 DEF ToldOK, StillOK
<1>. QED
  BY <1>2 DEF HearInterrupted, runner, StillOK, Sendable, Dispatching, Idling, MaySend, Offered,
              Sent, Going

(* Every step keeps the interrupts sound. *)
LEMMA InterruptsStep ==
  ASSUME Known, Known', Logs, Engine, Interrupts, [Next]_vars PROVE Interrupts'
<1>. SUFFICES ASSUME NEW r \in Run, stop'[r] \in {"dispatched", "succeeded"}, IsExecuting(r)'
              PROVE  IF stop'[r] = "dispatched" THEN ToldOK(r)' ELSE StillOK(r)'
  <2>1. \A r \in Run : stop'[r] = "dispatched" => IsExecuting(r)'
    BY DEF Known, Tables, CommandsFollowRun, IsExecuting, IsTerminal, Open, Base, Inv, TypeOK,
           RunRow
  <2>. QED
    BY <2>1 DEF Interrupts
<1>1. IsExecuting(r) /\ Stopped(r)
  BY StepStop
<1>2. CASE stop'[r] = "dispatched" /\ SendInterrupt(r)
  BY <1>1, <1>2, SendableBefore, SentInterrupt
<1>3. CASE stop'[r] = "succeeded" /\ HearInterrupted(r)
  <2>1. ToldOK(r)
    BY <1>3 DEF HearInterrupted, Interrupts
  <2>. QED
    BY <1>3, <2>1, HeardStill
<1>4. CASE stop'[r] = stop[r] /\ (stop[r] = "dispatched" => link' = "attached")
  BY <1>1, <1>4, ToldStep, StillStep DEF Interrupts
<1>. QED
  BY <1>2, <1>3, <1>4, StepStop

(* Every interrupt of an executing Run is still to be read, after every    *)
(* offer of the Run, or has been read, and then nothing of the Run is      *)
(* left to stop (#canceledRuns, the order of the connection).              *)
THEOREM InterruptsHold == Spec => []Interrupts
<1>1. Init => Interrupts
  BY DEF Init, Interrupts
<1>2. (Known /\ Logs /\ Engine) /\ (Known /\ Logs /\ Engine)' /\ Interrupts /\ [Next]_vars
        => Interrupts'
  BY InterruptsStep
<1>. QED
  BY <1>1, <1>2, EngineHolds, PTL DEF Spec

(* The tables, the wire and the Runner agree on what was stopped: the      *)
(* commands follow their Runs, and an interrupt command the Host takes     *)
(* for delivered was delivered.                                            *)
THEOREM AlwaysConsistent == Spec => []Consistent
<1>1. Known /\ Logs /\ Engine => TypeOK /\ CommandsFollowRun
  BY DEF Known, Base, Inv, Tables
<1>2. Interrupts => InterruptIsDelivered
  BY DEF Interrupts, StillOK, InterruptIsDelivered, Going, Sendable, Queued, Offered, Sent
<1>3. TypeOK /\ CommandsFollowRun /\ InterruptIsDelivered => Consistent
  BY DEF Consistent
<1>. QED
  BY <1>1, <1>2, <1>3, EngineHolds, InterruptsHold, PTL

-----------------------------------------------------------------------------
(* 11. Processes.                                                          *)

(* One execution at a time, and none beside processes left behind. *)
Alone ==
  /\ \A q, r \in Run : held[q].phase \in Active /\ held[r].phase \in Active => q = r
  /\ \A r \in Run : held[r].phase \in Active => stray = {}
  /\ Contained => orphans = {}

(* Whether an engine began the Run under a binding. *)
BegunOK(r) ==
  /\ begun[r] <= session.gen
  /\ held[r].phase # "none" => begun[r] <= held[r].gen /\ r \notin orphans
  /\ held[r].phase \in {"admitted", "leased"} => begun[r] < held[r].gen
  /\ held[r].phase = "acting" => begun[r] = held[r].gen
  /\ \A i \in Sent : Offered(i, r) => begun[r] < wire[i].gen /\ r \notin orphans
  /\ Outranked(r, begun[r])
  /\ Dispatching(r) /\ dispatch.stage = "checked" /\ ~dispatch.stale => r \notin orphans
  /\ begun[r] = session.gen /\ session.holder = boot
       => IsTerminal(r) \/ (held[r].phase # "none" /\ held[r].gen = session.gen)

(* A Run with processes has ended, is known to replace an execution, or is *)
(* the one that its binding began.                                         *)
Processed(r) == r \in stray \cup orphans \/ Spawned(r)

Accounted(r) ==
  \/ IsTerminal(r) \/ run[r].replacing
  \/ IsExecuting(r) /\ run[r].bound # 0 /\ (run[r].status = "running" \/ begun[r] = session.gen)

Traced(r) ==
  /\ Processed(r) => Accounted(r)
  /\ r \in orphans => IsTerminal(r) \/ run[r].lastBoot # boot

Begun == Alone /\ \A r \in Run : BegunOK(r) /\ Traced(r)

(* Only a beginning is recorded as one. *)
LEMMA StepBegun ==
  ASSUME Known, [Next]_vars, NEW r \in Run
  PROVE  begun'[r] = begun[r] \/ (Begin(r) /\ begun'[r] = held[r].gen)
<1>. USE DEF Known
<1>1. ASSUME NEW q \in Run, OfRunner(q)
      PROVE  begun'[r] = begun[r] \/ (Begin(r) /\ begun'[r] = held[r].gen)
  BY <1>1 DEF OfRunner, Heartbeat, Begin, Say, LeaseLost, End, Evict, Commit, Refuse, runner,
              Base, Inv, TypeOK
<1>2. ASSUME NEW q \in Run, OfHost(q) PROVE UNCHANGED begun
  BY <1>2 DEF OfHost, Stop, Abandon, Claim, SendInterrupt, HearInterrupted, Sweep, runner
<1>3. Dispatcher => UNCHANGED begun
  BY DEF Dispatcher, Plan, Bind, Reject, Check, Send, GiveUp, HearReply, LoseReply, runner
<1>4. Connection => UNCHANGED begun
  BY DEF Connection, Connect, Disconnect, Notice, HostRestart, Attach, LeaseExpires,
         DeliverExecute, DeliverInterrupt, DeliverRevoked, DeliverAttached, runner
<1>5. Processes \/ UNCHANGED vars => UNCHANGED begun
  BY DEF Processes, RunnerRestart, StrayEnds, OrphanEnds, vars, runner
<1>. QED
  BY <1>1, <1>2, <1>3, <1>4, <1>5 DEF Next

(* Where processes are left behind. *)
LEMMA StepLeft ==
  ASSUME [Next]_vars
  PROVE  \/ UNCHANGED <<stray, orphans, boot>>
         \/ \E r \in Run : /\ End(r) /\ Spawned(r) /\ stray' = stray \cup {r}
                            /\ UNCHANGED <<orphans, boot>>
         \/ stray' = {} /\ UNCHANGED <<orphans, boot>>
         \/ orphans' = {} /\ UNCHANGED <<stray, boot>>
         \/ RunnerRestart
<1>1. ASSUME NEW q \in Run, OfRunner(q)
      PROVE  \/ UNCHANGED <<stray, orphans, boot>>
             \/ End(q) /\ Spawned(q) /\ stray' = stray \cup {q} /\ UNCHANGED <<orphans, boot>>
  BY <1>1 DEF OfRunner, Heartbeat, Begin, Say, LeaseLost, End, Evict, Commit, Refuse, runner
<1>2. ASSUME NEW q \in Run, OfHost(q) PROVE UNCHANGED <<stray, orphans, boot>>
  BY <1>2 DEF OfHost, Stop, Abandon, Claim, SendInterrupt, HearInterrupted, Sweep, runner
<1>3. Dispatcher => UNCHANGED <<stray, orphans, boot>>
  BY DEF Dispatcher, Plan, Bind, Reject, Check, Send, GiveUp, HearReply, LoseReply, runner
<1>4. Connection => UNCHANGED <<stray, orphans, boot>>
  BY DEF Connection, Connect, Disconnect, Notice, HostRestart, Attach, LeaseExpires,
         DeliverExecute, DeliverInterrupt, DeliverRevoked, DeliverAttached, runner
<1>5. ASSUME Processes
      PROVE  \/ stray' = {} /\ UNCHANGED <<orphans, boot>>
             \/ orphans' = {} /\ UNCHANGED <<stray, boot>>
             \/ RunnerRestart
  BY <1>5 DEF Processes, StrayEnds, OrphanEnds
<1>6. UNCHANGED vars => UNCHANGED <<stray, orphans, boot>>
  BY DEF vars, runner
<1>7. CASE \E r \in Run : OfHost(r) \/ OfRunner(r)
  BY <1>1, <1>2, <1>7
<1>8. CASE ~ \E r \in Run : OfHost(r) \/ OfRunner(r)
  BY <1>3, <1>4, <1>5, <1>6, <1>8 DEF Next
<1>. QED
  BY <1>7, <1>8

(* What the Runner takes in it was offered. *)
LEMMA StepAdmits ==
  ASSUME Known, Logs, Engine, [Next]_vars, NEW r \in Run, held'[r].phase # "none"
  PROVE  \/ /\ held[r].phase # "none" /\ held'[r].gen = held[r].gen
            /\ held'[r].phase \in Active => held[r].phase \in Active
            /\ held'[r].phase \in {"admitted", "leased"} => held[r].phase \in {"admitted", "leased"}
            /\ held'[r].phase = "acting" => held[r].phase = "acting" \/ Begin(r)
         \/ /\ DeliverExecute /\ Vacant /\ Offered(1, r) /\ held'[r].phase = "admitted"
            /\ held'[r].gen = wire[1].gen
            /\ \A q \in Run : q # r => held'[q] = held[q]
<1>. USE DEF Known
<1>1. CASE ~DeliverExecute
  BY <1>1, StepPhase DEF Drops, Stops, Proceeds, NotHeld, Active
<1>2. CASE DeliverExecute
  <2>1. Reading("execute")
    BY <1>2 DEF DeliverExecute
  <2>2. 1 \in Sent /\ Head(wire) = wire[1] /\ wire[1].type = "execute"
    BY <2>1, ReadSent
  <2>3. PICK p \in Run : wire[1].runs = {p}
    BY <2>2 DEF Engine, WireOK
  <2>4. TheRun = p
    BY <2>2, <2>3, TheRunIs
  <2>5. CASE held'[r] = held[r]
    BY <2>5
  <2>6. CASE held'[r] # held[r]
    <3>1. /\ held' = [held EXCEPT ![p] = [NotHeld EXCEPT !.phase = "admitted", !.gen = wire[1].gen]]
          /\ Vacant
      BY <1>2, <2>2, <2>4, <2>6 DEF DeliverExecute
    <3>2. r = p
      BY <2>6, <3>1, ChangesOne
    <3>3. held'[r] = [NotHeld EXCEPT !.phase = "admitted", !.gen = wire[1].gen]
      BY <3>1, <3>2, ChangesOne
    <3>. QED
      BY <1>2, <2>2, <2>3, <3>1, <3>2, <3>3, ChangesOne DEF Offered, NotHeld
  <2>. QED
    BY <2>5, <2>6
<1>. QED
  BY <1>1, <1>2

(* Every step leaves one execution at most, and none beside processes. *)
LEMMA AloneStep ==
  ASSUME Known, Logs, Engine, Alone, [Next]_vars PROVE Alone'
<1>1. ASSUME NEW q \in Run, NEW r \in Run, held'[q].phase \in Active, held'[r].phase \in Active
      PROVE  q = r
  BY <1>1, StepAdmits DEF Alone, Vacant, Active
<1>2. ASSUME NEW r \in Run, held'[r].phase \in Active PROVE stray' = {}
  <2>1. stray = {} /\ (held[r].phase \in Active \/ Vacant)
    BY <1>2, StepAdmits DEF Alone, Vacant, Active
  <2>2. ASSUME NEW q \in Run, End(q), Spawned(q) PROVE FALSE
    <3>1. held[q].phase \in Active /\ ~Vacant
      BY <2>2 DEF Spawned, Active, Vacant
    <3>2. q = r
      BY <2>1, <3>1 DEF Alone
    <3>3. held'[q].phase \in {"none", "ended"}
      BY <2>2, HeldTyped DEF End, NotHeld, Execution, Known, Base, Inv, TypeOK
    <3>. QED
      BY <1>2, <3>2, <3>3 DEF Active
  <2>. QED
    BY <2>1, <2>2, StepLeft DEF RunnerRestart
<1>3. Contained => orphans' = {}
  BY StepLeft DEF Alone, RunnerRestart
<1>. QED
  BY <1>1, <1>2, <1>3 DEF Alone

(* An offer on the wire was there, or was just sent. *)
LEMMA StepOffers ==
  ASSUME Known, [Next]_vars, NEW r \in Run, NEW i \in Sent', Offered(i, r)'
  PROVE  /\ wire' # <<>>
         /\ \/ \E j \in Sent : Offered(j, r) /\ wire'[i].gen = wire[j].gen
            \/ Send /\ dispatch.run = r /\ wire'[i].gen = dispatch.gen
<1>1. wire' # <<>>
  BY NoneSent
<1>2. CASE Grows
  BY <1>1, <1>2 DEF Grows, Offered
<1>3. ASSUME NEW type, Reading(type) PROVE \E j \in Sent : Offered(j, r) /\ wire'[i].gen = wire[j].gen
  <2>1. i + 1 \in Sent /\ wire'[i] = wire[i + 1]
    BY <1>3, ReadSent DEF Known
  <2>. QED
    BY <2>1 DEF Offered
<1>. QED
  BY <1>1, <1>2, <1>3, StepFrames

(* No Run is left behind by this boot's processes but by a restart. *)
LEMMA StepOrphans ==
  ASSUME [Next]_vars, NEW r \in Run, r \in orphans'
  PROVE  r \in orphans \/ RunnerRestart
  BY StepLeft

(* The session's generation never falls. *)
LEMMA GenGrows ==
  ASSUME Known, Engine, [Next]_vars, NEW r \in Run
  PROVE  /\ session'.gen \in Nat /\ session'.gen >= session.gen
         /\ session'.gen = session.gen => session'.holder = session.holder
BY StepCalm, Typed DEF Calm, Returns, Known

(* The types of what is used below. *)
LEMMA BegunTyped ==
  ASSUME Known, Engine, Begun, [Next]_vars, NEW r \in Run
  PROVE  begun[r] \in Nat /\ begun'[r] \in Nat /\ held[r].gen \in Nat /\ begun[r] <= session.gen
<1>1. begun[r] \in Nat /\ held[r].gen \in Nat
  BY HeldTyped DEF Known
<1>. QED
  BY <1>1, StepBegun DEF Begun, BegunOK

(* An engine begins under a granted lease. *)
LEMMA BeginGranted ==
  ASSUME Known, Engine, NEW r \in Run, Begin(r)
  PROVE  /\ held[r].phase = "leased" /\ Firm(r) /\ HeldOK(r)
         /\ held'[r].phase = "acting" /\ held'[r].gen = held[r].gen
<1>1. held[r].phase = "leased" /\ Firm(r) /\ HeldOK(r)
  BY DEF Begin, Firm, Engine, Helds
<1>. QED
  BY <1>1, HeldTyped DEF Begin, Known, Base, Inv, TypeOK, Execution

(* No engine began under a generation to come. *)
LEMMA BegunBounded ==
  ASSUME Known, Engine, Begun, [Next]_vars, NEW r \in Run
  PROVE  begun'[r] <= session'.gen
<1>1. session.gen \in Nat /\ session'.gen \in Nat /\ session'.gen >= session.gen
  BY GenGrows, Typed DEF Known
<1>2. CASE begun'[r] = begun[r]
  BY <1>1, <1>2, BegunTyped
<1>3. CASE Begin(r) /\ begun'[r] = held[r].gen
  <2>1. held[r].gen <= session.gen /\ held[r].gen \in Nat
    BY <1>1, <1>3, BeginGranted DEF HeldOK, Granted
  <2>. QED
    BY <1>1, <1>3, <2>1
<1>. QED
  BY <1>2, <1>3, StepBegun

(* What the Runner holds is not older than what it began, and newer while  *)
(* it waits.                                                               *)
LEMMA BegunHeld ==
  ASSUME Known, Logs, Engine, Begun, [Next]_vars, NEW r \in Run, held'[r].phase # "none"
  PROVE  /\ begun'[r] <= held'[r].gen /\ r \notin orphans'
         /\ held'[r].phase \in {"admitted", "leased"} => begun'[r] < held'[r].gen
         /\ held'[r].phase = "acting" => begun'[r] = held'[r].gen
<1>1. ~RunnerRestart
  BY DEF RunnerRestart, NotHeld
<1>2. r \in orphans' => r \in orphans
  BY <1>1, StepOrphans
<1>3. BegunOK(r) /\ begun[r] \in Nat /\ held[r].gen \in Nat
  BY BegunTyped DEF Begun
<1>4. CASE Begin(r)
  <2>1. held[r].phase = "leased" /\ held'[r].phase = "acting" /\ held'[r].gen = held[r].gen
    BY <1>4, BeginGranted
  <2>2. begun'[r] = held[r].gen
    BY <1>4 DEF Begin, Known, Base, Inv, TypeOK
  <2>. QED
    BY <1>2, <1>3, <2>1, <2>2 DEF BegunOK
<1>5. CASE ~Begin(r)
  <2>1. begun'[r] = begun[r]
    BY <1>5, StepBegun
  <2>2. CASE /\ held[r].phase # "none" /\ held'[r].gen = held[r].gen
             /\ held'[r].phase \in {"admitted", "leased"} => held[r].phase \in {"admitted", "leased"}
             /\ held'[r].phase = "acting" => held[r].phase = "acting"
    BY <1>2, <1>3, <2>1, <2>2 DEF BegunOK
  <2>3. CASE Offered(1, r) /\ held'[r].phase = "admitted" /\ held'[r].gen = wire[1].gen
    <3>1. begun[r] < wire[1].gen /\ r \notin orphans /\ wire[1].gen \in Nat
      BY <1>3, <2>3 DEF BegunOK, Offered, Engine, Offers, OfferOK, Granted
    <3>. QED
      BY <1>2, <1>3, <2>1, <2>3, <3>1
  <2>. QED
    BY <1>5, <2>2, <2>3, StepAdmits
<1>. QED
  BY <1>4, <1>5

(* What is offered is newer than what was begun. *)
LEMMA BegunOffered ==
  ASSUME Known, Logs, Engine, Begun, [Next]_vars, NEW r \in Run, NEW i \in Sent', Offered(i, r)'
  PROVE  begun'[r] < wire'[i].gen /\ r \notin orphans'
<1>1. wire' # <<>>
  BY NoneSent
<1>2. ~RunnerRestart
  BY <1>1 DEF RunnerRestart
<1>3. r \in orphans' => r \in orphans
  BY <1>2, StepOrphans
<1>4. BegunOK(r)
  BY DEF Begun
<1>5. CASE \E j \in Sent : Offered(j, r) /\ wire'[i].gen = wire[j].gen
  <2>. PICK j \in Sent : Offered(j, r) /\ wire'[i].gen = wire[j].gen
    BY <1>5
  <2>1. begun[r] < wire[j].gen /\ r \notin orphans
    BY <1>4 DEF BegunOK
  <2>2. Begin(r) => held[r].gen < wire[j].gen
    BY BeginGranted DEF Engine, Offers, OfferOK
  <2>. QED
    BY <1>3, <2>1, <2>2, StepBegun
<1>6. CASE Send /\ dispatch.run = r /\ wire'[i].gen = dispatch.gen
  <2>1. begun[r] < dispatch.gen /\ r \notin orphans
    BY <1>4, <1>6 DEF BegunOK, Outranked, Send, MaySend, Dispatching, Idling
  <2>2. ~Begin(r)
    BY <1>6, BeginGranted DEF Send, runner
  <2>. QED
    BY <1>3, <1>6, <2>1, <2>2, StepBegun
<1>. QED
  BY <1>5, <1>6, StepOffers

(* What is being bound or given up is newer than what was begun. *)
LEMMA BegunOutranked ==
  ASSUME Known, Engine, Begun, [Next]_vars, NEW r \in Run, NEW b, begun'[r] = b
  PROVE  Outranked(r, b)'
<1>1. CASE begun'[r] = begun[r]
  <2>1. Outranked(r, b) /\ b <= session.gen /\ b \in Nat
    BY <1>1, BegunTyped DEF Begun, BegunOK
  <2>2. \A i \in Sent : Offered(i, r) => b < wire[i].gen
    BY <1>1 DEF Begun, BegunOK
  <2>. QED
    BY <2>1, <2>2, OutrankedStep
<1>2. CASE Begin(r) /\ begun'[r] = held[r].gen
  BY <1>2, BeginGranted, HeldOutranked
<1>. QED
  BY <1>1, <1>2, StepBegun

(* A Run that passed its check has no processes of earlier boots: its      *)
(* binding is this boot's, and an orphan's is not.                         *)
LEMMA BegunChecked ==
  ASSUME Known, Begun, [Next]_vars, NEW r \in Run,
         Dispatching(r)', dispatch'.stage = "checked", ~dispatch'.stale
  PROVE  r \notin orphans'
<1>0. dispatch'.run = r
  BY DEF Dispatching
<1>1. ~RunnerRestart
  <2>1. RunnerRestart => dispatch'.stage = dispatch.stage /\ dispatch'.stale
    BY StaleKeeps DEF RunnerRestart, Known
  <2>. QED
    BY <2>1
<1>2. r \in orphans' => r \in orphans
  BY <1>1, StepOrphans
<1>3. CASE Keeps
  BY <1>0, <1>2, <1>3 DEF Keeps, Begun, BegunOK, Dispatching, Idling
<1>4. CASE Check /\ Moved("bound", "checked") /\ dispatch'.stale = dispatch.stale
  <2>1. Binds(r, dispatch.gen, dispatch.boot) /\ ~dispatch.stale
    BY <1>0, <1>4 DEF Check, Authorized, Moved
  <2>2. dispatch.boot = boot
    BY <1>4, <2>1 DEF Moved, Known, Tables, DispatchOK, Idling
  <2>3. run[r].lastBoot = boot /\ ~IsTerminal(r)
    BY <2>1, <2>2 DEF Binds, Bound, Known, Tables, BindingOK, IsTerminal, IsExecuting,
                      Executing, Terminal
  <2>. QED
    BY <1>2, <2>3 DEF Begun, Traced
<1>. QED
  BY <1>3, <1>4, StepDispatch DEF Known, Finishes, Idle, Begins, Moved, Send, Answered, Base,
                                  Inv, TypeOK, Slot

(* An execution of the newest binding is held until its Run has ended; an  *)
(* eviction before that is excluded by ~Forgets.                           *)
LEMMA HeldUntilEnded ==
  ASSUME ~Forgets, Known, Logs, Engine, [Next]_vars, NEW r \in Run, ~RunnerRestart,
         held[r].phase # "none", held[r].gen = session.gen, ~IsTerminal(r),
         session'.gen = session.gen
  PROVE  IsTerminal(r)' \/ (held'[r].phase # "none" /\ held'[r].gen = session.gen)
<1>0. HeldOK(r) /\ Bound(r)
  BY GrantHeld DEF Engine, Helds, HeldOK
<1>1. CASE DeliverExecute
  <2>1. CASE held'[r] = held[r]
    BY <2>1
  <2>2. CASE held'[r] # held[r]
    <3>1. held' = [held EXCEPT ![TheRun] = [NotHeld EXCEPT !.phase = "admitted", !.gen = Head(wire).gen]]
      BY <1>1, <2>2 DEF DeliverExecute
    <3>2. r = TheRun
      BY <2>2, <3>1, ChangesOne DEF Known
    <3>3. held'[r].phase # "none"
      BY <3>1, <3>2, ChangesOne DEF Known, NotHeld
    <3>4. held'[r].gen = held[r].gen \/ (Offered(1, r) /\ held'[r].gen = wire[1].gen)
      BY <3>3, StepAdmits
    <3>5. ~Offered(1, r)
      BY Typed DEF Known, Engine, Offers, OfferOK, Granted, Offered
    <3>. QED
      BY <3>3, <3>4, <3>5
  <2>. QED
    BY <2>1, <2>2
<1>2. CASE Drops(r) /\ ~DeliverExecute
  <2>1. ~Evict(r)
    BY <1>0 DEF Evict
  <2>2. ~Withdrawn(r) /\ held[r].cause # "revoked"
    BY <1>0 DEF HeldOK, Withdrawn
  <2>3. Commit(r) /\ Len(held[r].log) = 1 /\ held[r].phase = "ended"
    BY <1>2, <2>1, <2>2 DEF Drops
  <2>. DEFINE e == Head(held[r].log)
  <2>4. e \notin {"bound", "started"} /\ e \in Entry
    BY <2>3, HeadFirst, CommitEffect DEF Known, Logs, LogOK
  <2>5. ~Late(r)
    BY DEF Late
  <2>6. Accepts(r, e) /\ Apply(r, e)
    BY <2>3, <2>5, CommitEffect DEF Known
  <2>7. Ends(r) \/ Recovers(r)
    BY <2>4, <2>6, ApplyEffect DEF Known, Base, Inv, Entry, Terminal
  <2>8. ~Recovers(r)
    BY Typed DEF Known, Recovers
  <2>. QED
    BY <2>7, <2>8 DEF Ends
<1>3. CASE ~Drops(r) /\ ~DeliverExecute
  BY <1>3, StepPhase DEF Proceeds, Stops
<1>. QED
  BY <1>1, <1>2, <1>3

(* An execution that began under the newest binding is held, or its Run    *)
(* has ended.                                                              *)
LEMMA BegunKept ==
  ASSUME ~Forgets, Known, Known', Logs, Engine, Begun, [Next]_vars, NEW r \in Run,
         begun'[r] = session'.gen, session'.holder = boot'
  PROVE  IsTerminal(r)' \/ (held'[r].phase # "none" /\ held'[r].gen = session'.gen)
<1>1. CASE RunnerRestart
  <2>1. session' = session /\ boot' = boot + 1
    BY <1>1 DEF RunnerRestart
  <2>2. session.holder <= boot
    BY DEF Known, Tables, BindingOK
  <2>. QED
    BY <2>1, <2>2, Typed DEF Known
<1>2. CASE Begin(r)
  BY <1>2, BeginGranted, StepBegun DEF Begin, Known, Base, Inv, TypeOK
<1>3. CASE ~RunnerRestart /\ ~Begin(r)
  <2>1. begun[r] = session'.gen /\ boot' = boot
    BY <1>3, StepBegun, StepLeft
  <2>2. session'.gen = session.gen /\ session'.holder = session.holder
    BY <2>1, BegunTyped, GenGrows, Typed DEF Known
  <2>3. \/ IsTerminal(r)
        \/ held[r].phase # "none" /\ held[r].gen = session.gen
    BY <2>1, <2>2 DEF Begun, BegunOK
  <2>4. IsTerminal(r) => IsTerminal(r)'
    BY TerminalStays
  <2>. QED
    BY <1>3, <2>2, <2>3, <2>4, HeldUntilEnded
<1>. QED
  BY <1>1, <1>2, <1>3

(* Every step keeps what is said of the beginnings. *)
LEMMA BegunStep ==
  ASSUME ~Forgets, Known, Known', Logs, Engine, Begun, [Next]_vars, NEW r \in Run
  PROVE  BegunOK(r)'
<1>1. Outranked(r, begun[r])'
  <2>1. PICK b : begun'[r] = b
    OBVIOUS
  <2>2. Outranked(r, b)'
    BY <2>1, BegunOutranked
  <2>. QED
    BY <2>1, <2>2 DEF Outranked
<1>2. \A i \in Sent' : Offered(i, r)' => begun'[r] < wire'[i].gen /\ r \notin orphans'
  BY BegunOffered
<1>. QED
  BY <1>1, <1>2, BegunBounded, BegunHeld, BegunChecked, BegunKept DEF BegunOK

(* A Run goes back to the queue only if the binding it gives up began nothing. *)
LEMMA ReturnUnbegun ==
  ASSUME Known, Engine, Begun, [Next]_vars, NEW r \in Run, Returns(r), GivesBack(r)
  PROVE  run[r].bound = 0 \/ begun[r] # run[r].bound
<1>1. IsExecuting(r) /\ ~IsTerminal(r) /\ UNCHANGED session
  BY DEF Returns, IsExecuting, IsTerminal, Executing, Terminal
<1>2. BegunOK(r) /\ begun[r] \in Nat
  BY BegunTyped DEF Begun
<1>3. CASE dispatch.run = r /\ (GiveUp \/ (HearReply /\ dispatch.reply = "retryable"))
  <2>1. CASE dispatch.stage \in {"claimed", "planned"}
    BY <1>1, <1>3, <2>1 DEF Known, Tables, DispatchOK, Idling
  <2>2. CASE dispatch.stage \in {"bound", "checked"}
    BY <1>1, <1>2, <1>3, <2>2, Typed DEF BegunOK, Outranked, Known, Tables, DispatchOK, Idling
  <2>3. CASE HearReply /\ dispatch.reply = "retryable"
    BY <1>1, <1>2, <1>3, <2>3, Typed DEF BegunOK, Outranked, Known, Tables, DispatchOK,
                                         Idling, HearReply
  <2>. QED
    BY <1>3, <2>1, <2>2, <2>3 DEF GiveUp
<1>4. CASE ClaimedOnly(r)
  BY <1>1, <1>4 DEF ClaimedOnly, Bound, Known, Tables, BindingOK
<1>5. CASE Attach /\ Bound(r) /\ session.holder = boot
  <2>1. run[r].bound # 0 /\ run'[r].bound = 0
    BY <1>5 DEF Bound, Returns
  <2>2. Unheld(r)
    BY <1>1, <2>1, <1>5, StepCalm DEF Calm, Returns, IsTerminal, Terminal, Bound
  <2>. QED
    BY <1>1, <1>2, <1>5, <2>2 DEF BegunOK, Unheld, Bound
<1>. QED
  BY <1>3, <1>4, <1>5 DEF GivesBack

(* Processes come from an engine that began. *)
LEMMA ProcessedBefore ==
  ASSUME Known, Logs, Engine, Begun, [Next]_vars, NEW r \in Run, Processed(r)'
  PROVE  Processed(r) \/ Begin(r)
<1>1. CASE Spawned(r)' /\ ~Begin(r)
  <2>1. held'[r].phase \in {"acting", "stopping"} /\ begun[r] = held'[r].gen
    BY <1>1, StepBegun DEF Spawned
  <2>2. held[r].phase \in Active /\ held[r].gen = held'[r].gen
    BY <2>1, StepAdmits DEF Active
  <2>3. held[r].phase \notin {"admitted", "leased"}
    BY <2>1, <2>2, BegunTyped DEF Begun, BegunOK
  <2>. QED
    BY <2>1, <2>2, <2>3 DEF Processed, Spawned, Active
<1>2. CASE r \in stray' \cup orphans'
  <2>1. RunnerRestart => Processed(r)
    BY <1>2 DEF RunnerRestart, Alive, Processed
  <2>. QED
    BY <1>2, <2>1, StepLeft DEF Processed
<1>. QED
  BY <1>1, <1>2 DEF Processed

(* A Run with processes stays accounted for. *)
LEMMA AccountedStep ==
  ASSUME Known, Known', Engine, Begun, [Next]_vars, NEW r \in Run, Accounted(r), ~Begin(r)
  PROVE  Accounted(r)'
<1>1. begun'[r] = begun[r]
  BY StepBegun
<1>2. IsTerminal(r) => IsTerminal(r)'
  BY TerminalStays
<1>3. CASE run'[r] = run[r]
  <2>1. IsExecuting(r) /\ run[r].bound # 0 => session'.gen = session.gen
    BY <1>3 DEF Known, Tables, BindingOK, IsExecuting
  <2>. QED
    BY <1>1, <1>3, <2>1 DEF Accounted, IsTerminal, IsExecuting
<1>4. CASE Ends(r)
  BY <1>4 DEF Ends, Accounted
<1>5. CASE Starts(r)
  BY <1>5 DEF Starts, Accounted, IsExecuting, Executing
<1>6. CASE Recovers(r)
  BY <1>6 DEF Recovers, Accounted
<1>7. CASE Returns(r) /\ GivesBack(r)
  <2>1. run[r].replacing
    BY <1>7, ReturnUnbegun, BegunTyped
       DEF Accounted, Returns, GivesBack, IsTerminal, IsExecuting, Executing, Terminal, Known,
           Tables, BindingOK
  <2>. QED
    BY <1>7, <2>1 DEF Returns, Accounted
<1>8. CASE Claim(r)
  <2>1. run[r].status = "queued" /\ run'[r].replacing = run[r].replacing
    BY <1>8 DEF Claim, Known, Base, Inv, TypeOK, RunRow
  <2>. QED
    BY <2>1 DEF Accounted, IsTerminal, IsExecuting, Terminal, Executing
<1>9. CASE Bind /\ r = dispatch.run
  <2>1. /\ run[r].status = "starting" /\ dispatch.stage = "planned"
        /\ run'[r].replacing = run[r].replacing
    BY <1>9 DEF Bind, Bindable, Known, Base, Inv, TypeOK, RunRow
  <2>2. run[r].bound = 0 /\ ~IsTerminal(r)
    BY <1>9, <2>1 DEF Known, Tables, DispatchOK, Idling, IsExecuting, IsTerminal, Executing,
                      Terminal
  <2>. QED
    BY <2>1, <2>2 DEF Accounted
<1>. QED
  <2>1. ASSUME NEW q \in Run, q # r, Elsewhere(q) PROVE run'[r] = run[r]
    BY <2>1 DEF Elsewhere
  <2>2. ASSUME NEW q \in Run, q # r, Claim(q) PROVE run'[r] = run[r]
    BY <2>2 DEF Claim, Known, Base, Inv, TypeOK
  <2>3. Bind /\ r # dispatch.run => run'[r] = run[r]
    BY DEF Bind, Known, Base, Inv, TypeOK
  <2>4. \A q \in Run : Ends(q) \/ Starts(q) \/ Recovers(q) \/ Returns(q) => Elsewhere(q)
    BY DEF Ends, Starts, Recovers, Returns
  <2>. QED
    BY <1>3, <1>4, <1>5, <1>6, <1>7, <1>8, <1>9, <2>1, <2>2, <2>3, <2>4, StepRuns

(* Every step keeps the processes traced. *)
LEMMA TracedStep ==
  ASSUME Known, Known', Logs, Engine, Begun, [Next]_vars, NEW r \in Run
  PROVE  Traced(r)'
<1>1. ASSUME Begin(r) PROVE Accounted(r)'
  <2>1. begun'[r] = held[r].gen /\ UNCHANGED <<run, session>>
    BY <1>1 DEF Begin, Known, Base, Inv, TypeOK
  <2>2. IsTerminal(r) \/ held[r].gen = session.gen
    BY <1>1, BeginGranted DEF HeldOK
  <2>3. ~IsTerminal(r) => Bound(r)
    BY <1>1, <2>2, BeginGranted, GrantHeld DEF HeldOK
  <2>. QED
    BY <2>1, <2>2, <2>3 DEF Accounted, Bound, IsExecuting, IsTerminal
<1>2. Processed(r)' => Accounted(r)'
  BY <1>1, ProcessedBefore, AccountedStep DEF Begun, Traced
<1>3. ASSUME r \in orphans' PROVE IsTerminal(r)' \/ run'[r].lastBoot # boot'
  <2>1. CASE RunnerRestart
    <3>1. run' = run /\ boot' = boot + 1
      BY <2>1 DEF RunnerRestart
    <3>2. run[r].lastBoot <= boot
      BY DEF Known, Tables, BindingOK
    <3>. QED
      BY <3>1, <3>2, Typed DEF Known
  <2>2. CASE ~RunnerRestart
    <3>1. r \in orphans /\ boot' = boot
      BY <1>3, <2>2, StepOrphans, StepLeft
    <3>2. IsTerminal(r) \/ run[r].lastBoot # boot
      BY <3>1 DEF Begun, Traced
    <3>3. IsTerminal(r) => IsTerminal(r)'
      BY TerminalStays
    <3>4. CASE Bind /\ dispatch.run = r
      <4>1. /\ run'[r].lastBoot = dispatch.boot
            /\ Bindable(r) /\ dispatch.stage = "planned"
        BY <3>4 DEF Bind, Known, Base, Inv, TypeOK, RunRow
      <4>2. run[r].bound = 0 /\ ~IsTerminal(r)
        BY <3>4, <4>1 DEF Bindable, Known, Tables, DispatchOK, Idling, IsExecuting,
                          IsTerminal, Executing, Terminal
      <4>3. run[r].replacing /\ ~Contained
        BY <3>1, <4>2 DEF Begun, Alone, Traced, Processed, Accounted
      <4>. QED
        BY <3>1, <3>2, <4>1, <4>2, <4>3 DEF Bindable, MayReplace
    <3>5. CASE ~(Bind /\ dispatch.run = r)
      <4>1. run'[r].lastBoot = run[r].lastBoot \/ IsTerminal(r)'
        <5>1. ASSUME NEW q \in Run, Ends(q) \/ Starts(q) \/ Recovers(q) \/ Returns(q) \/ Claim(q)
              PROVE  run'[r].lastBoot = run[r].lastBoot
          <6>1. Claim(q) => run'[r].lastBoot = run[r].lastBoot
            BY DEF Claim, Known, Base, Inv, TypeOK, RunRow
          <6>2. CASE q = r
            BY <5>1, <6>1, <6>2 DEF Ends, Starts, Recovers, Returns
          <6>3. CASE q # r
            BY <5>1, <6>1, <6>3 DEF Ends, Starts, Recovers, Returns, Elsewhere
          <6>. QED
            BY <6>2, <6>3
        <5>2. Bind => run'[r].lastBoot = run[r].lastBoot
          BY <3>5 DEF Bind, Known, Base, Inv, TypeOK
        <5>. QED
          BY <5>1, <5>2, StepRuns
      <4>. QED
        BY <3>1, <3>2, <3>3, <4>1
    <3>. QED
      BY <3>4, <3>5
  <2>. QED
    BY <2>1, <2>2
<1>. QED
  BY <1>2, <1>3 DEF Traced

(* Nothing has begun. *)
LEMMA BegunInit == ASSUME Init PROVE Begun
<1>1. Alone
  BY DEF Init, Alone, NotHeld, Active
<1>2. ASSUME NEW r \in Run PROVE BegunOK(r) /\ Traced(r)
  <2>1. wire = <<>> => Len(wire) = Len(<<>>)
    BY Zenon
  <2>2. Sent = {}
    BY <2>1 DEF Init, Sent
  <2>. QED
    BY <2>2 DEF Init, BegunOK, Traced, Processed, Spawned, NotHeld, Outranked, Idling, Idle,
                Dispatching
<1>. QED
  BY <1>1, <1>2 DEF Begun

(* Every process of an execution is accounted for by the tables: its Run   *)
(* has ended, is marked as replacing an execution, or still has the        *)
(* binding that it began under, which nothing gives back.  The journal of  *)
(* an ended execution must not be dropped before the Host has it           *)
(* (~Forgets): without its row an attach takes a finished execution for    *)
(* one that never began.                                                   *)
THEOREM BegunHolds == ASSUME ~Forgets PROVE Spec => []Begun
<1>1. Init => Begun
  BY BegunInit
<1>2. (Known /\ Logs /\ Engine) /\ (Known /\ Logs /\ Engine)' /\ Begun /\ [Next]_vars => Begun'
  BY AloneStep, BegunStep, TracedStep DEF Begun
<1>. QED
  BY <1>1, <1>2, EngineHolds, PTL DEF Spec

(* A Run never has two engines, and a boot never runs two Runs of the      *)
(* Thread side by side or out of order (MayReplace of                      *)
(* acquireExecutionBinding, #uncontainedThreads, #admitExecution).         *)
THEOREM OneEngineAlways == ASSUME ~Forgets PROVE Spec => []OneEngine
<1>1. ASSUME Engine, Begun PROVE OneEngine
  <2>1. ASSUME NEW r \in Run, held[r].phase = "acting" PROVE r \notin stray \cup orphans
    BY <1>1, <2>1 DEF Begun, Alone, BegunOK, Active
  <2>2. ASSUME NEW q \in Run, NEW r \in Run, q < r, held[r].phase = "acting"
        PROVE  IsTerminal(q) /\ ~Spawned(q) /\ q \notin stray
    <3>1. IsTerminal(q)
      BY <1>1, <2>2 DEF Engine, Helds, HeldOK, Granted
    <3>2. q # r
      BY <2>2 DEF Run
    <3>3. held[q].phase \notin Active /\ stray = {}
      BY <1>1, <2>2, <3>2 DEF Begun, Alone, Active
    <3>. QED
      BY <3>1, <3>3 DEF Spawned, Active
  <2>. QED
    BY <2>1, <2>2 DEF OneEngine
<1>. QED
  BY <1>1, EngineHolds, BegunHolds, PTL

(* A Run that goes back as the same attempt, to be given to an engine      *)
(* again word for word, was never begun under the binding it gives up      *)
(* (retryCommand, recoverCommandsAfterHostRestart,                         *)
(* attachRunnerExecutions).                                                *)
THEOREM ReturnedUnbegunAlways == ASSUME ~Forgets PROVE Spec => ReturnedUnbegun
<1>. DEFINE Unbegun(r) ==
              IsExecuting(r) /\ run'[r].status = "queued" /\ run'[r].recoveries = run[r].recoveries
                => run[r].bound = 0 \/ begun[r] # run[r].bound
<1>1. ASSUME Known, Engine, Begun, [Next]_vars, NEW r \in Run PROVE Unbegun(r)
  <2>. SUFFICES ASSUME IsExecuting(r), run'[r].status = "queued",
                       run'[r].recoveries = run[r].recoveries
                PROVE  run[r].bound = 0 \/ begun[r] # run[r].bound
    OBVIOUS
  <2>1. run'[r] # run[r] /\ run[r].status # "queued" /\ run' # run
    BY DEF IsExecuting, Executing
  <2>2. ~Ends(r) /\ ~Starts(r)
    BY DEF Ends, IsTerminal, Terminal, Starts
  <2>3. ~Recovers(r)
    BY <1>1 DEF Recovers, Known, Base, Inv, TypeOK, RunRow
  <2>4. ~Bind
    <3>1. ASSUME Bind PROVE run'[r].status = run[r].status \/ run'[r] = run[r]
      BY <1>1, <3>1 DEF Bind, Known, Base, Inv, TypeOK, RunRow
    <3>. QED
      BY <2>1, <3>1
  <2>5. ASSUME NEW q \in Run, Claim(q) PROVE FALSE
    <3>1. q = r => run[r].status = "queued"
      BY <2>5 DEF Claim
    <3>2. q # r => run'[r] = run[r]
      BY <1>1, <2>5 DEF Claim, Known, Base, Inv, TypeOK
    <3>. QED
      BY <2>1, <3>1, <3>2
  <2>6. ASSUME NEW q \in Run, Ends(q) \/ Starts(q) \/ Recovers(q) \/ Returns(q) PROVE q = r
    BY <2>1, <2>6 DEF Ends, Starts, Recovers, Returns, Elsewhere
  <2>7. Returns(r) /\ GivesBack(r)
    BY <1>1, <2>1, <2>2, <2>3, <2>4, <2>5, <2>6, StepRuns
  <2>. QED
    BY <1>1, <2>7, ReturnUnbegun
<1>2. Known /\ Logs /\ Engine /\ Begun /\ [Next]_vars => [\A r \in Run : Unbegun(r)]_vars
  BY <1>1
<1>. QED
  BY <1>2, EngineHolds, BegunHolds, PTL DEF Spec, ReturnedUnbegun
=============================================================================
