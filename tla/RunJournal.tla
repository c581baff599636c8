----------------------------- MODULE RunJournal -----------------------------
(***************************************************************************)
(* How what a Run says reaches the Host's log.  The Runner keeps each event*)
(* in the Run's journal until the Host has acknowledged it, sends the      *)
(* journal in order on its current connection, and replays it on the next  *)
(* one from the ordinal the Host names.  The Host commits one event of a   *)
(* Run at a time, answers in batches, and refuses what the Run's binding   *)
(* does not stand behind.                                                  *)
(*                                                                         *)
(* One Run, its attempts one after another, and the sockets of its Runner. *)
(* A database transaction, a frame and a turn of either process is a step. *)
(* Events are told apart by what the Host does with them: "end" ends the   *)
(* Run, "cut" says a restart interrupted the attempt, "lost" that its lease*)
(* ran out, and any other is a "note".                                     *)
(***************************************************************************)
EXTENDS Integers, Sequences

CONSTANTS
  MaxGen,       \* bound of the model: attempts of the Run
  MaxOrdinal,   \* bound of the model: ordinals, counted over all attempts
  MaxSocket     \* bound of the model: sockets the Runner opens

ASSUME BoundAssumption == MaxGen \in Nat /\ {MaxOrdinal, MaxSocket} \subseteq Nat \ {0}

VARIABLES
  held,      \* the Runner's execution of the Run, in #runs or #settledRuns
  sock,      \* the Runner's open socket, 0 without one
  conn,      \* the Runner's #connection: the socket it reports on, 0 without one
  sending,   \* the event and the socket of the send the journal awaits
  up,        \* frames on each socket the Host has not read
  down,      \* frames on each socket the Runner has not read
  peer,      \* the Host's RunnerConnection of each socket
  row,       \* the Run's row: status, binding generation, next_runner_ordinal
  muted,     \* generations whose attempt was superseded or whose Run ended
  said,      \* history: every event an attempt reported
  log        \* the Run's rows in workspace_events

runner == <<held, sock, conn, sending, said>>
vars == <<runner, up, down, peer, row, muted, log>>

Gen == 1..MaxGen
Socket == 1..MaxSocket
Kind == {"note", "end", "cut", "lost"}
Event == [gen : Gen, n : 0..(MaxOrdinal - 1), kind : Kind]
None == [gen |-> 0, n |-> 0, kind |-> "note"]

Phase == {"none", "running", "ending", "ended", "revoked"}
NotHeld == [phase |-> "none", gen |-> 0, next |-> 0, kept |-> {}, sent |-> -1]
NoPeer == [state |-> "none", owned |-> 0, revoked |-> FALSE, acked |-> -1,
           doing |-> None, stage |-> "idle"]
NotSending == [on |-> 0, event |-> None]

Frame(type, gen, n) == [type |-> type, gen |-> gen, n |-> n, kind |-> "note"]
FrameSet == [type : {"attach", "event", "attached", "revoked", "execute", "ack"},
             gen : 0..MaxGen, n : -1..MaxOrdinal, kind : Kind]

TypeOK ==
  /\ held \in [phase : Phase, gen : 0..MaxGen, next : 0..MaxOrdinal,
               kept : SUBSET Event, sent : -1..MaxOrdinal]
  /\ sock \in 0..MaxSocket /\ conn \in {0, sock}
  /\ sending \in [on : 0..MaxSocket, event : Event \cup {None}]
  /\ up \in [Socket -> Seq(FrameSet)] /\ down \in [Socket -> Seq(FrameSet)]
  /\ peer \in [Socket -> [state : {"none", "up", "attached", "gone"}, owned : 0..MaxGen,
                          revoked : BOOLEAN, acked : -1..MaxOrdinal,
                          doing : Event \cup {None},
                          stage : {"idle", "taken", "refused"}]]
  /\ row \in [status : {"queued", "bound", "ended", "failed"}, gen : 0..MaxGen,
              next : 0..MaxOrdinal, lost : 0..MaxGen]
  /\ muted \subseteq Gen /\ said \subseteq Event /\ log \in Seq(Event)

Init ==
  /\ held = NotHeld /\ sock = 0 /\ conn = 0 /\ sending = NotSending
  /\ up = [s \in Socket |-> <<>>] /\ down = [s \in Socket |-> <<>>]
  /\ peer = [s \in Socket |-> NoPeer]
  /\ row = [status |-> "queued", gen |-> 0, next |-> 0, lost |-> 0]
  /\ muted = {} /\ said = {} /\ log = <<>>

Opened(s) == peer[s].state # "none"
Live(s) == peer[s].state \in {"up", "attached"}
MoreSockets == ~Opened(MaxSocket)
Stored == {log[i] : i \in DOMAIN log}
Terminal(e) == e.kind # "note"

-----------------------------------------------------------------------------
(* The Runner. *)

(* #emit: the event joins the journal under the execution's next ordinal.  *)
(* Nothing follows a terminal event.  An attempt is cut only once the Host *)
(* has superseded it, and "lost" replaces its outcome at a lapsed lease.   *)
Emit_AfterEnd(kind) ==
  LET e == [gen |-> held.gen, n |-> held.next, kind |-> kind]
  IN  /\ held.phase \in {"running", "ending"} /\ held.next < MaxOrdinal
      /\ kind = "cut" => held.gen \in muted
      /\ held' = [held EXCEPT !.next = @ + 1, !.kept = @ \cup {e}]
      /\ said' = said \cup {e}
      /\ UNCHANGED <<sock, conn, sending, up, down, peer, row, muted, log>>

Emit(kind) ==
  LET e == [gen |-> held.gen, n |-> held.next, kind |-> kind]
  IN  /\ held.phase = "running" /\ held.next < MaxOrdinal
      /\ kind = "cut" => held.gen \in muted
      /\ held' = [held EXCEPT !.next = @ + 1, !.kept = @ \cup {e},
                              !.phase = IF Terminal(e) THEN "ending" ELSE @]
      /\ said' = said \cup {e}
      /\ UNCHANGED <<sock, conn, sending, up, down, peer, row, muted, log>>

(* #pumpJournal sends one event at a time and awaits each send.            *)
Due == {e \in held.kept : e.n = held.sent + 1}

SendNext ==
  /\ held.phase \in {"running", "ending", "ended"}
  /\ conn # 0 /\ sending = NotSending
  /\ \E e \in Due :
       /\ sending' = [on |-> conn, event |-> e]
       /\ up' = IF Live(conn)
                THEN [up EXCEPT ![conn] = Append(@, [type |-> "event", gen |-> e.gen,
                                                     n |-> e.n, kind |-> e.kind])]
                ELSE up
  /\ UNCHANGED <<held, sock, conn, said, down, peer, row, muted, log>>

(* A send that settles once its connection was replaced counts for nothing.*)
Counts_Always == sending.event.gen = held.gen
Counts == sending.event.gen = held.gen /\ sending.on = conn

SendSettles ==
  /\ sending # NotSending
  /\ sending' = NotSending
  /\ held' = IF Counts THEN [held EXCEPT !.sent = @ + 1] ELSE held
  /\ UNCHANGED <<sock, conn, said, up, down, peer, row, muted, log>>

(* The end of #execute: a journal the Host has not acknowledged in full    *)
(* stays in #settledRuns.                                                  *)
Finish ==
  /\ held.phase = "ending" /\ sending.event.gen # held.gen
  /\ held' = IF held.kept = {} THEN NotHeld ELSE [held EXCEPT !.phase = "ended"]
  /\ UNCHANGED <<sock, conn, sending, said, up, down, peer, row, muted, log>>

(* A revoked execution's engine stops; nothing is kept of it.              *)
Leave ==
  /\ held.phase = "revoked"
  /\ held' = NotHeld
  /\ UNCHANGED <<sock, conn, sending, said, up, down, peer, row, muted, log>>

Revoked(h) == IF h.phase \in {"running", "ending", "revoked"}
              THEN [h EXCEPT !.phase = "revoked", !.kept = {}] ELSE NotHeld

(* A lost socket takes with it what the Runner had not read; what it had   *)
(* sent may still reach the Host.                                          *)

LoseSocket ==
  /\ sock # 0 /\ (Live(sock) => MoreSockets)
  /\ sock' = 0 /\ conn' = 0
  /\ down' = [down EXCEPT ![sock] = <<>>]
  /\ UNCHANGED <<held, sending, said, up, peer, row, muted, log>>

(* The Runner's process dies and starts again, with no Run in memory.      *)
Crash ==
  /\ MoreSockets /\ held # NotHeld
  /\ held' = NotHeld /\ sock' = 0 /\ conn' = 0 /\ sending' = NotSending
  /\ down' = [s \in Socket |-> <<>>]
  /\ UNCHANGED <<said, up, peer, row, muted, log>>

(* The Host registers the Runner's next connection in place of the last,   *)
(* and the Runner's first frame is the inventory of what it holds.         *)
Gone(p) == [NoPeer EXCEPT !.state = "gone", !.doing = p.doing, !.stage = p.stage]

Inventory == IF held = NotHeld THEN Frame("attach", 0, 0)
             ELSE Frame("attach", held.gen, held.next)

Connect ==
  /\ sock = 0 /\ MoreSockets
  /\ LET s == CHOOSE t \in Socket : ~Opened(t) /\ \A u \in Socket : u < t => Opened(u)
     IN  /\ sock' = s
         /\ peer' = [t \in Socket |-> IF t = s THEN [NoPeer EXCEPT !.state = "up"]
                                      ELSE IF Opened(t) THEN Gone(peer[t]) ELSE peer[t]]
         /\ up' = [t \in Socket |-> IF t = s THEN <<Inventory>> ELSE <<>>]
  /\ UNCHANGED <<held, conn, sending, said, down, row, muted, log>>

(* attach: the answer prunes what the Host has committed and replays the   *)
(* rest; an execution it does not continue stops and is forgotten.         *)
PrunedTo(n) == [held EXCEPT !.kept = {e \in @ : e.n >= n}, !.sent = n - 1]

Released(h) == IF h.phase = "ended" /\ h.kept = {} THEN NotHeld ELSE h

HearAttached(f) ==
  /\ f.type = "attached"
  /\ conn' = sock
  /\ held' = IF held.gen = 0 THEN held
             ELSE IF f.gen = held.gen THEN Released(PrunedTo(f.n)) ELSE Revoked(held)
  /\ UNCHANGED sending

HearRevoked(f) ==
  /\ f.type = "revoked"
  /\ held' = IF held.gen = 0 THEN held ELSE Revoked(held)
  /\ UNCHANGED <<conn, sending>>

(* acknowledge: by Run, whichever attempt the Runner holds.                *)
Forgotten_OneMore(n) == [held EXCEPT !.kept = {e \in @ : e.n > n + 1}]
Forgotten(n) == [held EXCEPT !.kept = {e \in @ : e.n > n}]

HearAck(f) ==
  /\ f.type = "ack"
  /\ held' = Released(Forgotten(f.n))
  /\ UNCHANGED <<conn, sending>>

(* #admitExecution: a restarted Run's attempt goes on with its ordinals. An*)
(* attempt that is still winding down is in the way, and the command is    *)
(* rejected for now: the Run is queued again.                              *)
Admitted(f) ==
  [phase |-> "running", gen |-> f.gen, next |-> f.n, kept |-> {}, sent |-> f.n - 1]

HearExecute(f) ==
  /\ f.type = "execute"
  /\ held.phase \in {"none", "ended"}
  /\ held' = Admitted(f)
  /\ UNCHANGED <<conn, sending, row>>

RejectExecute(f) ==
  /\ f.type = "execute"
  /\ held.phase \in {"running", "ending", "revoked"}
  /\ row' = IF row.status = "bound" /\ row.gen = f.gen
            THEN [row EXCEPT !.status = "queued"] ELSE row
  /\ UNCHANGED <<held, conn, sending>>

Hear ==
  /\ sock # 0 /\ down[sock] # <<>>
  /\ LET f == Head(down[sock])
     IN  \/ (HearAttached(f) \/ HearRevoked(f) \/ HearAck(f)) /\ UNCHANGED row
         \/ HearExecute(f) \/ RejectExecute(f)
  /\ down' = [down EXCEPT ![sock] = Tail(@)]
  /\ UNCHANGED <<sock, said, up, peer, muted, log>>

-----------------------------------------------------------------------------
(* The Host's registry. *)

(* The Host drops a connection: the socket is dead, a handler failed, or   *)
(* the Host restarts.  What a lane has begun goes on.                      *)
Drop(s) ==
  /\ Live(s) /\ (sock = s => MoreSockets)
  /\ peer' = [peer EXCEPT ![s] = Gone(@)]
  /\ up' = [up EXCEPT ![s] = <<>>]
  /\ UNCHANGED <<runner, down, row, muted, log>>

Send(s, frames) == IF sock = s THEN [down EXCEPT ![s] = @ \o frames] ELSE down

(* #attach with attachRunnerExecutions: the announced execution goes on    *)
(* from the Host's next ordinal if it is the Run's binding; a Runner that  *)
(* holds fewer events than the Host fails the Run; and a bound Run that is *)
(* not announced is lost with its attempt.                                 *)
Recovered == [row EXCEPT !.status = "queued", !.lost = row.gen]

Attach(s) ==
  LET f == Head(up[s])
      bound == row.status = "bound"
      mine == bound /\ f.gen = row.gen
      goesOn == mine /\ f.n >= row.next
  IN  /\ peer[s].state = "up" /\ up[s] # <<>>
      /\ row' = IF mine THEN (IF goesOn THEN row ELSE [row EXCEPT !.status = "failed"])
                ELSE IF bound THEN Recovered ELSE row
      /\ muted' = IF bound /\ ~goesOn THEN muted \cup {row.gen} ELSE muted
      /\ up' = [up EXCEPT ![s] = Tail(@)]
      /\ down' = Send(s, <<IF goesOn THEN Frame("attached", f.gen, row.next)
                           ELSE Frame("attached", 0, 0)>>)
      /\ peer' = [peer EXCEPT ![s].state = "attached",
                              ![s].owned = IF goesOn THEN f.gen ELSE 0]
      /\ UNCHANGED <<runner, log>>

(* A Run's lane takes its next event; one of a revoked Run is skipped.     *)
Take(s) ==
  LET f == Head(up[s])
  IN  /\ peer[s].state = "attached" /\ up[s] # <<>>
      /\ peer[s].stage = "idle"
      /\ peer' = IF peer[s].revoked THEN peer
                 ELSE [peer EXCEPT ![s].stage = "taken",
                                   ![s].doing = [gen |-> f.gen, n |-> f.n, kind |-> f.kind]]
      /\ up' = [up EXCEPT ![s] = Tail(@)]
      /\ UNCHANGED <<runner, down, row, muted, log>>

(* commitRunnerEvent, one transaction under the Run's row lock.            *)
Retired(e) == e.gen <= row.lost
Superseded(e) == e.gen \in muted /\ row.status \in {"queued", "bound"}
Repeats(e) == \E d \in Stored : d.n = e.n
Absorbed(e) == Superseded(e) /\ e.n < row.next
LateEvent(e) == row.status \in {"ended", "failed"} /\ row.gen = e.gen /\ row.next = e.n
Holds(e) == row.status = "bound" /\ row.gen = e.gen

Known(e) == ~Retired(e) /\ IF Repeats(e) THEN e \in Stored ELSE Absorbed(e)
InTurn(e) == ~Retired(e) /\ Holds(e) /\ e.n = row.next

(* The event is a duplicate, or the Run has ended without it.              *)
Skip(e) ==
  /\ Known(e) \/ (~Retired(e) /\ ~Repeats(e) /\ LateEvent(e))
  /\ row' = IF Known(e) THEN row ELSE [row EXCEPT !.next = @ + 1]
  /\ UNCHANGED <<muted, log>>

(* recoverLostRunTransaction: the Run is queued, the event is not stored.  *)
Recover(e) ==
  /\ ~Known(e) /\ InTurn(e) /\ e.kind = "lost"
  /\ row' = Recovered
  /\ muted' = muted \cup {e.gen}
  /\ UNCHANGED log

(* commitSupersededAttemptEvent: only the ordinal counts; its interruption *)
(* queues the next attempt.                                                *)
Absorb(e) ==
  /\ ~Known(e) /\ InTurn(e) /\ Superseded(e) /\ e.kind \in {"note", "cut"}
  /\ row' = [row EXCEPT !.next = @ + 1, !.status = IF e.kind = "cut" THEN "queued" ELSE @]
  /\ UNCHANGED <<muted, log>>

Store(e) ==
  /\ ~Known(e) /\ InTurn(e)
  /\ e.kind = "end" \/ (e.kind = "note" /\ ~Superseded(e))
  /\ log' = Append(log, e)
  /\ row' = [row EXCEPT !.next = @ + 1, !.status = IF e.kind = "end" THEN "ended" ELSE @]
  /\ UNCHANGED muted

Commits(e) == Skip(e) \/ Recover(e) \/ Absorb(e) \/ Store(e)

(* #acknowledge: what is committed is acknowledged together, a terminal    *)
(* event at once.  The answer follows the commit without another wait.     *)
Done(p) == [p EXCEPT !.stage = "idle", !.doing = None]
AckedTo(s) == IF peer[s].acked > peer[s].doing.n THEN peer[s].acked ELSE peer[s].doing.n

Commit(s) ==
  LET e == peer[s].doing
      now == Live(s) /\ Terminal(e)
  IN  /\ peer[s].stage = "taken"
      /\ Commits(e)
      /\ peer' = [peer EXCEPT ![s] =
           [Done(peer[s]) EXCEPT !.acked = IF Live(s) /\ ~now THEN AckedTo(s) ELSE -1,
                           !.owned = IF now THEN 0 ELSE @]]
      /\ down' = IF now THEN Send(s, <<Frame("ack", 0, AckedTo(s))>>) ELSE down
      /\ UNCHANGED <<runner, up>>

FlushAcknowledgements(s) ==
  /\ Live(s) /\ peer[s].acked >= 0
  /\ down' = Send(s, <<Frame("ack", 0, peer[s].acked)>>)
  /\ peer' = [peer EXCEPT ![s].acked = -1]
  /\ UNCHANGED <<runner, up, row, muted, log>>

(* Everything else is refused: a retired binding, an ordinal out of turn or*)
(* stored with other content, a Run that is not executing.                 *)
Refusable(e) == /\ ~Known(e) /\ ~InTurn(e)
                /\ Retired(e) \/ Repeats(e) \/ ~LateEvent(e)

Refuse(s) ==
  /\ peer[s].stage = "taken" /\ Refusable(peer[s].doing)
  /\ peer' = [peer EXCEPT ![s].stage = "refused"]
  /\ UNCHANGED <<runner, up, down, row, muted, log>>

(* The transaction fails for a reason of its own, or its outcome is not    *)
(* known: the connection is closed, and the Runner replays on its next one.*)
CommitFails(s) ==
  /\ peer[s].stage = "taken"
  /\ sock = s => MoreSockets
  /\ Commits(peer[s].doing) \/ UNCHANGED <<row, muted, log>>
  /\ peer' = [peer EXCEPT ![s] = Done(Gone(@))]
  /\ up' = [up EXCEPT ![s] = <<>>]
  /\ UNCHANGED <<runner, down>>

(* #refuseEvent: a refusal fails the Run if the reporter still holds it;   *)
(* then the Runner's current connection is told to stop the Run, unless    *)
(* the reporting connection is known to run it under another binding.      *)
RefuseEvent(s) ==
  LET e == peer[s].doing
      spared == peer[s].owned \notin {0, e.gen}
      told == {t \in Socket : Live(t) /\ ~spared}
  IN  /\ peer[s].stage = "refused"
      /\ row' = IF Holds(e) THEN [row EXCEPT !.status = "failed"] ELSE row
      /\ muted' = IF Holds(e) THEN muted \cup {e.gen} ELSE muted
      /\ peer' = [t \in Socket |->
           LET p == IF t = s THEN Done(peer[s]) ELSE peer[t]
           IN  IF t \in told THEN [p EXCEPT !.revoked = TRUE, !.owned = 0] ELSE p]
      /\ down' = [t \in Socket |-> IF t \in told /\ t = sock
                                   THEN Append(down[t], Frame("revoked", 0, 0)) ELSE down[t]]
      /\ UNCHANGED <<runner, up, log>>

-----------------------------------------------------------------------------
(* The rest of the Host, as far as it moves the Run's row. *)

(* The binding's lease ran out, and recovery takes the Run from it.        *)
Expire ==
  /\ row.status = "bound"
  /\ row' = Recovered
  /\ muted' = muted \cup {row.gen}
  /\ UNCHANGED <<runner, up, down, peer, log>>

(* A steer restarts the Run: its current attempt is superseded.            *)
Supersede ==
  /\ row.status = "bound"
  /\ muted' = muted \cup {row.gen}
  /\ UNCHANGED <<runner, up, down, peer, row, log>>

(* The Host ends the Run on its own account. *)
HostEnds ==
  /\ row.status \in {"queued", "bound"}
  /\ row' = [row EXCEPT !.status = "ended"]
  /\ muted' = muted \cup ({row.gen} \ {0})
  /\ UNCHANGED <<runner, up, down, peer, log>>

(* The dispatcher binds the queued Run to its next generation and sends it *)
(* with the Host's next ordinal.                                           *)
Dispatch(s) ==
  /\ row.status = "queued" /\ row.gen < MaxGen
  /\ peer[s].state = "attached"
  /\ row' = [row EXCEPT !.status = "bound", !.gen = @ + 1]
  /\ peer' = [peer EXCEPT ![s].owned = row.gen + 1, ![s].revoked = FALSE]
  /\ down' = Send(s, <<Frame("execute", row.gen + 1, row.next)>>)
  /\ UNCHANGED <<runner, up, muted, log>>

-----------------------------------------------------------------------------
Delivery(s) ==
  \/ Attach(s) \/ Take(s) \/ Commit(s) \/ FlushAcknowledgements(s)
  \/ Refuse(s) \/ RefuseEvent(s)

Next ==
  \/ \E kind \in Kind : Emit(kind)
  \/ SendNext \/ SendSettles \/ Finish \/ Leave \/ Hear
  \/ LoseSocket \/ Crash \/ Connect
  \/ \E s \in Socket : Delivery(s) \/ Drop(s) \/ CommitFails(s) \/ Dispatch(s)
  \/ Expire \/ Supersede \/ HostEnds

(* Timers, sockets and lanes run on; nothing obliges an engine to speak,   *)
(* a connection to fail or the Host to dispatch.                           *)
Fairness ==
  /\ WF_vars(SendNext) /\ WF_vars(SendSettles) /\ WF_vars(Hear)
  /\ WF_vars(Finish) /\ WF_vars(Leave)
  /\ WF_vars(sock # 0 /\ ~Live(sock) /\ LoseSocket) /\ WF_vars(Connect)
  /\ \A s \in Socket : /\ WF_vars(Attach(s)) /\ WF_vars(Take(s))
                       /\ WF_vars(Commit(s) \/ Refuse(s)) /\ WF_vars(RefuseEvent(s))
                       /\ WF_vars(FlushAcknowledgements(s))

Spec == Init /\ [][Next]_vars
LiveSpec == Spec /\ Fairness

-----------------------------------------------------------------------------
(* Properties. *)

(* The log is what the attempts said, in order and without a gap or a      *)
(* repetition, whatever was replayed (commitRunnerEvent).                  *)
Log == INSTANCE EventLog WITH said <- said, log <- log, muted <- muted
LogImplemented == Log!Spec

(* The Runner forgets an event only once the Host has counted it, or when  *)
(* the Host has taken the Run from that attempt (acknowledge, attach).     *)
NothingForgotten ==
  held.phase \in {"running", "ending", "ended"} =>
    \A e \in said : /\ e.gen = held.gen /\ e.gen = row.gen /\ row.status = "bound"
                    /\ e.n >= row.next
                    => e \in held.kept

(* An event is never out of turn for the attempt that holds the Run: a     *)
(* refusal, which would fail the Run, only meets attempts that lost it, and*)
(* no Runner is found with fewer events than the Host.                     *)
NeverFailed == row.status # "failed"

(* However often connections are lost, no attempt is forgotten or refused  *)
(* that holds the Run.                                                     *)
JournalSound == TypeOK /\ NothingForgotten /\ NeverFailed

(* The journal empties, however often the connection is lost, unless its   *)
(* attempt loses the Run: no reordering of sends, replays and              *)
(* acknowledgements leaves the pump waiting for an event that is not there,*)
(* or the acknowledgements behind the events.                              *)
Unheard == held.kept # {} /\ row.status = "bound" /\ row.gen = held.gen
JournalDrains == Unheard ~> ~Unheard
=============================================================================
