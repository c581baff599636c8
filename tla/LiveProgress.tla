---------------------------- MODULE LiveProgress ----------------------------
(***************************************************************************)
(* What a Run is saying, on its way to the reader: the Runner's buffer     *)
(* (apps/runner/src/runtime/live-progress.ts and #emitDurable of           *)
(* runtime.ts), the Host's registry (packages/orchestration/src/           *)
(* live-run-registry.ts) and the client's ledger (packages/client/src/     *)
(* host/live-progress.ts and host-session-client.ts).                      *)
(*                                                                         *)
(* One Run answers several times under one stream key.  The text of an     *)
(* answer is a sequence of units <<answer, place>>; the event that         *)
(* completes answer n is the n-th event of the Run, and the terminal event *)
(* comes after the last answer.                                            *)
(***************************************************************************)
EXTENDS Integers, Sequences, SequencesExt

CONSTANTS
  MaxAnswer,    \* bound of the model: answers
  MaxText,      \* bound of the model: units of an answer
  MaxInFlight,  \* liveMaxInFlightBytes, in items
  MaxDrop,      \* bound of the model: connections the Runner loses
  MaxLeave,     \* bound of the model: connections the client loses
  MaxMiss,      \* bound of the model: frames and replies lost on the way to it
  MaxFault      \* bound of the model: losses of all three kinds together

ASSUME ProgressAssumption ==
  /\ MaxAnswer \in Nat \ {0} /\ MaxText \in Nat \ {0} /\ MaxInFlight \in Nat \ {0}
  /\ MaxDrop \in Nat /\ MaxLeave \in Nat /\ MaxMiss \in Nat
  /\ MaxFault \in Nat

VARIABLES
  runner,  \* the Run on the Runner and its stream in the LiveProgressBuffer
  chain,   \* #tail: the items taken for sending and not yet sent
  pipe,    \* #connection, sentThrough, and whether attach() is replaying
  wire,    \* from the Runner to the Host
  host,    \* the log of the Run and the LiveRunRegistry
  link,    \* from the Host to the client
  client,  \* its channel and its LiveStreamLedger
  reread,  \* #liveRereads
  faults

vars == <<runner, chain, pipe, wire, host, link, client, reread, faults>>

Larger(a, b) == IF a < b THEN b ELSE a

Units(answer, from, to) == [i \in 1..(to - from + 1) |-> <<answer, from + i - 1>>]
Whole(answer, n) == Units(answer, 1, n)

AppendItem(at, text) == [at |-> at, text |-> text, whole |-> FALSE]
ReplaceItem(text) == [at |-> 0, text |-> text, whole |-> TRUE]
Event(n) == [kind |-> "event", n |-> n]
Sync(n) == [kind |-> "sync", n |-> n]
Live(item) == [kind |-> "live", item |-> item]
Frame(after, item) == [kind |-> "live", after |-> after, item |-> item]

(* The events emitted so far, and which of them is the terminal one.       *)
Emitted == IF runner.phase \in {"sending", "closed"} THEN runner.answer ELSE runner.answer - 1
Terminal(n) == runner.phase = "closed" /\ n = runner.answer

MoreFaults == faults.drop + faults.leave + faults.miss < MaxFault

TextSet == UNION {[1..n -> (1..MaxAnswer) \X (1..MaxText)] : n \in 0..MaxText}
Item == [at : 0..MaxText, text : TextSet, whole : BOOLEAN]
EventNumber == 1..MaxAnswer + 1

TypeOK ==
  /\ runner \in [phase : {"streaming", "flushing", "sending", "closed"}, answer : EventNumber,
                 len : 0..MaxText, pend : 0..MaxText, resync : BOOLEAN]
  /\ runner.pend <= runner.len /\ (runner.resync => runner.pend = 0)
  /\ chain \in Seq(Item) /\ Len(chain) <= MaxInFlight
  /\ pipe \in [up : BOOLEAN, sent : 0..MaxAnswer + 1, replaying : BOOLEAN]
  /\ \A i \in 1..Len(wire) : wire[i] \in [kind : {"event"}, n : EventNumber]
                                         \cup [kind : {"live"}, item : Item]
  /\ host \in [committed : 0..Emitted, text : TextSet, ended : BOOLEAN]
  /\ \A i \in 1..Len(link) :
       link[i] \in [kind : {"event", "sync"}, n : 0..host.committed]
                   \cup [kind : {"live"}, after : 0..host.committed, item : Item]
  /\ client.cursor \in 0..host.committed /\ client.tomb \in 0..host.committed
  /\ client.opened \in 0..host.committed /\ client.text \in TextSet
  /\ client.up \in BOOLEAN /\ client.ended \in BOOLEAN
  /\ reread.state \in {"none", "due", "asked"}
  /\ faults.drop \in 0..MaxDrop /\ faults.leave \in 0..MaxLeave /\ faults.miss \in 0..MaxMiss

Init ==
  /\ runner = [phase |-> "streaming", answer |-> 1, len |-> 0, pend |-> 0, resync |-> FALSE]
  /\ chain = <<>> /\ wire = <<>> /\ link = <<>>
  /\ pipe = [up |-> TRUE, sent |-> 0, replaying |-> FALSE]
  /\ host = [committed |-> 0, text |-> <<>>, ended |-> FALSE]
  /\ client = [up |-> TRUE, cursor |-> 0, text |-> <<>>, opened |-> 0, tomb |-> 0,
               ended |-> FALSE, held |-> <<>>]
  /\ reread = [state |-> "none", reply |-> <<>>, valid |-> FALSE, again |-> FALSE]
  /\ faults = [drop |-> 0, leave |-> 0, miss |-> 0]

-----------------------------------------------------------------------------
(* The Runner.                                                             *)

Unsent(r) == r.pend > 0 \/ r.resync

(* #takePending                                                            *)
Take(r) ==
  IF r.resync THEN ReplaceItem(Whole(r.answer, r.len))
  ELSE AppendItem(r.len - r.pend, Units(r.answer, r.len - r.pend + 1, r.len))

(* flush().  While the connection is behind, what was not sent is dropped, *)
(* and the stream stated whole once it has caught up.                      *)
FlushTo(r) ==
  IF Len(chain) >= MaxInFlight
  THEN /\ runner' = [r EXCEPT !.pend = 0, !.resync = Unsent(r)]
       /\ UNCHANGED chain
  ELSE IF Unsent(r)
  THEN /\ runner' = [r EXCEPT !.pend = 0, !.resync = FALSE]
       /\ chain' = Append(chain, Take(r))
  ELSE runner' = r /\ UNCHANGED chain

(* append(): the harness says one more unit.                               *)
Say ==
  /\ runner.phase = "streaming" /\ runner.answer <= MaxAnswer /\ runner.len < MaxText
  /\ runner' = [runner EXCEPT !.len = @ + 1, !.pend = IF runner.resync THEN 0 ELSE @ + 1]
  /\ UNCHANGED <<chain, pipe, wire, host, link, client, reread, faults>>

(* The clock of the buffer, its byte limit, or the end of a send.          *)
Flush ==
  /\ runner.phase # "closed" /\ Unsent(runner)
  /\ FlushTo(runner)
  /\ UNCHANGED <<pipe, wire, host, link, client, reread, faults>>

(* #emitDurable: it waits for the text before the event.                   *)
EndAnswer ==
  /\ runner.phase = "streaming" /\ runner.len > 0
  /\ FlushTo([runner EXCEPT !.phase = "flushing"])
  /\ UNCHANGED <<pipe, wire, host, link, client, reread, faults>>

(* Mutant: the event is emitted while its text is being sent. *)
Flushed_Taken == ~Unsent(runner)

Flushed == ~Unsent(runner) /\ chain = <<>>

(* #emit: into the journal.                                                *)
Emit ==
  /\ runner.phase = "flushing" /\ Flushed
  /\ runner' = [runner EXCEPT !.phase = "sending"]
  /\ UNCHANGED <<chain, pipe, wire, host, link, client, reread, faults>>

(* #pumpJournal has come to its end: pumps follow one another.             *)
Pumped == ~pipe.replaying /\ (pipe.up => pipe.sent = Emitted)

(* complete(): the next text starts a new stream.                          *)
Forgotten(r) ==
  [phase |-> "streaming", answer |-> r.answer + 1, len |-> 0, pend |-> 0, resync |-> FALSE]

Complete ==
  /\ runner.phase = "sending" /\ Pumped
  /\ runner' = Forgotten(runner)
  /\ UNCHANGED <<chain, pipe, wire, host, link, client, reread, faults>>

(* #settleLiveStreams and the terminal event: an open answer is emitted    *)
(* first, as any other.                                                    *)
Finish ==
  /\ runner.phase = "streaming" /\ runner.len = 0 /\ chain = <<>>
  /\ runner' = [runner EXCEPT !.phase = "closed"]
  /\ UNCHANGED <<chain, pipe, wire, host, link, client, reread, faults>>

(* #sendBatches and #transmit: without a connection the item is lost.      *)
SendItem ==
  /\ chain # <<>>
  /\ chain' = Tail(chain)
  /\ wire' = IF pipe.up THEN Append(wire, Live(Head(chain))) ELSE wire
  /\ UNCHANGED <<runner, pipe, host, link, client, reread, faults>>

(* #pumpJournal sends the next event of the journal.                       *)
SendEvent ==
  /\ pipe.up /\ pipe.sent < Emitted
  /\ pipe' = [pipe EXCEPT !.sent = @ + 1]
  /\ wire' = Append(wire, Event(pipe.sent + 1))
  /\ UNCHANGED <<runner, chain, host, link, client, reread, faults>>

(* resynchronize()                                                         *)
Resynchronized(r) == [r EXCEPT !.pend = 0, !.resync = r.len > 0]

(* attach: the replay has been sent, and each stream is stated whole.      *)
ReplayEnds ==
  /\ pipe.replaying /\ pipe.sent = Emitted
  /\ pipe' = [pipe EXCEPT !.replaying = FALSE]
  /\ IF runner.phase = "closed" THEN UNCHANGED <<runner, chain>>
     ELSE FlushTo(Resynchronized(runner))
  /\ UNCHANGED <<wire, host, link, client, reread, faults>>

(* The connection is lost, and all that was on it.  A replay that was      *)
(* under way ends, and what it states then is lost as well.                *)
Lose ==
  /\ pipe.up /\ faults.drop < MaxDrop /\ MoreFaults
  /\ pipe' = [pipe EXCEPT !.up = FALSE, !.replaying = FALSE]
  /\ runner' = IF pipe.replaying THEN [runner EXCEPT !.pend = 0, !.resync = FALSE] ELSE runner
  /\ wire' = <<>>
  /\ faults' = [faults EXCEPT !.drop = @ + 1]

LoseConnection == Lose /\ UNCHANGED <<chain, host, link, client, reread>>

(* The Host says how far it has committed.                                 *)
Attach ==
  /\ ~pipe.up
  /\ pipe' = [up |-> TRUE, sent |-> host.committed, replaying |-> TRUE]
  /\ UNCHANGED <<runner, chain, wire, host, link, client, reread, faults>>

-----------------------------------------------------------------------------
(* The Host.                                                               *)

(* An append is taken where it continues what is held.                     *)
Continues(text, item) == item.at <= Len(text) /\ item.at + Len(item.text) > Len(text)

(* The part of an append that is not held yet.                             *)
Rest(text, item) ==
  AppendItem(Len(text), SubSeq(item.text, Len(text) - item.at + 1, Len(item.text)))

(* commitRunnerEvent and observeCommitted                                  *)
Committed(h) ==
  [committed |-> h.committed + 1, text |-> <<>>, ended |-> Terminal(h.committed + 1)]

Published(m) == IF client.up THEN Append(link, m) ELSE link

HearEvent ==
  /\ wire # <<>> /\ Head(wire).kind = "event"
  /\ wire' = Tail(wire)
  /\ host' = Committed(host)
  /\ link' = Published(Event(Head(wire).n))
  /\ UNCHANGED <<runner, chain, pipe, client, reread, faults>>

(* LiveRunRegistry.apply.  What is forwarded the subscriber may drop, for  *)
(* the bytes it holds; what replaces a stream it does not.                 *)
Forward(item) ==
  /\ host' = [host EXCEPT !.text = IF item.whole THEN item.text ELSE @ \o item.text]
  /\ \/ /\ link' = Published(Frame(host.committed, item))
        /\ UNCHANGED faults
     \/ /\ ~item.whole /\ client.up /\ faults.miss < MaxMiss /\ MoreFaults
        /\ faults' = [faults EXCEPT !.miss = @ + 1]
        /\ UNCHANGED link

HearItem ==
  /\ wire # <<>> /\ Head(wire).kind = "live"
  /\ wire' = Tail(wire)
  /\ LET item == Head(wire).item
     IN  IF ~host.ended /\ item.whole THEN Forward(item)
         ELSE IF ~host.ended /\ Continues(host.text, item) THEN Forward(Rest(host.text, item))
         ELSE UNCHANGED <<host, link, faults>>
  /\ UNCHANGED <<runner, chain, pipe, client, reread>>

(* workspaceFrames and threadFrames                                        *)
Frames ==
  IF host.text = <<>> THEN <<>> ELSE <<Frame(host.committed, ReplaceItem(host.text))>>

(* The Host restarts: the registry is empty, and so is every connection.   *)
RestartHost ==
  /\ Lose
  /\ host' = [host EXCEPT !.text = <<>>]
  /\ client' = [client EXCEPT !.up = FALSE] /\ link' = <<>>
  /\ UNCHANGED <<chain, reread>>

-----------------------------------------------------------------------------
(* The client.  draw and complete return the client they leave.            *)

(* Mutant: a late reply is drawn over what came since. *)
Shorter_No(c, item) == FALSE

(* A replacement never takes a stream back.                                *)
Shorter(c, item) == Len(item.text) < Len(c.text)

(* A Run that has ended, or a frame older than the stream's completion.    *)
Closed(c, f) == c.ended \/ f.after < c.tomb

Gap(c, f) == ~Closed(c, f) /\ ~f.item.whole /\ f.item.at > Len(c.text)

(* LiveStreamLedger.apply                                                  *)
Drawn(c, f) ==
  LET opened == IF c.text = <<>> THEN f.after ELSE c.opened
  IN  IF Closed(c, f) THEN c
      ELSE IF f.item.whole
      THEN IF Shorter(c, f.item) THEN c
           ELSE [c EXCEPT !.text = f.item.text, !.opened = opened]
      ELSE IF Continues(c.text, f.item)
      THEN [c EXCEPT !.text = @ \o Rest(c.text, f.item).text, !.opened = opened]
      ELSE c

(* A completion older than the open stream is another stream's.            *)
Ends(c, n) == c.opened < n

(* LiveStreamLedger.complete                                               *)
Completed(c, n) ==
  IF c.ended THEN c
  ELSE IF Terminal(n)
  THEN [c EXCEPT !.text = <<>>, !.opened = 0, !.tomb = 0, !.ended = TRUE]
  ELSE LET t == [c EXCEPT !.tomb = Larger(@, n)]
       IN  IF Ends(c, n) THEN [t EXCEPT !.text = <<>>, !.opened = 0] ELSE t

(* #scheduleLiveRefresh                                                    *)
Scheduled(r) ==
  CASE r.state = "none" -> [r EXCEPT !.state = "due"]
    [] r.state = "asked" -> [r EXCEPT !.again = TRUE]
    [] OTHER -> r

(* #drawLive of several frames, and what they leave of the reread.         *)
Draw(c, fs, r) ==
  LET cs[i \in 0..Len(fs)] == IF i = 0 THEN c ELSE Drawn(cs[i - 1], fs[i])
  IN  /\ client' = cs[Len(fs)]
      /\ reread' = IF \E i \in 1..Len(fs) : Gap(cs[i - 1], fs[i]) THEN Scheduled(r) ELSE r

(* #applyLive holds a frame until the events it follows have come.         *)
Waits(c, f) == f.after > c.cursor

(* #applyEvents                                                            *)
TakeEvent(n) ==
  LET c == [Completed(client, n) EXCEPT !.cursor = n]
      Still(f) == Waits(c, f)
  IN  IF n <= client.cursor THEN UNCHANGED <<client, reread>>
      ELSE Draw([c EXCEPT !.held = SelectSeq(@, Still)],
                SelectSeq(c.held, LAMBDA f : ~Still(f)), reread)

(* liveGenerations: what was asked before is of another subscription.      *)
Renewed(r) == [r EXCEPT !.valid = FALSE]

(* host.synchronized: the streams come whole after it.                     *)
TakeSync(n) ==
  /\ client' = [client EXCEPT !.cursor = Larger(@, n), !.text = <<>>, !.opened = 0,
                              !.tomb = 0, !.held = <<>>]
  /\ reread' = IF client.text = <<>> THEN Renewed(reread) ELSE Scheduled(Renewed(reread))

Receive ==
  /\ client.up /\ link # <<>>
  /\ link' = Tail(link)
  /\ LET m == Head(link)
     IN  \/ m.kind = "event" /\ TakeEvent(m.n)
         \/ m.kind = "sync" /\ TakeSync(m.n)
         \/ m.kind = "live" /\ ~Waits(client, m) /\ Draw(client, <<m>>, reread)
         \/ /\ m.kind = "live" /\ Waits(client, m)
            /\ client' = [client EXCEPT !.held = Append(@, m)]
            /\ UNCHANGED reread
  /\ UNCHANGED <<runner, chain, pipe, wire, host, faults>>

Leave ==
  /\ client.up /\ faults.leave < MaxLeave /\ MoreFaults
  /\ client' = [client EXCEPT !.up = FALSE]
  /\ link' = <<>>
  /\ faults' = [faults EXCEPT !.leave = @ + 1]
  /\ UNCHANGED <<runner, chain, pipe, wire, host, reread>>

(* A new socket: the events after the cursor, and then the open streams.   *)
Return ==
  /\ ~client.up
  /\ client' = [client EXCEPT !.up = TRUE, !.held = <<>>]
  /\ reread' = Renewed(reread)
  /\ link' = [i \in 1..host.committed - client.cursor |-> Event(client.cursor + i)]
             \o <<Sync(host.committed)>> \o Frames
  /\ UNCHANGED <<runner, chain, pipe, wire, host, faults>>

(* thread.live.get: the Host answers, and the answer is under way.         *)
Ask ==
  /\ reread.state = "due"
  /\ reread' = [state |-> "asked", reply |-> Frames, valid |-> TRUE, again |-> FALSE]
  /\ UNCHANGED <<runner, chain, pipe, wire, host, link, client, faults>>

Settled(r) == [state |-> IF r.again THEN "due" ELSE "none", reply |-> <<>>,
               valid |-> FALSE, again |-> FALSE]

Answer ==
  /\ reread.state = "asked"
  /\ IF ~reread.valid \/ reread.reply = <<>>
     THEN reread' = Settled(reread) /\ UNCHANGED client
     ELSE LET f == Head(reread.reply)
          IN  IF Waits(client, f)
              THEN /\ client' = [client EXCEPT !.held = Append(@, f)]
                   /\ reread' = Settled(reread)
              ELSE Draw(client, <<f>>, Settled(reread))
  /\ UNCHANGED <<runner, chain, pipe, wire, host, link, faults>>

LoseAnswer ==
  /\ reread.state = "asked" /\ faults.miss < MaxMiss /\ MoreFaults
  /\ reread' = Settled(reread)
  /\ faults' = [faults EXCEPT !.miss = @ + 1]
  /\ UNCHANGED <<runner, chain, pipe, wire, host, link, client>>

(* A page of history is read: it may be ahead of the stream of events, or  *)
(* behind it.                                                              *)
Hydrate(n) ==
  /\ n <= host.committed
  /\ client' = Completed(client, n)
  /\ client' # client
  /\ UNCHANGED <<runner, chain, pipe, wire, host, link, reread, faults>>

Next ==
  \/ Say \/ Flush \/ EndAnswer \/ Emit \/ Complete \/ Finish
  \/ SendItem \/ SendEvent \/ ReplayEnds \/ LoseConnection \/ Attach
  \/ HearEvent \/ HearItem \/ RestartHost
  \/ Receive \/ Leave \/ Return \/ Ask \/ Answer \/ LoseAnswer
  \/ \E n \in EventNumber : Hydrate(n)

Spec == Init /\ [][Next]_vars

(* Nothing makes the harness speak, a connection break or a page be read.  *)
Fairness ==
  /\ WF_vars(Flush) /\ WF_vars(Emit) /\ WF_vars(Complete)
  /\ WF_vars(SendItem) /\ WF_vars(SendEvent) /\ WF_vars(ReplayEnds) /\ WF_vars(Attach)
  /\ WF_vars(HearEvent) /\ WF_vars(HearItem)
  /\ WF_vars(Receive) /\ WF_vars(Return) /\ WF_vars(Ask) /\ WF_vars(Answer)

LiveSpec == Spec /\ Fairness

-----------------------------------------------------------------------------
Of(answer, text) == text = Whole(answer, Len(text))

(* While the Runner keeps its connection, what the Host holds is the       *)
(* beginning of the answer after the last one committed: frames sent       *)
(* behind a slow connection, dropped and replaced, never leave a hole in   *)
(* it and never mix two answers.                                           *)
HostFollows ==
  faults.drop = 0 => Of(host.committed + 1, host.text) /\ (host.ended => host.text = <<>>)

(* And what the client draws is the beginning of the answer after the last *)
(* event it applied, whatever frames it missed, however late a reread is   *)
(* answered, and wherever the history it read stands.                      *)
ClientFollows == faults.drop = 0 => Of(client.cursor + 1, client.text)

(* "A replacement never takes a stream back": what is drawn of an answer   *)
(* grows until the answer is completed or the client subscribes again.     *)
NeverTakenBack ==
  [][\/ Len(client'.text) >= Len(client.text)
     \/ client'.cursor > client.cursor \/ client'.tomb > client.tomb \/ client'.ended
     \/ link # <<>> /\ Head(link).kind = "sync" /\ link' = Tail(link)]_vars

(* Nothing is drawn of a Run once the client has learnt that it ended.     *)
EndedIsClean ==
  runner.phase = "closed" /\ client.cursor = runner.answer => client.text = <<>>

(* Words that reach the Host after the event that completes them.          *)
Overtaken == \E i \in 1..Len(host.text) : host.text[i][1] <= host.committed

Quiet ==
  /\ pipe.up /\ ~pipe.replaying /\ pipe.sent = Emitted
  /\ chain = <<>> /\ wire = <<>> /\ ~Unsent(runner) /\ runner.phase = "streaming"

(* After a lost connection or a restart of the Host, once the Run's events *)
(* are replayed and nothing is under way, the Host holds the open stream   *)
(* exactly, unless a completion was overtaken.                             *)
Restated == Quiet => Overtaken \/ host.text = Whole(runner.answer, runner.len)

(* Neither the Host nor the reader holds anything but the beginning of the *)
(* answer that is being said.                                              *)
ProgressFollows == TypeOK /\ HostFollows /\ ClientFollows /\ Restated /\ EndedIsClean

(* When the harness falls silent, what it said comes to be drawn: a stream *)
(* dropped behind a slow connection or lost with the client's socket is    *)
(* made good.  (The last frame before a silence may be missed for good, and*)
(* after a lost connection of the Runner an answer may be Overtaken.)      *)
Arrived ==
  faults.drop = 0 /\ faults.miss = 0 =>
    /\ client.cursor = Emitted
    /\ client.text = IF runner.phase = "streaming" THEN Whole(runner.answer, runner.len)
                     ELSE <<>>

Arrives == <>[]Arrived
=============================================================================
