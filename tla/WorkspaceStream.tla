--------------------------- MODULE WorkspaceStream --------------------------
(***************************************************************************)
(* packages/orchestration/src/realtime-hub.ts: one client's subscription   *)
(* to the events of a Workspace.  Events are numbered in the order they    *)
(* are committed in; the transactions that commit them publish them in any *)
(* order, or never.  The subscriber hands them to the socket strictly in   *)
(* sequence: it holds what comes early and reads from the store what does  *)
(* not come.  A frame of live progress names the event it follows and is   *)
(* sent once that event has been.                                          *)
(*                                                                         *)
(* The client is packages/client/src/host/host-session-client.ts: it drops *)
(* what is not past its cursor, takes anything else, and comes back with   *)
(* its cursor when the connection is lost.  Live progress is that of one   *)
(* Run (live-run-registry.ts); its frames are numbered.                    *)
(***************************************************************************)
EXTENDS Integers, Sequences, SequencesExt, FiniteSets, FiniteSetsExt

CONSTANTS
  MaxEvent,     \* bound of the model: events
  MaxFrame,     \* bound of the model: frames of live progress
  MaxDrop,      \* bound of the model: lost connections and failed reads
  MaxBuffered,  \* maxBufferedEvents
  MaxReplay,    \* maxReplayEvents
  MaxLive,      \* maxLiveBytes, in frames
  Hidden        \* the place events, which the client did not ask for

StreamAssumption ==
  /\ MaxEvent \in Nat /\ MaxFrame \in Nat /\ MaxDrop \in Nat
  /\ MaxBuffered \in Nat \ {0} /\ MaxReplay \in Nat \ {0} /\ MaxLive \in Nat
  /\ Hidden \subseteq 1..MaxEvent

Event == 1..MaxEvent
Shown(a, b) == (a..b) \ Hidden
Larger(a, b) == IF a < b THEN b ELSE a

VARIABLES
  committed,  \* the head of the Workspace
  published,  \* the events publish() was called with
  frames,     \* how many frames the Run has sent
  follows,    \* afterSequence of the Run
  sub,        \* the Subscriber
  client,     \* the client's channel
  drops       \* lost connections and failed reads so far

vars == <<committed, published, frames, follows, sub, client, drops>>

(* What is on #sendTail.  A whole frame replaces the stream.               *)
Events(a, b) == [kind |-> "events", from |-> a, to |-> b]
Mark(kind, s) == [kind |-> kind, to |-> s]
Frame(n, after, whole) == [kind |-> "live", n |-> n, after |-> after, whole |-> whole]

FrameSet == [kind : {"live"}, n : 1..MaxFrame, after : 0..MaxEvent, whole : BOOLEAN]
Message == [kind : {"events"}, from : Event, to : Event]
           \cup [kind : {"snapshot", "synchronized"}, to : 0..MaxEvent] \cup FrameSet

NoSub == [state |-> "none"]

NewSub(cursor) ==
  [state |-> "reading",      \* subscribe() reads; then #state
   cursor |-> cursor,        \* cursor of the replay, once read
   through |-> cursor,       \* #queuedThrough
   buffer |-> {},            \* #syncBuffer
   held |-> {},              \* #pending
   heldLive |-> <<>>,        \* #pendingLive
   tail |-> <<>>,            \* #sendTail
   timer |-> FALSE,          \* #gapTimer
   fill |-> FALSE,           \* #filling
   from |-> 0, until |-> 0,  \* #fillGap: the window it reads
   visible |-> cursor,       \* #visibleThrough
   handed |-> cursor,        \* #handedThrough
   missed |-> {}]            \* history: frames the live budget dropped

SubType ==
  [state : {"reading", "synchronizing", "live", "resync"},
   cursor : 0..MaxEvent, through : 0..MaxEvent, buffer : SUBSET Event, held : SUBSET Event,
   heldLive : Seq(FrameSet), tail : Seq(Message), timer : BOOLEAN, fill : BOOLEAN,
   from : 0..MaxEvent, until : 0..MaxEvent, visible : 0..MaxEvent, handed : 0..MaxEvent,
   missed : SUBSET (1..MaxFrame)]

QueuedEvents(s) ==
  FoldSeq(LAMBDA m, sum : sum + (IF m.kind = "events" THEN m.to - m.from + 1 ELSE 0), 0, s.tail)
QueuedLive(s) == Len(SelectSeq(s.tail, LAMBDA m : m.kind = "live"))

TypeOK ==
  /\ committed \in 0..MaxEvent /\ published \subseteq 1..committed
  /\ frames \in 0..MaxFrame /\ follows \in 0..committed /\ drops \in 0..MaxDrop
  /\ sub \in SubType \cup {NoSub}
  /\ sub # NoSub => Cardinality(sub.buffer) <= MaxBuffered
                    /\ Cardinality(sub.held) <= MaxBuffered
  /\ sub # NoSub /\ sub.state = "live" => QueuedEvents(sub) <= MaxBuffered
  /\ client \in [cursor : 0..MaxEvent, got : SUBSET Event, drawn : 0..MaxFrame,
                 held : SUBSET (0..MaxEvent)]

Init ==
  /\ committed = 0 /\ published = {} /\ frames = 0 /\ follows = 0 /\ drops = 0
  /\ sub = NoSub
  /\ client = [cursor |-> 0, got |-> {}, drawn |-> 0, held |-> {}]

-----------------------------------------------------------------------------
(* The parts of the Subscriber's methods, as functions of its state.       *)

(* resync: it is closed and the client is told to start over.              *)
Resync(s) == [NewSub(0) EXCEPT !.state = "resync"]

(* #hold, which offer and the end of synchronization share.                *)
Hold(s, events) ==
  IF Cardinality(s.held \cup events) > MaxBuffered THEN Resync(s)
  ELSE [s EXCEPT !.held = @ \cup events]

(* #takeContiguous: how far the held events continue the stream.           *)
LastContiguous(s) == Max({n \in s.through..MaxEvent : s.through + 1..n \subseteq s.held})

Taken(s, n) == [s EXCEPT !.held = @ \ (1..n), !.through = n]

(* #sendEvents                                                             *)
SendEvents(s, a, b) ==
  IF b < a THEN s
  ELSE IF QueuedEvents(s) + (b - a + 1) > MaxBuffered THEN Resync(s)
  ELSE [s EXCEPT !.tail = Append(@, Events(a, b))]

(* #sendLive                                                               *)
SendLive(s, f) ==
  IF ~f.whole /\ QueuedLive(s) >= MaxLive THEN [s EXCEPT !.missed = @ \cup {f.n}]
  ELSE [s EXCEPT !.tail = Append(@, f)]

(* #offerLiveFrame                                                         *)
OfferFrame(s, f) ==
  IF f.after <= s.through THEN SendLive(s, f)
  ELSE IF ~f.whole /\ Len(s.heldLive) >= MaxLive THEN [s EXCEPT !.missed = @ \cup {f.n}]
  ELSE [s EXCEPT !.heldLive = Append(@, f)]

(* #releaseLive                                                            *)
ReleaseLive(s) ==
  LET Waits(f) == f.after > s.through
  IN  FoldLeft(SendLive,
               [s EXCEPT !.heldLive = SelectSeq(@, Waits)],
               SelectSeq(s.heldLive, LAMBDA f : ~Waits(f)))

(* Mutant: the timer is left to the fill that is under way. *)
Scheduled_Never(s) == s

(* #scheduleGapFill                                                        *)
Scheduled(s) ==
  IF s.held = {} THEN [s EXCEPT !.timer = FALSE]
  ELSE IF s.timer \/ s.fill THEN s
  ELSE [s EXCEPT !.timer = TRUE]

(* #drain: on a closed subscriber, which overflow may leave, the rest does *)
(* nothing that is seen.                                                   *)
Drain(s) ==
  LET n == LastContiguous(s)
      sent == SendEvents(Taken(s, n), s.through + 1, n)
  IN  IF s.state # "live" THEN s ELSE Scheduled(ReleaseLive(sent))

(* offer                                                                   *)
Offer(s, e) ==
  IF e <= s.through \/ s.state = "resync" THEN s
  ELSE IF s.state # "live"
    THEN IF Cardinality(s.buffer) >= MaxBuffered THEN Resync(s)
         ELSE [s EXCEPT !.buffer = @ \cup {e}]
  ELSE Drain(Hold(s, {e}))

-----------------------------------------------------------------------------
(* The Workspace: commits, publications, live progress.                    *)

Commit ==
  /\ committed < MaxEvent /\ committed' = committed + 1
  /\ UNCHANGED <<published, frames, follows, sub, client, drops>>

Follows(e) == Larger(follows, e)

(* publishWorkspaceEvent: observeCommitted and publish, in one step.       *)
Publish(e) ==
  /\ e <= committed /\ e \notin published
  /\ published' = published \cup {e} /\ follows' = Follows(e)
  /\ sub' = IF sub = NoSub THEN NoSub ELSE Offer(sub, e)
  /\ UNCHANGED <<committed, frames, client, drops>>

(* track: a Run that resumed follows the Workspace's head.                 *)
Track ==
  /\ follows < committed /\ follows' = committed
  /\ UNCHANGED <<committed, published, frames, sub, client, drops>>

(* onLive: apply, publishLive and offerLive.                               *)
Progress ==
  /\ frames < MaxFrame /\ follows > 0 /\ frames' = frames + 1
  /\ sub' = IF sub # NoSub /\ sub.state = "live"
              THEN OfferFrame(sub, Frame(frames + 1, follows, FALSE)) ELSE sub
  /\ UNCHANGED <<committed, published, follows, client, drops>>

-----------------------------------------------------------------------------
(* The subscription.                                                       *)

(* subscribe, up to its first await: publications are offered from here.   *)
Subscribe ==
  /\ sub = NoSub /\ sub' = NewSub(client.cursor)
  /\ UNCHANGED <<committed, published, frames, follows, client, drops>>

(* It has read a snapshot, or the head and the events up to it.            *)
Read ==
  /\ sub # NoSub /\ sub.state = "reading"
  /\ sub' =
       IF sub.cursor > 0 /\ committed - sub.cursor > MaxReplay THEN Resync(sub)
       ELSE [sub EXCEPT !.state = "synchronizing", !.cursor = committed,
              !.tail = IF sub.cursor = 0 THEN <<Mark("snapshot", committed)>>
                       ELSE IF sub.cursor < committed
                         THEN <<Events(sub.cursor + 1, committed)>>
                         ELSE <<>>]
  /\ UNCHANGED <<committed, published, frames, follows, client, drops>>

(* The open streams, whole, as #offerLiveFrame takes them.                 *)
Opened(s) == IF frames = 0 THEN s ELSE OfferFrame(s, Frame(frames, follows, TRUE))

(* synchronize, each time its sends are done: what was published since is  *)
(* sent while it continues the stream, and then the subscriber is live.    *)
Synchronize ==
  /\ sub # NoSub /\ sub.state = "synchronizing" /\ sub.tail = <<>>
  /\ \E s \in {[sub EXCEPT !.through = Larger(@, sub.cursor), !.buffer = {}]} :
     \E h \in {Hold(s, {e \in sub.buffer : e > s.through})} :
     \E n \in {LastContiguous(h)} :
       sub' = IF h.state = "resync" THEN h
              ELSE IF n > h.through
                THEN [Taken(h, n) EXCEPT !.tail = <<Events(h.through + 1, n)>>]
                ELSE Drain(Opened([h EXCEPT !.state = "live",
                                            !.tail = <<Mark("synchronized", h.through)>>]))
  /\ UNCHANGED <<committed, published, frames, follows, client, drops>>

(* The gap timer: #fillGap begins to read what is before the lowest event  *)
(* that is held.                                                           *)
StartFill ==
  /\ sub # NoSub /\ sub.state = "live" /\ sub.timer
  /\ sub' = IF sub.held = {} THEN [sub EXCEPT !.timer = FALSE]
            ELSE [sub EXCEPT !.timer = FALSE, !.fill = TRUE, !.from = sub.through,
                             !.until = Min(sub.held) - 1]
  /\ UNCHANGED <<committed, published, frames, follows, client, drops>>

Fresh(s) == s.through + 1

(* #discardDelivered                                                       *)
Discard(s) == [s EXCEPT !.held = {e \in @ : e > s.through}]

(* Mutant: a window that ends before is taken for the whole. *)
Reached_Until(s, scanned) == s.until

(* #queuedThrough, once a window has been sent.                            *)
Reached(s, scanned) == Larger(s.through, scanned)

(* A window of the store, which may end before what was asked for.  When   *)
(* it does the next one begins where it ended, unless the stream has moved *)
(* past it meanwhile.                                                      *)
FillWindow(scanned) ==
  /\ sub # NoSub /\ sub.state = "live" /\ sub.fill
  /\ scanned \in sub.from + 1..sub.until
  /\ \E s \in {SendEvents(sub, Fresh(sub), scanned)} :
       LET reached == [s EXCEPT !.through = Reached(sub, scanned)]
       IN  sub' = IF s.state = "resync" THEN s
                  ELSE IF reached.through < s.until
                    THEN [reached EXCEPT !.from = reached.through]
                  ELSE Drain([Discard(reached) EXCEPT !.fill = FALSE, !.from = 0, !.until = 0])
  /\ UNCHANGED <<committed, published, frames, follows, client, drops>>

Fill == \E scanned \in Event : FillWindow(scanned)

(* The read fails or takes too long.                                       *)
FillFails ==
  /\ sub # NoSub /\ sub.state = "live" /\ sub.fill /\ drops < MaxDrop
  /\ drops' = drops + 1 /\ sub' = Resync(sub)
  /\ UNCHANGED <<committed, published, frames, follows, client>>

-----------------------------------------------------------------------------
(* The socket and the client.                                              *)

(* #send, of a frame: it waits on the last event the client has, if what   *)
(* it follows was handed on but left out.                                  *)
After(m) ==
  IF m.after > sub.visible /\ m.after <= sub.handed THEN sub.visible ELSE m.after

(* #applyEvents, of what #send leaves of a batch; #releaseHeldLive.        *)
Applied(c, events) ==
  LET new == {e \in events : e > c.cursor}
      cursor == Max({c.cursor} \cup new)
  IN  [c EXCEPT !.cursor = cursor, !.got = @ \cup new, !.held = {a \in @ : a > cursor}]

(* The next message of #sendTail reaches the client.                       *)
Deliver ==
  /\ sub # NoSub /\ sub.state \in {"synchronizing", "live"} /\ sub.tail # <<>>
  /\ LET m == Head(sub.tail)
         rest == [sub EXCEPT !.tail = Tail(@)]
         shown == IF m.kind = "events" THEN Shown(m.from, m.to) ELSE {}
     IN  \/ /\ m.kind = "snapshot"
            /\ client' = [client EXCEPT !.cursor = m.to, !.got = Shown(1, m.to)]
            /\ sub' = rest
         \/ /\ m.kind = "events" /\ client' = Applied(client, shown)
            /\ sub' = [rest EXCEPT !.handed = m.to, !.visible = Max({@} \cup shown)]
         \/ /\ m.kind = "synchronized"
            /\ client' = [client EXCEPT !.cursor = Larger(@, m.to), !.drawn = 0,
                                        !.held = {}]
            /\ sub' = [rest EXCEPT !.handed = m.to, !.visible = m.to]
         \/ /\ m.kind = "live" /\ sub' = rest
            /\ client' = [client EXCEPT !.drawn = m.n,
                            !.held = IF After(m) > client.cursor THEN @ \cup {After(m)} ELSE @]
  /\ UNCHANGED <<committed, published, frames, follows, drops>>

(* host.resync-required: the client starts over.                           *)
StartOver ==
  /\ sub # NoSub /\ sub.state = "resync"
  /\ sub' = NoSub /\ client' = [client EXCEPT !.cursor = 0]
  /\ UNCHANGED <<committed, published, frames, follows, drops>>

(* The connection is lost, and with it what is on its way.                 *)
Drop ==
  /\ sub # NoSub /\ drops < MaxDrop /\ drops' = drops + 1 /\ sub' = NoSub
  /\ UNCHANGED <<committed, published, frames, follows, client>>

Next ==
  \/ Commit \/ Track \/ Progress \/ \E e \in Event : Publish(e)
  \/ Subscribe \/ Read \/ Synchronize \/ StartFill \/ Fill \/ FillFails
  \/ Deliver \/ StartOver \/ Drop

Spec == Init /\ [][Next]_vars

(* The Host and the socket go on; nothing obliges a transaction to publish.*)
Fairness ==
  /\ WF_vars(Subscribe \/ Read \/ Synchronize \/ StartOver)
  /\ WF_vars(StartFill) /\ WF_vars(Fill) /\ WF_vars(Deliver)

LiveSpec == Spec /\ Fairness

-----------------------------------------------------------------------------
(* Properties. *)

(* The client never lets an event go by: whatever it has as its cursor, it *)
(* has had every event up to it.                                           *)
NoneMissed == client.cursor > 0 => client.got = Shown(1, client.cursor)

(* Each event is sent once: what is on its way continues what the client   *)
(* was handed, without hole or repetition, up to what the subscriber counts*)
(* as sent; and what is held then waits for an event before it.            *)
Seamless ==
  sub # NoSub /\ sub.state \in {"synchronizing", "live"} =>
    LET steps == SelectSeq(sub.tail, LAMBDA m : m.kind # "live")
        At(i) == IF i = 0 THEN Larger(sub.handed, client.cursor) ELSE steps[i].to
    IN  /\ \A i \in DOMAIN steps :
             /\ steps[i].kind = "events" => steps[i].from = At(i - 1) + 1
             /\ steps[i].kind = "synchronized" => steps[i].to = At(i - 1)
        /\ sub.state = "live" =>
             /\ At(Len(steps)) = sub.through
             /\ ~sub.fill => \A e \in sub.held : e > sub.through + 1

(* A frame never comes before an event it follows, and the client never    *)
(* has to wait for an event that will not come.                            *)
FramesFollow == client.held = {}

(* From the replacement on, frames come in order, and none is left out but *)
(* by the budget.                                                          *)
FramesInOrder ==
  sub # NoSub /\ sub.state = "live" =>
    LET queue == SelectSeq(sub.tail, LAMBDA m : m.kind = "live") \o sub.heldLive
        numbers == {queue[i].n : i \in DOMAIN queue}
        begun == IF queue # <<>> /\ Head(queue).whole THEN Head(queue).n ELSE client.drawn
    IN  /\ \A i \in DOMAIN queue : i > 1 => queue[i - 1].n < queue[i].n
        /\ \A n \in numbers : begun <= n
        /\ begun + 1..frames \subseteq numbers \cup sub.missed

(* The client is sent every event once and in order, and every frame after *)
(* the event it follows.                                                   *)
EventsInOrder == TypeOK /\ NoneMissed /\ Seamless /\ FramesFollow /\ FramesInOrder

(* All that was published reaches the client, whatever was published before*)
(* it or after, and whether or not the events in between ever are.         *)
Arrived == published \ Hidden \subseteq client.got

Arrives == <>[]Arrived
=============================================================================
