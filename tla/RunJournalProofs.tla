-------------------------- MODULE RunJournalProofs --------------------------
(***************************************************************************)
(* The log of a Run implements EventLog, for every number of attempts,     *)
(* ordinals and sockets: it records what the attempts said, in their order,*)
(* each event once, and of the attempt that holds the Run it skips none,   *)
(* whatever is lost, replayed or committed late.                           *)
(*                                                                         *)
(* Commit asks only for the Host's next ordinal under the Run's binding.   *)
(* That the event with this ordinal is the next the attempt said takes     *)
(* what Faithful adds: an attempt begins with the ordinal the Host waits   *)
(* for (DownOK), never falls behind it (SaidOK), and everything that       *)
(* travels was said (UpOK).                                                *)
(*                                                                         *)
(* And the attempt that holds the Run is safe: the Runner forgets none of  *)
(* its events before the Host has counted it, and the Host neither refuses *)
(* one of them nor fails the attempt at a reconnect. For that Sound        *)
(* (section 8) says in what order events stand on a connection: each is    *)
(* preceded by the one before it, on the lane, in the queue or recorded.   *)
(***************************************************************************)
EXTENDS RunJournal, SequenceTheorems, TLAPS

Peers == [state : {"none", "up", "attached", "gone"}, owned : 0..MaxGen,
          revoked : BOOLEAN, acked : -1..MaxOrdinal, doing : Event \cup {None},
          stage : {"idle", "taken", "refused"}]

Rows == [status : {"queued", "bound", "ended", "failed"}, gen : 0..MaxGen,
         next : 0..MaxOrdinal, lost : 0..MaxGen]

Executions == [phase : Phase, gen : 0..MaxGen, next : 0..MaxOrdinal,
               kept : SUBSET Event, sent : Int]

-----------------------------------------------------------------------------
(* 1. The invariant. *)

(* An event as it travels. *)
Carries(f) == [gen |-> f.gen, n |-> f.n, kind |-> f.kind]

(* The types, but for what the Runner counts as sent, which the log does   *)
(* not depend on.                                                          *)
Typed ==
  /\ held \in Executions /\ sock \in 0..MaxSocket /\ conn \in {0, sock}
  /\ up \in [Socket -> Seq(FrameSet)] /\ down \in [Socket -> Seq(FrameSet)]
  /\ peer \in [Socket -> Peers] /\ row \in Rows
  /\ muted \subseteq Gen /\ said \subseteq Event /\ log \in Seq(Event)

(* What the attempts said: each ordinal once, by attempts that were bound. *)
(* The one the Runner holds says its next event after the others, and had  *)
(* not ended if it still runs.                                             *)
SaidOK ==
  /\ \A e, f \in said : e.gen = f.gen /\ e.n = f.n => e = f
  /\ \A e \in said : e.gen <= row.gen
  /\ held.kept \subseteq said
  /\ held.phase = "none" => held.kept = {} /\ held.gen = 0
  /\ held.phase # "none" => held.gen \in 1..row.gen
  /\ \A e \in said : e.gen = held.gen =>
       e.n < held.next /\ (held.phase = "running" => e.kind = "note")
  /\ row.status = "bound" => row.gen \in Gen
  /\ held.gen = row.gen /\ held.phase # "none" => row.next <= held.next

(* The sockets are opened one after another. *)
OpenedInOrder == \E k \in 0..MaxSocket : \A s \in Socket : Opened(s) <=> s <= k

(* What is on its way to the Host was said. *)
UpOK ==
  \A s \in Socket :
    /\ peer[s].stage # "idle" => peer[s].doing \in said /\ Opened(s)
    /\ peer[s].state = "attached" => \A i \in 1..Len(up[s]) : Carries(up[s][i]) \in said
    /\ peer[s].state = "up" =>
         up[s] # <<>> /\ \A i \in 2..Len(up[s]) : Carries(up[s][i]) \in said

(* Attempts begin in their order, each before it has said anything, and the *)
(* one that is bound with the Host's next ordinal.                         *)
Begins(s, i) == i \in 1..Len(down[s]) /\ down[s][i].type = "execute"

DownOK ==
  \A s \in Socket :
    /\ s # sock => down[s] = <<>>
    /\ \A i \in 1..Len(down[s]) : Begins(s, i) =>
         /\ down[s][i].gen \in 1..row.gen /\ held.gen < down[s][i].gen
         /\ down[s][i].n >= 0
         /\ \A e \in said : e.gen < down[s][i].gen
         /\ down[s][i].gen = row.gen => down[s][i].n = row.next
    /\ \A i, j \in 1..Len(down[s]) : Begins(s, i) /\ Begins(s, j) /\ i < j =>
         down[s][i].gen < down[s][j].gen

(* What is recorded was said, up to the Host's next ordinal, and of the    *)
(* attempt that holds the Run nothing is missing, unless it is muted.      *)
LogOK ==
  /\ \A e \in Stored : e \in said /\ e.gen <= row.gen /\ e.n < row.next
  /\ row.status \in {"queued", "bound"} => \A e \in Stored : e.kind = "note"
  /\ row.status = "bound" /\ row.gen \notin muted =>
       \A e \in said : e.gen = row.gen /\ e.n < row.next => e \in Stored

Faithful == Typed /\ SaidOK /\ OpenedInOrder /\ UpOK /\ DownOK /\ LogOK

(* A step of the log, as EventLog sees it. *)
LogStep == [Log!Next]_(Log!vars)

-----------------------------------------------------------------------------
(* 2. Queues of frames. *)

LEMMA Bounds == /\ 0 \in 0..MaxGen /\ -1 \in -1..MaxOrdinal /\ 0 \in 0..MaxOrdinal
                /\ \A s \in Socket : s \in 0..MaxSocket /\ s # 0
                /\ \A g \in Gen : g \in 0..MaxGen
                /\ \A e \in Event : e.n + 1 \in 0..MaxOrdinal /\ e.n \in -1..MaxOrdinal
  BY BoundAssumption DEF Socket, Gen, Event

(* A frame is written behind the others. *)
LEMMA Pushed ==
  ASSUME NEW q \in [Socket -> Seq(FrameSet)], NEW s \in Socket, NEW x \in FrameSet, NEW p,
         p = [q EXCEPT ![s] = Append(@, x)] \/ p = [q EXCEPT ![s] = @ \o <<x>>]
  PROVE  /\ p \in [Socket -> Seq(FrameSet)] /\ \A t \in Socket : t # s => p[t] = q[t]
         /\ Len(q[s]) \in Nat /\ Len(p[s]) = Len(q[s]) + 1 /\ p[s][Len(q[s]) + 1] = x
         /\ \A i \in 1..Len(q[s]) : p[s][i] = q[s][i]
<1>1. q[s] \in Seq(FrameSet) /\ Len(q[s]) \in Nat
  BY LenProperties
<1>2. PICK z : (z = Append(q[s], x) \/ z = q[s] \o <<x>>) /\ p = [q EXCEPT ![s] = z]
  OBVIOUS
<1>3. z = Append(q[s], x)
  BY <1>1, <1>2, AppendIsConcat
<1>4. /\ z \in Seq(FrameSet) /\ Len(z) = Len(q[s]) + 1 /\ z[Len(q[s]) + 1] = x
      /\ \A i \in 1..Len(q[s]) : z[i] = q[s][i]
  BY <1>1, <1>3, AppendProperties
<1> QED
  BY <1>1, <1>2, <1>4

(* The first frame is read. *)
LEMMA Popped ==
  ASSUME NEW q \in [Socket -> Seq(FrameSet)], NEW s \in Socket, q[s] # <<>>, NEW p,
         p = [q EXCEPT ![s] = Tail(@)]
  PROVE  /\ p \in [Socket -> Seq(FrameSet)] /\ \A t \in Socket : t # s => p[t] = q[t]
         /\ Len(q[s]) \in Nat \ {0} /\ Head(q[s]) = q[s][1] /\ Head(q[s]) \in FrameSet
         /\ Len(p[s]) = Len(q[s]) - 1 /\ \A i \in 1..Len(p[s]) : p[s][i] = q[s][i + 1]
<1>1. q[s] \in Seq(FrameSet) /\ Len(q[s]) \in Nat \ {0} /\ Head(q[s]) = q[s][1]
  BY EmptySeq
<1>2. /\ Head(q[s]) \in FrameSet /\ Tail(q[s]) \in Seq(FrameSet) /\ Len(Tail(q[s])) = Len(q[s]) - 1
      /\ \A i \in 1..Len(Tail(q[s])) : Tail(q[s])[i] = q[s][i + 1]
  BY <1>1, HeadTailProperties
<1>3. p[s] = Tail(q[s])
  OBVIOUS
<1> QED
  BY <1>1, <1>2, <1>3

LEMMA Cleared ==
  ASSUME NEW q \in [Socket -> Seq(FrameSet)], NEW s \in Socket, NEW p, p = [q EXCEPT ![s] = <<>>]
  PROVE  /\ p \in [Socket -> Seq(FrameSet)] /\ p[s] = <<>>
         /\ \A t \in Socket : t # s => p[t] = q[t]
  BY EmptySeq

LEMMA NoFrames == <<>> \in Seq(FrameSet) /\ Len(<<>>) = 0
  BY EmptySeq

-----------------------------------------------------------------------------
(* 3. What steps do to the parts of the invariant. *)

(* What becomes of the Run's row, but for a dispatch: its attempt stays,   *)
(* none is bound anew, and the ordinal goes on by an event that was said.  *)
RowMoves ==
  /\ row' \in Rows /\ row'.gen = row.gen /\ (row'.status = "bound" => row.status = "bound")
  /\ \/ row'.next = row.next
     \/ \E e \in said : e.gen = row.gen /\ e.n = row.next /\ row'.next = row.next + 1
  /\ muted' \subseteq Gen /\ log' \in Seq(Event)

(* The Runner holds on to what it held, or to less. *)
Fewer ==
  \/ held' = held
  \/ held' = NotHeld
  \/ /\ held' \in Executions /\ held'.gen = held.gen /\ held'.next = held.next
     /\ held'.kept \subseteq held.kept
     /\ held'.phase = "none" <=> held.phase = "none"
     /\ held'.phase = "running" => held.phase = "running"

LEMMA NotHeldTyped == NotHeld \in Executions /\ NotHeld.gen = 0 /\ NotHeld.kept = {}
                      /\ NotHeld.phase = "none"
  BY Bounds DEF NotHeld, Executions, Phase

LEMMA FewerTyped == ASSUME Typed, Fewer PROVE held' \in Executions
  BY NotHeldTyped DEF Typed, Fewer

LEMMA SaidKept ==
  ASSUME Faithful, said' = said, Fewer, RowMoves PROVE SaidOK'
<1>1. /\ held' \in Executions /\ held \in Executions /\ row \in Rows /\ row' \in Rows
      /\ said \subseteq Event
  BY FewerTyped DEF Faithful, Typed, RowMoves
<1>2. held'.kept \subseteq said /\ (held'.phase = "none" => held'.kept = {} /\ held'.gen = 0)
  BY NotHeldTyped DEF Faithful, SaidOK, Fewer
<1>3. held'.phase # "none" => /\ held.phase # "none" /\ held'.gen = held.gen
                              /\ held'.next = held.next
                              /\ (held'.phase = "running" => held.phase = "running")
  BY NotHeldTyped DEF Fewer
<1>4. \A e \in said : e.gen = held'.gen =>
        e.n < held'.next /\ (held'.phase = "running" => e.kind = "note")
  <2>1. \A e \in said : e.gen # 0
    BY <1>1 DEF Event, Gen
  <2> QED
    BY <2>1, NotHeldTyped DEF Faithful, SaidOK, Fewer
<1>5. held'.gen = row'.gen /\ held'.phase # "none" => row'.next <= held'.next
  <2> SUFFICES ASSUME held'.gen = row'.gen, held'.phase # "none" PROVE row'.next <= held'.next
    OBVIOUS
  <2>1. row.next <= held.next /\ held.gen = row.gen /\ held'.next = held.next
    BY <1>3 DEF Faithful, SaidOK, RowMoves
  <2>2. CASE row'.next = row.next
    BY <2>1, <2>2
  <2>3. ASSUME NEW e \in said, e.gen = row.gen, e.n = row.next, row'.next = row.next + 1
        PROVE  row'.next <= held'.next
    <3>1. e.n < held.next
      BY <2>1, <2>3 DEF Faithful, SaidOK
    <3> QED
      BY <1>1, <2>1, <2>3, <3>1 DEF Rows, Executions
  <2> QED
    BY <2>2, <2>3 DEF RowMoves
<1> QED
  BY <1>2, <1>3, <1>4, <1>5 DEF Faithful, SaidOK, RowMoves

(* A queue of the Runner loses its first frame, or all, or grows by frames *)
(* that begin no attempt.                                                  *)
Queues ==
  /\ down' \in [Socket -> Seq(FrameSet)]
  /\ \A s \in Socket :
       /\ s # sock' => down'[s] = <<>>
       /\ \E d \in {0, 1} : \A i \in 1..Len(down'[s]) : down'[s][i].type = "execute" =>
            i + d \in 1..Len(down[s]) /\ down'[s][i] = down[s][i + d]

LEMMA DownKept ==
  ASSUME Faithful, Queues, row'.gen = row.gen,
         row'.next # row.next => \E e \in said : e.gen = row.gen,
         \A e \in said' : e \in said \/ e.gen = held.gen,
         held' \in Executions, held'.gen <= held.gen
  PROVE  DownOK'
<1>1. /\ held.gen \in Int /\ row.gen \in Int /\ down \in [Socket -> Seq(FrameSet)]
      /\ \A e \in said : e.gen \in Int
  BY DEF Faithful, Typed, Executions, Rows, Event, Gen
<1> SUFFICES ASSUME NEW s \in Socket
             PROVE  /\ s # sock' => down'[s] = <<>>
                    /\ \A i \in 1..Len(down'[s]) : Begins(s, i)' =>
                         /\ down'[s][i].gen \in 1..row'.gen /\ held'.gen < down'[s][i].gen
                         /\ down'[s][i].n >= 0
                         /\ \A e \in said' : e.gen < down'[s][i].gen
                         /\ down'[s][i].gen = row'.gen => down'[s][i].n = row'.next
                    /\ \A i, j \in 1..Len(down'[s]) :
                         Begins(s, i)' /\ Begins(s, j)' /\ i < j =>
                           down'[s][i].gen < down'[s][j].gen
  BY DEF DownOK
<1>2. PICK d \in {0, 1} : \A i \in 1..Len(down'[s]) : down'[s][i].type = "execute" =>
        i + d \in 1..Len(down[s]) /\ down'[s][i] = down[s][i + d]
  BY DEF Queues
<1>3. ASSUME NEW i \in 1..Len(down'[s]), Begins(s, i)'
      PROVE  Begins(s, i + d) /\ i + d \in 1..Len(down[s]) /\ down'[s][i] = down[s][i + d]
  BY <1>2, <1>3 DEF Begins
<1>4. ASSUME NEW i \in 1..Len(down'[s]), Begins(s, i)'
      PROVE  /\ down'[s][i].gen \in 1..row'.gen /\ held'.gen < down'[s][i].gen
             /\ down'[s][i].n >= 0
             /\ \A e \in said' : e.gen < down'[s][i].gen
             /\ down'[s][i].gen = row'.gen => down'[s][i].n = row'.next
  <2> DEFINE f == down[s][i + d]
  <2>1. down'[s][i] = f
    BY <1>3, <1>4
  <2>2. /\ f.gen \in 1..row.gen /\ held.gen < f.gen /\ f.n >= 0
        /\ \A e \in said : e.gen < f.gen
        /\ f.gen = row.gen => f.n = row.next
    BY <1>3, <1>4 DEF Faithful, DownOK
  <2> HIDE DEF f
  <2>3. held'.gen < f.gen
    <3>1. held'.gen \in Int
      BY DEF Executions
    <3> QED
      BY <1>1, <2>2, <3>1
  <2>4. \A e \in said' : e.gen < f.gen
    BY <1>1, <2>2
  <2>5. f.gen = row.gen => f.n = row'.next
    BY <1>1, <2>2
  <2> QED
    BY <2>1, <2>2, <2>3, <2>4, <2>5
<1>5. \A i, j \in 1..Len(down'[s]) : Begins(s, i)' /\ Begins(s, j)' /\ i < j =>
        down'[s][i].gen < down'[s][j].gen
  <2> SUFFICES ASSUME NEW i \in 1..Len(down'[s]), NEW j \in 1..Len(down'[s]),
                      Begins(s, i)', Begins(s, j)', i < j
               PROVE  down'[s][i].gen < down'[s][j].gen
    OBVIOUS
  <2>1. i + d < j + d
    OBVIOUS
  <2> QED
    BY <1>3, <2>1 DEF Faithful, DownOK
<1> QED
  BY <1>4, <1>5 DEF Queues

(* What travels to the Host stays, or is lost with its connection, and a   *)
(* lane keeps its event or is done with it.                                *)
UpStays ==
  /\ up' \in [Socket -> Seq(FrameSet)] /\ peer' \in [Socket -> Peers]
  /\ \A s \in Socket :
       /\ Opened(s)' <=> Opened(s)
       /\ peer'[s].state = "gone" \/ (peer'[s].state = peer[s].state /\ up'[s] = up[s])
       /\ \/ peer'[s].stage = "idle"
          \/ peer[s].stage # "idle" /\ peer'[s].doing = peer[s].doing

LEMMA OpenKept ==
  ASSUME OpenedInOrder, \A s \in Socket : Opened(s)' <=> Opened(s) PROVE OpenedInOrder'
  BY DEF OpenedInOrder

LEMMA UpKept == ASSUME Faithful, said \subseteq said', UpStays PROVE UpOK' /\ OpenedInOrder'
<1>1. OpenedInOrder'
  BY OpenKept DEF Faithful, UpStays
<1>2. ASSUME NEW s \in Socket
      PROVE  /\ peer'[s].stage # "idle" => peer'[s].doing \in said' /\ Opened(s)'
             /\ peer'[s].state = "attached" =>
                  \A i \in 1..Len(up'[s]) : Carries(up'[s][i]) \in said'
             /\ peer'[s].state = "up" =>
                  up'[s] # <<>> /\ \A i \in 2..Len(up'[s]) : Carries(up'[s][i]) \in said'
  <2>1. /\ peer[s].stage # "idle" => peer[s].doing \in said /\ Opened(s)
        /\ peer[s].state = "attached" => \A i \in 1..Len(up[s]) : Carries(up[s][i]) \in said
        /\ peer[s].state = "up" =>
             up[s] # <<>> /\ \A i \in 2..Len(up[s]) : Carries(up[s][i]) \in said
    BY DEF Faithful, UpOK
  <2>2. peer'[s].stage # "idle" => peer'[s].doing \in said' /\ Opened(s)'
    BY <2>1 DEF UpStays
  <2>3. peer'[s].state \in {"attached", "up"} =>
          peer'[s].state = peer[s].state /\ up'[s] = up[s]
    BY DEF UpStays
  <2> QED
    BY <2>1, <2>2, <2>3
<1> QED
  BY <1>1, <1>2 DEF UpOK

(* The row only gives its binding up, and nothing is recorded; at most one *)
(* more attempt is muted.                                                  *)
Eases ==
  /\ row' \in Rows /\ row'.gen = row.gen /\ row'.next = row.next
  /\ row'.status = "bound" => row.status = "bound"
  /\ row'.status = "queued" => row.status \in {"queued", "bound"}
  /\ log' = log /\ (muted' = muted \/ \E g \in Gen : muted' = muted \cup {g})

LEMMA LogKept ==
  ASSUME Faithful, Eases, said \subseteq said', said' \subseteq Event,
         \A e \in said' : e \in said \/ (e.gen = row.gen => e.n >= row.next)
  PROVE  LogOK'
<1>1. /\ Stored' = Stored /\ row'.gen = row.gen /\ row'.next = row.next /\ muted \subseteq muted'
      /\ row'.status = "bound" => row.status = "bound"
      /\ row'.status = "queued" => row.status \in {"queued", "bound"}
  BY DEF Eases, Stored
<1>2. \A e \in said' : e.n \in Int
  BY DEF Event
<1>3. row.next \in Int
  BY DEF Faithful, Typed, Rows
<1>4. row'.status = "bound" /\ row'.gen \notin muted' =>
        \A e \in said' : e.gen = row'.gen /\ e.n < row'.next => e \in Stored'
  BY <1>1, <1>2, <1>3 DEF Faithful, LogOK
<1> QED
  BY <1>1, <1>4 DEF Faithful, LogOK

LEMMA RowEased ==
  ASSUME Faithful, Eases, said' = said PROVE RowMoves /\ LogOK' /\ LogStep
<1>1. RowMoves
  BY DEF RowMoves, Eases, Faithful, Typed
<1>2. LogOK'
  BY LogKept DEF Faithful, Typed
<1>3. LogStep
  <2>1. CASE muted' = muted
    BY <2>1 DEF LogStep, Log!vars, Eases
  <2>2. ASSUME NEW g \in Gen, muted' = muted \cup {g} PROVE LogStep
    <3> DEFINE e == [gen |-> g, n |-> 0, kind |-> "note"]
    <3>1. e \in Event /\ e.gen = g
      BY BoundAssumption DEF Event, Kind
    <3> HIDE DEF e
    <3>2. Log!Mute(e.gen)
      BY <2>2, <3>1 DEF Log!Mute, Eases
    <3> QED
      BY <3>1, <3>2 DEF LogStep, Log!Next
  <2> QED
    BY <2>1, <2>2 DEF Eases
<1> QED
  BY <1>1, <1>2, <1>3

Sockets == sock' \in 0..MaxSocket /\ conn' \in {0, sock'}

(* All of them together: a step in which no attempt says anything, begins  *)
(* or is bound.                                                            *)
LEMMA Kept ==
  ASSUME Faithful, said' = said, Fewer, RowMoves, Queues, UpStays, Sockets, LogOK'
  PROVE  Faithful'
<1>1. held' \in Executions /\ held.gen \in Nat
  BY FewerTyped DEF Faithful, Typed, Executions
<1>2. Typed'
  BY <1>1 DEF Faithful, Typed, RowMoves, Queues, UpStays, Sockets
<1>3. SaidOK'
  BY SaidKept
<1>4. held'.gen <= held.gen
  BY <1>1, NotHeldTyped DEF Fewer
<1>5. row'.gen = row.gen /\ (row'.next # row.next => \E e \in said : e.gen = row.gen)
  BY DEF RowMoves
<1>6. DownOK'
  BY <1>1, <1>4, <1>5, DownKept
<1>7. UpOK' /\ OpenedInOrder'
  BY UpKept
<1> QED
  BY <1>2, <1>3, <1>6, <1>7 DEF Faithful

(* What a step leaves alone. *)
LEMMA SameDown == ASSUME Faithful, down' = down, sock' = sock PROVE Queues
<1>1. \A s \in Socket : \A i \in 1..Len(down'[s]) : i + 0 = i
  OBVIOUS
<1> QED
  BY <1>1 DEF Queues, Faithful, Typed, DownOK

LEMMA SameUp == ASSUME Faithful, up' = up, peer' = peer PROVE UpStays
  BY DEF UpStays, Faithful, Typed, Opened

LEMMA SameRow == ASSUME Faithful, row' = row, muted' = muted, log' = log PROVE Eases
  BY DEF Eases, Faithful, Typed, Rows

LEMMA SameSockets == ASSUME Faithful, sock' = sock, conn' = conn PROVE Sockets
  BY DEF Sockets, Faithful, Typed

-----------------------------------------------------------------------------
(* 4. The Runner's steps. *)

LEMMA EmitKeeps ==
  ASSUME Faithful, NEW kind \in Kind, Emit(kind) PROVE Faithful' /\ LogStep
<1> DEFINE e == [gen |-> held.gen, n |-> held.next, kind |-> kind]
<1>1. /\ held.phase = "running" /\ said' = said \cup {e}
      /\ held' = [held EXCEPT !.next = @ + 1, !.kept = @ \cup {e},
                              !.phase = IF Terminal(e) THEN "ending" ELSE @]
      /\ UNCHANGED <<sock, conn, up, down, peer, row, muted, log>>
  BY DEF Emit
<1>2. held.next < MaxOrdinal /\ held \in Executions /\ held.gen \in 1..row.gen /\ row \in Rows
      /\ held.kept \subseteq said /\ said \subseteq Event
  BY <1>1 DEF Emit, Faithful, Typed, SaidOK
<1>3. e \in Event /\ e.gen = held.gen /\ e.n = held.next /\ e.kind = kind
  BY <1>2, BoundAssumption DEF Event, Gen, Executions, Rows
<1>4. /\ held' \in Executions /\ held'.gen = held.gen /\ held'.next = held.next + 1
      /\ held'.kept = held.kept \cup {e} /\ held'.phase \in {"running", "ending"}
      /\ held'.phase = "running" => kind = "note"
  <2> DEFINE p == IF Terminal(e) THEN "ending" ELSE held.phase
  <2>1. p \in {"running", "ending"} /\ (p = "running" => kind = "note")
    BY <1>1, <1>3 DEF Terminal
  <2>2. held' = [held EXCEPT !.next = @ + 1, !.kept = @ \cup {e}, !.phase = p]
    BY <1>1
  <2> HIDE DEF e, p
  <2>3. held.next \in 0..MaxOrdinal /\ held.kept \in SUBSET Event /\ held.gen \in 0..MaxGen
    BY <1>2 DEF Executions
  <2>4. held.next + 1 \in 0..MaxOrdinal /\ held.kept \cup {e} \in SUBSET Event /\ p \in Phase
    BY <1>2, <1>3, <2>1, <2>3, BoundAssumption DEF Phase
  <2>5. /\ held' \in Executions /\ held'.gen = held.gen /\ held'.next = held.next + 1
        /\ held'.kept = held.kept \cup {e} /\ held'.phase = p
    BY <1>2, <2>2, <2>4 DEF Executions
  <2> QED
    BY <2>1, <2>5
<1> HIDE DEF e
<1>5. \A f \in said : f.gen = e.gen => f.n < e.n /\ f.kind = "note"
  BY <1>1, <1>3 DEF Faithful, SaidOK
<1>6. Typed'
  BY <1>1, <1>2, <1>3, <1>4 DEF Faithful, Typed
<1>7. SaidOK'
  <2>1. \A f \in said' : f = e \/ f \in said
    BY <1>1
  <2>2. \A f \in Event : f.n \in Int
    BY DEF Event
  <2>3. \A f, g \in said' : f.gen = g.gen /\ f.n = g.n => f = g
    BY <1>2, <1>3, <1>5, <2>1, <2>2 DEF Faithful, SaidOK
  <2>4. \A f \in said' : f.gen <= row'.gen
    BY <1>1, <1>2, <1>3, <2>1 DEF Faithful, SaidOK
  <2>5. held'.kept \subseteq said'
    BY <1>1, <1>2, <1>4
  <2>6. \A f \in said' : f.gen = held'.gen =>
          f.n < held'.next /\ (held'.phase = "running" => f.kind = "note")
    <3> SUFFICES ASSUME NEW f \in said', f.gen = held'.gen
                 PROVE  f.n < held'.next /\ (held'.phase = "running" => f.kind = "note")
      OBVIOUS
    <3>1. e.n \in Int /\ f.n \in Int
      BY <1>2, <1>3, <2>1, <2>2
    <3>2. f.n <= e.n
      BY <1>3, <1>4, <1>5, <2>1, <3>1
    <3>3. held'.phase = "running" => f.kind = "note"
      BY <1>3, <1>4, <1>5, <2>1
    <3> QED
      BY <1>3, <1>4, <3>1, <3>2, <3>3
  <2>7. /\ held'.phase # "none" /\ held'.gen \in 1..row'.gen
        /\ row'.status = "bound" => row'.gen \in Gen
    BY <1>1, <1>2, <1>4 DEF Faithful, SaidOK
  <2>8. held'.gen = row'.gen => row'.next <= held'.next
    <3>1. held.gen = row.gen => row.next <= held.next
      BY <1>1 DEF Faithful, SaidOK
    <3> QED
      BY <1>1, <1>2, <1>4, <3>1 DEF Rows, Executions
  <2> QED
    BY <2>3, <2>4, <2>5, <2>6, <2>7, <2>8 DEF SaidOK
<1>8. UpOK' /\ OpenedInOrder'
  BY <1>1, SameUp, UpKept
<1>9. DownOK'
  <2>1. Queues
    BY <1>1, SameDown
  <2>2. held'.gen <= held.gen /\ \A f \in said' : f \in said \/ f.gen = held.gen
    BY <1>1, <1>2, <1>3, <1>4 DEF Executions
  <2> QED
    BY <1>1, <1>4, <2>1, <2>2, DownKept
<1>10. LogOK'
  <2>1. Eases
    BY <1>1, SameRow
  <2>2. said \subseteq said' /\ said' \subseteq Event
    BY <1>1, <1>2, <1>3
  <2>3. \A f \in said' : f \in said \/ (f.gen = row.gen => f.n >= row.next)
    <3>1. held.gen = row.gen => row.next <= held.next
      BY <1>1 DEF Faithful, SaidOK
    <3>2. held.next \in Int /\ row.next \in Int
      BY <1>2 DEF Executions, Rows
    <3> QED
      BY <1>1, <1>3, <3>1, <3>2
  <2> QED
    BY <2>1, <2>2, <2>3, LogKept
<1>11. LogStep
  <2>1. Log!Say(e)
    BY <1>1, <1>5 DEF Log!Say
  <2> QED
    BY <1>3, <2>1 DEF LogStep, Log!Next
<1> QED
  BY <1>6, <1>7, <1>8, <1>9, <1>10, <1>11 DEF Faithful

(* A step that leaves the Host's row, mutes and log alone. *)
LEMMA RunnerKeeps ==
  ASSUME Faithful, Fewer, Queues, UpStays, Sockets, UNCHANGED <<said, row, muted, log>>
  PROVE  Faithful' /\ LogStep
<1>1. Eases
  BY SameRow
<1>2. RowMoves /\ LogOK' /\ LogStep
  BY <1>1, RowEased
<1> QED
  BY <1>2, Kept

LEMMA SendNextKeeps == ASSUME Faithful, SendNext PROVE Faithful' /\ LogStep
<1>1. PICK e \in Due :
        /\ UNCHANGED <<held, sock, conn, said, down, peer, row, muted, log>> /\ conn # 0
        /\ up' = IF Live(conn)
                 THEN [up EXCEPT ![conn] = Append(@, [type |-> "event", gen |-> e.gen,
                                                      n |-> e.n, kind |-> e.kind])]
                 ELSE up
  BY DEF SendNext
<1>2. Fewer /\ Queues /\ Sockets
  BY <1>1, SameDown, SameSockets DEF Fewer
<1>3. CASE ~Live(conn)
  <2>1. up' = up
    BY <1>1, <1>3
  <2> QED
    BY <1>1, <1>2, <2>1, SameUp, RunnerKeeps
<1>4. CASE Live(conn)
  <2> DEFINE x == [type |-> "event", gen |-> e.gen, n |-> e.n, kind |-> e.kind]
  <2>1. conn \in Socket
    BY <1>1 DEF Faithful, Typed, Socket
  <2>2. e \in said /\ e \in Event
    BY DEF Due, Faithful, Typed, SaidOK
  <2>3. x \in FrameSet /\ Carries(x) = e
    BY <2>2, BoundAssumption DEF FrameSet, Event, Gen, Carries
  <2>4. up' = [up EXCEPT ![conn] = Append(@, x)] /\ up \in [Socket -> Seq(FrameSet)]
    BY <1>1, <1>4 DEF Faithful, Typed
  <2> HIDE DEF x
  <2>5. /\ up' \in [Socket -> Seq(FrameSet)] /\ \A t \in Socket : t # conn => up'[t] = up[t]
        /\ Len(up[conn]) \in Nat /\ Len(up'[conn]) = Len(up[conn]) + 1
        /\ up'[conn][Len(up[conn]) + 1] = x
        /\ \A i \in 1..Len(up[conn]) : up'[conn][i] = up[conn][i]
    BY <2>1, <2>3, <2>4, Pushed
  <2>6. UpOK'
    <3> SUFFICES ASSUME NEW s \in Socket
                 PROVE  /\ peer'[s].stage # "idle" => peer'[s].doing \in said' /\ Opened(s)'
                        /\ peer'[s].state = "attached" =>
                             \A i \in 1..Len(up'[s]) : Carries(up'[s][i]) \in said'
                        /\ peer'[s].state = "up" =>
                             /\ up'[s] # <<>>
                             /\ \A i \in 2..Len(up'[s]) : Carries(up'[s][i]) \in said'
      BY DEF UpOK
    <3>1. /\ peer[s].stage # "idle" => peer[s].doing \in said /\ Opened(s)
          /\ peer[s].state = "attached" => \A i \in 1..Len(up[s]) : Carries(up[s][i]) \in said
          /\ peer[s].state = "up" =>
               up[s] # <<>> /\ \A i \in 2..Len(up[s]) : Carries(up[s][i]) \in said
      BY DEF Faithful, UpOK
    <3>2. peer'[s].stage # "idle" => peer'[s].doing \in said' /\ Opened(s)'
      BY <1>1, <3>1 DEF Opened
    <3>3. CASE s # conn
      <4>1. up'[s] = up[s] /\ peer' = peer /\ said' = said
        BY <1>1, <2>5, <3>3
      <4> QED
        BY <3>1, <3>2, <4>1
    <3>4. CASE s = conn
      <4>1. \A i \in 1..Len(up'[s]) : i \in 1..Len(up[s]) \/ Carries(up'[s][i]) \in said
        BY <2>2, <2>3, <2>5, <3>4
      <4>2. up'[s] # <<>>
        BY <2>5, <3>4, NoFrames
      <4>3. \A i \in 1..Len(up[s]) : up'[s][i] = up[s][i]
        BY <2>5, <3>4
      <4>4. peer[s].state = "attached" => \A i \in 1..Len(up'[s]) : Carries(up'[s][i]) \in said
        BY <3>1, <4>1, <4>3
      <4>5. peer[s].state = "up" => \A i \in 2..Len(up'[s]) : Carries(up'[s][i]) \in said
        BY <2>5, <3>1, <3>4, <4>1, <4>3
      <4> QED
        BY <1>1, <3>2, <4>2, <4>4, <4>5
    <3> QED
      BY <3>3, <3>4
  <2>7. OpenedInOrder'
    BY <1>1, OpenKept DEF Opened, Faithful
  <2>8. Eases
    BY <1>1, SameRow
  <2>9. RowMoves /\ LogOK' /\ LogStep
    BY <1>1, <2>8, RowEased
  <2>10. Typed'
    BY <1>1, <2>5 DEF Faithful, Typed
  <2>11. SaidOK'
    BY <1>1, <1>2, <2>9, SaidKept
  <2>12. DownOK'
    BY <1>1 DEF Faithful, DownOK, Begins
  <2> QED
    BY <2>6, <2>7, <2>9, <2>10, <2>11, <2>12 DEF Faithful
<1> QED
  BY <1>3, <1>4

(* Forgetting, releasing and revoking leave the Runner with less. *)
LEMMA Pruned ==
  ASSUME Faithful, NEW n \in Int, NEW keep \in SUBSET Event, NEW h,
         h = [held EXCEPT !.kept = {e \in @ : e \in keep}, !.sent = n]
  PROVE  /\ h \in Executions /\ h.gen = held.gen /\ h.next = held.next /\ h.kept \subseteq held.kept
         /\ h.phase = held.phase
  BY DEF Faithful, Typed, Executions

LEMMA ReleasedFewer ==
  ASSUME Faithful, NEW h \in Executions, h.gen = held.gen, h.next = held.next,
         h.kept \subseteq held.kept, h.phase = held.phase, held' = Released(h)
  PROVE  Fewer
  BY DEF Released, Fewer

LEMMA RevokedFewer == ASSUME Faithful, held' = Revoked(held) PROVE Fewer
<1>1. CASE held.phase \in {"running", "ending", "revoked"}
  <2>1. held' = [held EXCEPT !.phase = "revoked", !.kept = {}] /\ held \in Executions
    BY <1>1 DEF Revoked, Faithful, Typed
  <2>2. held' \in Executions /\ held'.gen = held.gen /\ held'.next = held.next
        /\ held'.kept = {} /\ held'.phase = "revoked"
    BY <2>1 DEF Executions, Phase
  <2> QED
    BY <1>1, <2>2 DEF Fewer
<1>2. CASE held.phase \notin {"running", "ending", "revoked"}
  BY <1>2 DEF Revoked, Fewer
<1> QED
  BY <1>1, <1>2

LEMMA RunnerAloneKeeps ==
  ASSUME Faithful, SendSettles \/ Finish \/ Leave PROVE Faithful' /\ LogStep
<1>1. UNCHANGED <<sock, conn, said, up, down, peer, row, muted, log>>
  BY DEF SendSettles, Finish, Leave
<1>2. Fewer
  <2>1. CASE SendSettles
    <3>1. held' = held \/ held' = [held EXCEPT !.sent = @ + 1]
      BY <2>1 DEF SendSettles
    <3>2. held \in Executions
      BY DEF Faithful, Typed
    <3>3. ASSUME held' = [held EXCEPT !.sent = @ + 1] PROVE Fewer
      <4>1. held' \in Executions /\ held'.gen = held.gen /\ held'.next = held.next
            /\ held'.kept = held.kept /\ held'.phase = held.phase
        BY <3>2, <3>3 DEF Executions
      <4> QED
        BY <4>1 DEF Fewer
    <3> QED
      BY <3>1, <3>3 DEF Fewer
  <2>2. CASE Finish
    <3>1. held.phase = "ending" /\ (held' = NotHeld \/ held' = [held EXCEPT !.phase = "ended"])
      BY <2>2 DEF Finish
    <3>2. held \in Executions
      BY DEF Faithful, Typed
    <3>3. ASSUME held' = [held EXCEPT !.phase = "ended"] PROVE Fewer
      <4>1. held' \in Executions /\ held'.gen = held.gen /\ held'.next = held.next
            /\ held'.kept = held.kept /\ held'.phase = "ended"
        BY <3>2, <3>3 DEF Executions, Phase
      <4> QED
        BY <3>1, <4>1 DEF Fewer
    <3> QED
      BY <3>1, <3>3 DEF Fewer
  <2>3. CASE Leave
    BY <2>3 DEF Leave, Fewer
  <2> QED
    BY <2>1, <2>2, <2>3
<1> QED
  BY <1>1, <1>2, SameDown, SameUp, SameSockets, RunnerKeeps

(* The Runner reads the first frame of its socket. *)
LEMMA Heard ==
  ASSUME Faithful, sock # 0, down[sock] # <<>>, down' = [down EXCEPT ![sock] = Tail(@)],
         sock' = sock
  PROVE  /\ Queues /\ sock \in Socket /\ Head(down[sock]) \in FrameSet
         /\ 1 \in 1..Len(down[sock]) /\ Head(down[sock]) = down[sock][1]
         /\ \A i \in 1..Len(down'[sock]) : /\ i + 1 \in 1..Len(down[sock])
                                           /\ down'[sock][i] = down[sock][i + 1]
         /\ \A s \in Socket : s # sock => down'[s] = <<>>
<1>1. sock \in Socket /\ down \in [Socket -> Seq(FrameSet)]
  BY DEF Faithful, Typed, Socket
<1>2. /\ down' \in [Socket -> Seq(FrameSet)] /\ \A t \in Socket : t # sock => down'[t] = down[t]
      /\ Len(down[sock]) \in Nat \ {0} /\ Head(down[sock]) = down[sock][1]
      /\ Head(down[sock]) \in FrameSet
      /\ Len(down'[sock]) = Len(down[sock]) - 1
      /\ \A i \in 1..Len(down'[sock]) : down'[sock][i] = down[sock][i + 1]
  BY <1>1, Popped
<1>3. \A s \in Socket : s # sock => down'[s] = <<>>
  BY <1>2 DEF Faithful, DownOK
<1>4. \A i \in 1..Len(down'[sock]) : i + 1 \in 1..Len(down[sock])
  BY <1>2
<1>5. Queues
  <2>1. ASSUME NEW s \in Socket
        PROVE  \E d \in {0, 1} : \A i \in 1..Len(down'[s]) : down'[s][i].type = "execute" =>
                 i + d \in 1..Len(down[s]) /\ down'[s][i] = down[s][i + d]
    <3>1. CASE s = sock
      BY <1>2, <1>4, <3>1
    <3>2. CASE s # sock
      BY <1>3, <3>2, NoFrames
    <3> QED
      BY <3>1, <3>2
  <2> QED
    BY <1>2, <1>3, <2>1 DEF Queues
<1> QED
  BY <1>1, <1>2, <1>3, <1>4, <1>5

LEMMA HearAnswerKeeps ==
  ASSUME Faithful, Hear, NEW f \in FrameSet, UNCHANGED row,
         HearAttached(f) \/ HearRevoked(f) \/ HearAck(f)
  PROVE  Faithful' /\ LogStep
<1>1. /\ sock # 0 /\ down[sock] # <<>> /\ down' = [down EXCEPT ![sock] = Tail(@)]
      /\ UNCHANGED <<sock, said, up, peer, muted, log>>
  BY DEF Hear
<1>2. Sockets
  BY <1>1 DEF HearAttached, HearRevoked, HearAck, Sockets, Faithful, Typed
<1>3. Fewer
  <2>1. f.n \in Int
    BY DEF FrameSet
  <2>2. CASE held' = held
    BY <2>2 DEF Fewer
  <2>3. CASE held' = Revoked(held)
    BY <2>3, RevokedFewer
  <2>4. CASE held' = Released(PrunedTo(f.n))
    <3> DEFINE h == PrunedTo(f.n)
               keep == {e \in Event : e.n >= f.n}
    <3>1. held.kept \subseteq Event
      BY DEF Faithful, Typed, Executions
    <3>2. {e \in held.kept : e.n >= f.n} = {e \in held.kept : e \in keep}
      BY <3>1
    <3>3. h = [held EXCEPT !.kept = {e \in held.kept : e.n >= f.n}, !.sent = f.n - 1]
      BY DEF PrunedTo
    <3>4. h = [held EXCEPT !.kept = {e \in held.kept : e \in keep}, !.sent = f.n - 1]
      BY <3>2, <3>3
    <3>5. f.n - 1 \in Int /\ keep \in SUBSET Event /\ held' = Released(h)
      BY <2>1, <2>4
    <3> HIDE DEF h, keep
    <3>6. /\ h \in Executions /\ h.gen = held.gen /\ h.next = held.next
          /\ h.kept \subseteq held.kept /\ h.phase = held.phase
      BY <3>4, <3>5, Pruned
    <3> QED
      BY <3>5, <3>6, ReleasedFewer
  <2>5. CASE held' = Released(Forgotten(f.n))
    <3> DEFINE h == Forgotten(f.n)
    <3>1. held \in Executions
      BY DEF Faithful, Typed
    <3>2. h = [held EXCEPT !.kept = {e \in held.kept : e.n > f.n}]
      BY DEF Forgotten
    <3>3. held' = Released(h)
      BY <2>5
    <3> HIDE DEF h
    <3>4. {e \in held.kept : e.n > f.n} \in SUBSET Event
      BY <3>1 DEF Executions
    <3>5. /\ h \in Executions /\ h.gen = held.gen /\ h.next = held.next
          /\ h.kept \subseteq held.kept /\ h.phase = held.phase
      BY <3>1, <3>2, <3>4 DEF Executions
    <3> QED
      BY <3>3, <3>5, ReleasedFewer
  <2>6. \/ held' = held \/ held' = Revoked(held) \/ held' = Released(PrunedTo(f.n))
        \/ held' = Released(Forgotten(f.n))
    BY DEF HearAttached, HearRevoked, HearAck
  <2> QED
    BY <2>2, <2>3, <2>4, <2>5, <2>6
<1>4. Queues /\ UpStays
  BY <1>1, Heard, SameUp
<1> QED
  BY <1>1, <1>2, <1>3, <1>4, RunnerKeeps

LEMMA RejectExecuteKeeps ==
  ASSUME Faithful, Hear, NEW f \in FrameSet, RejectExecute(f) PROVE Faithful' /\ LogStep
<1>1. /\ sock # 0 /\ down[sock] # <<>> /\ down' = [down EXCEPT ![sock] = Tail(@)]
      /\ UNCHANGED <<sock, conn, said, up, peer, muted, log, held>>
      /\ row' = IF row.status = "bound" /\ row.gen = f.gen
                THEN [row EXCEPT !.status = "queued"] ELSE row
  BY DEF Hear, RejectExecute
<1>2. Eases
  BY <1>1 DEF Eases, Rows, Faithful, Typed
<1>3. RowMoves /\ LogOK' /\ LogStep
  BY <1>1, <1>2, RowEased
<1>4. Fewer /\ Queues /\ UpStays /\ Sockets
  BY <1>1, Heard, SameUp, SameSockets DEF Fewer
<1> QED
  BY <1>1, <1>3, <1>4, Kept

(* The attempt begins after all that was said, with the Host's ordinal.    *)
LEMMA HearExecuteKeeps ==
  ASSUME Faithful, Hear, HearExecute(Head(down[sock])) PROVE Faithful' /\ LogStep
<1> DEFINE f == Head(down[sock])
<1>1. /\ sock # 0 /\ down[sock] # <<>> /\ down' = [down EXCEPT ![sock] = Tail(@)]
      /\ UNCHANGED <<sock, conn, said, up, peer, row, muted, log>>
      /\ held' = Admitted(f) /\ f.type = "execute"
  BY DEF Hear, HearExecute
<1>2. /\ Queues /\ sock \in Socket /\ f \in FrameSet /\ 1 \in 1..Len(down[sock])
      /\ f = down[sock][1]
      /\ \A i \in 1..Len(down'[sock]) : /\ i + 1 \in 1..Len(down[sock])
                                        /\ down'[sock][i] = down[sock][i + 1]
      /\ \A s \in Socket : s # sock => down'[s] = <<>>
  BY <1>1, Heard
<1> HIDE DEF f
<1>3. Begins(sock, 1)
  BY <1>1, <1>2 DEF Begins
<1>4. /\ f.gen \in 1..row.gen /\ held.gen < f.gen /\ f.n >= 0
      /\ \A e \in said : e.gen < f.gen
      /\ f.gen = row.gen => f.n = row.next
  BY <1>2, <1>3 DEF Faithful, DownOK
<1>5. row \in Rows /\ held \in Executions /\ \A e \in said : e.gen \in Int
  BY DEF Faithful, Typed, Event, Gen
<1>6. /\ held' \in Executions /\ held'.gen = f.gen /\ held'.next = f.n /\ held'.kept = {}
      /\ held'.phase = "running"
  <2>1. f.gen \in 0..MaxGen /\ f.n \in 0..MaxOrdinal /\ f.n - 1 \in Int
    BY <1>2, <1>4 DEF FrameSet
  <2> QED
    BY <1>1, <2>1 DEF Admitted, Executions, Phase
<1>7. Typed'
  BY <1>1, <1>2, <1>6 DEF Faithful, Typed, Queues
<1>8. SaidOK'
  <2>1. \A e \in said : e.gen # f.gen
    BY <1>4, <1>5, <1>6 DEF Executions
  <2>2. held'.gen = row'.gen => row'.next <= held'.next
    BY <1>1, <1>4, <1>5, <1>6 DEF Rows
  <2> QED
    BY <1>1, <1>4, <1>6, <2>1, <2>2 DEF Faithful, SaidOK
<1>9. UpOK' /\ OpenedInOrder'
  BY <1>1, SameUp, UpKept
<1>10. Eases
  BY <1>1, SameRow
<1>11. RowMoves /\ LogOK' /\ LogStep
  BY <1>1, <1>10, RowEased
<1>12. DownOK'
  <2> SUFFICES ASSUME NEW s \in Socket
               PROVE  /\ s # sock' => down'[s] = <<>>
                      /\ \A i \in 1..Len(down'[s]) : Begins(s, i)' =>
                           /\ down'[s][i].gen \in 1..row'.gen /\ held'.gen < down'[s][i].gen
                           /\ down'[s][i].n >= 0
                           /\ \A e \in said' : e.gen < down'[s][i].gen
                           /\ down'[s][i].gen = row'.gen => down'[s][i].n = row'.next
                      /\ \A i, j \in 1..Len(down'[s]) :
                           Begins(s, i)' /\ Begins(s, j)' /\ i < j =>
                             down'[s][i].gen < down'[s][j].gen
    BY DEF DownOK
  <2>1. CASE s # sock
    BY <1>2, <2>1, NoFrames
  <2>2. CASE s = sock
    <3>1. ASSUME NEW i \in 1..Len(down'[s]), Begins(s, i)'
          PROVE  /\ Begins(sock, i + 1) /\ i + 1 \in 1..Len(down[sock]) /\ i \in Nat
                 /\ down'[s][i] = down[sock][i + 1]
      BY <1>2, <2>2, <3>1 DEF Begins
    <3>2. ASSUME NEW i \in 1..Len(down'[s]), Begins(s, i)'
          PROVE  /\ down'[s][i].gen \in 1..row'.gen /\ held'.gen < down'[s][i].gen
                 /\ down'[s][i].n >= 0
                 /\ \A e \in said' : e.gen < down'[s][i].gen
                 /\ down'[s][i].gen = row'.gen => down'[s][i].n = row'.next
      <4> DEFINE x == down[sock][i + 1]
      <4>1. down'[s][i] = x
        BY <3>1, <3>2
      <4>2. /\ x.gen \in 1..row.gen /\ x.n >= 0
            /\ \A e \in said : e.gen < x.gen
            /\ x.gen = row.gen => x.n = row.next
        BY <1>2, <3>1, <3>2 DEF Faithful, DownOK
      <4>3. 1 < i + 1
        BY <3>1, <3>2
      <4>4. down[sock][1].gen < x.gen
        BY <1>2, <1>3, <3>1, <3>2, <4>3 DEF Faithful, DownOK
      <4> HIDE DEF x
      <4>5. held'.gen < x.gen
        BY <1>2, <1>6, <4>4
      <4> QED
        BY <1>1, <4>1, <4>2, <4>5
    <3>3. ASSUME NEW i \in 1..Len(down'[s]), NEW j \in 1..Len(down'[s]),
                 Begins(s, i)', Begins(s, j)', i < j
          PROVE  down'[s][i].gen < down'[s][j].gen
      <4>1. i + 1 < j + 1
        BY <3>1, <3>3
      <4> QED
        BY <1>2, <3>1, <3>3, <4>1 DEF Faithful, DownOK
    <3> QED
      BY <1>1, <2>2, <3>2, <3>3
  <2> QED
    BY <2>1, <2>2
<1> QED
  BY <1>7, <1>8, <1>9, <1>11, <1>12 DEF Faithful

LEMMA HearKeeps == ASSUME Faithful, Hear PROVE Faithful' /\ LogStep
<1> DEFINE f == Head(down[sock])
<1>1. f \in FrameSet
  BY Heard DEF Hear
<1>2. \/ (HearAttached(f) \/ HearRevoked(f) \/ HearAck(f)) /\ UNCHANGED row
      \/ HearExecute(f) \/ RejectExecute(f)
  BY DEF Hear
<1> HIDE DEF f
<1>3. CASE (HearAttached(f) \/ HearRevoked(f) \/ HearAck(f)) /\ UNCHANGED row
  BY <1>1, <1>3, HearAnswerKeeps
<1>4. CASE HearExecute(f)
  BY <1>4, HearExecuteKeeps DEF f
<1>5. CASE RejectExecute(f)
  BY <1>1, <1>5, RejectExecuteKeeps
<1> QED
  BY <1>2, <1>3, <1>4, <1>5

(* A socket that is lost takes its queue with it. *)
LEMMA Emptied ==
  ASSUME Faithful, down' \in [Socket -> Seq(FrameSet)],
         \A s \in Socket : down'[s] = <<>> \/ (down'[s] = down[s] /\ s = sock')
  PROVE  Queues
<1>1. ASSUME NEW s \in Socket
      PROVE  /\ s # sock' => down'[s] = <<>>
             /\ \A i \in 1..Len(down'[s]) : i + 0 \in 1..Len(down[s])
                                            /\ down'[s][i] = down[s][i + 0]
  <2>1. CASE down'[s] = <<>>
    BY <2>1, NoFrames
  <2>2. CASE down'[s] = down[s] /\ s = sock'
    <3>1. \A i \in 1..Len(down[s]) : i + 0 = i
      OBVIOUS
    <3> QED
      BY <2>2, <3>1
  <2> QED
    BY <2>1, <2>2
<1> QED
  BY <1>1 DEF Queues

LEMMA LoseSocketKeeps == ASSUME Faithful, LoseSocket \/ Crash PROVE Faithful' /\ LogStep
<1>1. /\ sock' = 0 /\ conn' = 0 /\ UNCHANGED <<said, up, peer, row, muted, log>>
      /\ held' = held \/ held' = NotHeld
  BY DEF LoseSocket, Crash
<1>2. Queues
  <2>1. down' \in [Socket -> Seq(FrameSet)] /\ \A s \in Socket : down'[s] = <<>>
    <3>1. CASE LoseSocket
      <4>1. sock \in Socket /\ down' = [down EXCEPT ![sock] = <<>>]
        BY <3>1 DEF LoseSocket, Faithful, Typed, Socket
      <4>2. \A t \in Socket : t # sock => down[t] = <<>>
        BY DEF Faithful, DownOK
      <4> QED
        BY <4>1, <4>2, Cleared DEF Faithful, Typed
    <3>2. CASE Crash
      BY <3>2, NoFrames DEF Crash
    <3> QED
      BY <3>1, <3>2
  <2> QED
    BY <2>1, Emptied
<1>3. Fewer /\ Sockets
  BY <1>1, BoundAssumption DEF Fewer, Sockets
<1> QED
  BY <1>1, <1>2, <1>3, SameUp, RunnerKeeps

(* A connection that is gone keeps what its lane has begun. *)
LEMMA GoneIs ==
  ASSUME NEW p \in Peers
  PROVE  /\ Gone(p) \in Peers /\ Gone(p).state = "gone" /\ Gone(p).acked = -1
         /\ Gone(p).doing = p.doing /\ Gone(p).stage = p.stage
  BY Bounds DEF Gone, NoPeer, Peers

LEMMA NewPeer ==
  ASSUME NEW p, p = [NoPeer EXCEPT !.state = "up"]
  PROVE  p \in Peers /\ p.state = "up" /\ p.stage = "idle"
  BY Bounds DEF NoPeer, Peers

LEMMA ConnectKeeps == ASSUME Faithful, Connect PROVE Faithful' /\ LogStep
<1> DEFINE s == CHOOSE t \in Socket : ~Opened(t) /\ \A u \in Socket : u < t => Opened(u)
<1>1. /\ sock = 0 /\ ~Opened(MaxSocket) /\ sock' = s
      /\ peer' = [t \in Socket |-> IF t = s THEN [NoPeer EXCEPT !.state = "up"]
                                   ELSE IF Opened(t) THEN Gone(peer[t]) ELSE peer[t]]
      /\ up' = [t \in Socket |-> IF t = s THEN <<Inventory>> ELSE <<>>]
      /\ UNCHANGED <<held, conn, said, down, row, muted, log>>
  BY DEF Connect, MoreSockets
<1>2. PICK k \in 0..MaxSocket : \A t \in Socket : Opened(t) <=> t <= k
  BY DEF Faithful, OpenedInOrder
<1>3. s = k + 1 /\ s \in Socket
  <2>1. k < MaxSocket
    BY <1>1, <1>2, BoundAssumption DEF Socket
  <2>2. k + 1 \in Socket /\ ~Opened(k + 1) /\ \A u \in Socket : u < k + 1 => Opened(u)
    BY <1>2, <2>1, BoundAssumption DEF Socket
  <2>3. s \in Socket /\ ~Opened(s) /\ \A u \in Socket : u < s => Opened(u)
    BY <2>2
  <2> HIDE DEF s
  <2>4. k < s /\ ~(k + 1 < s)
    BY <1>2, <2>2, <2>3 DEF Socket
  <2> QED
    BY <2>3, <2>4 DEF Socket
<1> HIDE DEF s
<1>4. /\ peer \in [Socket -> Peers] /\ up \in [Socket -> Seq(FrameSet)]
      /\ held \in Executions
  BY DEF Faithful, Typed
<1>5. /\ peer'[s] \in Peers /\ peer'[s].state = "up" /\ peer'[s].stage = "idle"
      /\ \E f \in FrameSet : up'[s] = <<f>>
  <2>1. Inventory \in FrameSet
    BY <1>4, BoundAssumption DEF Inventory, Frame, FrameSet, Kind, Executions
  <2> QED
    BY <1>1, <1>3, <2>1, NewPeer
<1>6. ASSUME NEW t \in Socket, t # s
      PROVE  /\ peer'[t] \in Peers /\ up'[t] = <<>>
             /\ Opened(t)' <=> Opened(t)
             /\ Opened(t) => peer'[t].state = "gone"
             /\ peer'[t].doing = peer[t].doing /\ peer'[t].stage = peer[t].stage
  <2>1. up'[t] = <<>> /\ peer'[t] = IF Opened(t) THEN Gone(peer[t]) ELSE peer[t]
    BY <1>1, <1>6
  <2>2. CASE Opened(t)
    <3>1. /\ peer'[t] \in Peers /\ peer'[t].state = "gone"
          /\ peer'[t].doing = peer[t].doing /\ peer'[t].stage = peer[t].stage
      BY <1>4, <2>1, <2>2, GoneIs
    <3> QED
      BY <2>1, <2>2, <3>1 DEF Opened
  <2>3. CASE ~Opened(t)
    BY <1>4, <2>1, <2>3 DEF Opened
  <2> QED
    BY <2>2, <2>3
<1>7. up' \in [Socket -> Seq(FrameSet)] /\ peer' \in [Socket -> Peers]
  <2>1. \A t \in Socket : up'[t] \in Seq(FrameSet) /\ peer'[t] \in Peers
    <3>1. up'[s] \in Seq(FrameSet)
      BY <1>5
    <3> QED
      BY <1>5, <1>6, <3>1, NoFrames
  <2>2. up' = [t \in Socket |-> up'[t]] /\ peer' = [t \in Socket |-> peer'[t]]
    BY <1>1
  <2> QED
    BY <2>1, <2>2
<1>8. Fewer /\ Eases
  BY <1>1, SameRow DEF Fewer
<1>9. RowMoves /\ LogOK' /\ LogStep
  BY <1>1, <1>8, RowEased
<1>10. conn' \in {0, sock'} /\ sock' \in 0..MaxSocket
  BY <1>1, <1>3 DEF Faithful, Typed, Socket
<1>11. Typed'
  BY <1>1, <1>7, <1>10 DEF Faithful, Typed
<1>12. SaidOK'
  BY <1>1, <1>8, <1>9, SaidKept
<1>13. DownOK'
  <2>1. \A t \in Socket : down'[t] = <<>>
    BY <1>1, Bounds DEF Faithful, DownOK
  <2> QED
    BY <2>1, NoFrames DEF DownOK
<1>14. OpenedInOrder'
  <2>1. \A t \in Socket : Opened(t)' <=> t <= k + 1
    <3> SUFFICES ASSUME NEW t \in Socket PROVE Opened(t)' <=> t <= k + 1
      OBVIOUS
    <3>1. CASE t = s
      BY <1>3, <1>5, <3>1 DEF Opened
    <3>2. CASE t # s
      <4>1. Opened(t)' <=> t <= k
        BY <1>2, <1>6, <3>2
      <4> QED
        BY <1>3, <3>2, <4>1 DEF Socket
    <3> QED
      BY <3>1, <3>2
  <2>2. k + 1 \in 0..MaxSocket
    BY <1>3 DEF Socket
  <2> QED
    BY <2>1, <2>2 DEF OpenedInOrder
<1>15. UpOK'
  <2> SUFFICES ASSUME NEW t \in Socket
               PROVE  /\ peer'[t].stage # "idle" => peer'[t].doing \in said' /\ Opened(t)'
                      /\ peer'[t].state = "attached" =>
                           \A i \in 1..Len(up'[t]) : Carries(up'[t][i]) \in said'
                      /\ peer'[t].state = "up" =>
                           up'[t] # <<>> /\ \A i \in 2..Len(up'[t]) : Carries(up'[t][i]) \in said'
    BY DEF UpOK
  <2>1. CASE t = s
    <3>1. PICK f \in FrameSet : up'[s] = <<f>>
      BY <1>5
    <3>2. up'[s] # <<>> /\ Len(up'[s]) = 1
      BY <3>1
    <3> QED
      BY <1>5, <2>1, <3>2
  <2>2. CASE t # s
    <3>1. peer[t].stage # "idle" => peer[t].doing \in said /\ Opened(t)
      BY DEF Faithful, UpOK
    <3>2. peer'[t].state \notin {"attached", "up"}
      BY <1>6, <2>2 DEF Opened
    <3> QED
      BY <1>1, <1>6, <2>2, <3>1, <3>2
  <2> QED
    BY <2>1, <2>2
<1> QED
  BY <1>9, <1>11, <1>12, <1>13, <1>14, <1>15 DEF Faithful

-----------------------------------------------------------------------------
(* 5. What the Host commits. *)

LEMMA Counted ==
  ASSUME Faithful, NEW e \in said, e.gen = row.gen, e.n = row.next, NEW st,
         st \in {"queued", "bound", "ended", "failed"}, st = "bound" => row.status = "bound",
         row' = [row EXCEPT !.next = @ + 1, !.status = st]
  PROVE  /\ row' \in Rows /\ row'.gen = row.gen /\ row'.next = row.next + 1
         /\ row'.status = st
<1>1. row \in Rows /\ e \in Event
  BY DEF Faithful, Typed
<1>2. row.next + 1 \in 0..MaxOrdinal
  BY <1>1, Bounds
<1> QED
  BY <1>1, <1>2 DEF Rows

(* The ordinal goes by without its event only if its attempt lost the Run. *)
LEMMA Passed ==
  ASSUME Faithful, said' = said, NEW e \in said, e.gen = row.gen, e.n = row.next,
         row' \in Rows, row'.gen = row.gen, row'.next = row.next + 1,
         row'.status = "bound" => row.status = "bound" /\ row.gen \in muted,
         row'.status = "queued" => row.status \in {"queued", "bound"},
         muted' = muted, log' = log
  PROVE  RowMoves /\ LogOK' /\ LogStep
<1>1. RowMoves
  BY DEF RowMoves, Faithful, Typed
<1>2. LogStep
  BY DEF LogStep, Log!vars
<1>3. LogOK'
  <2>1. Stored' = Stored /\ row.next \in Int /\ \A f \in said : f.n \in Int
    BY DEF Stored, Faithful, Typed, Rows, Event
  <2>2. \A f \in Stored' : f \in said' /\ f.gen <= row'.gen /\ f.n < row'.next
    BY <2>1 DEF Faithful, LogOK
  <2>3. row'.status \in {"queued", "bound"} => \A f \in Stored' : f.kind = "note"
    BY <2>1 DEF Faithful, LogOK
  <2> QED
    BY <2>2, <2>3 DEF LogOK
<1> QED
  BY <1>1, <1>2, <1>3

LEMMA Appended ==
  ASSUME Faithful, NEW e \in Event, log' = Append(log, e)
  PROVE  log' \in Seq(Event) /\ Stored' = Stored \cup {e}
<1>1. log \in Seq(Event)
  BY DEF Faithful, Typed
<1>2. /\ log' \in Seq(Event) /\ Len(log') = Len(log) + 1 /\ log'[Len(log) + 1] = e
      /\ \A i \in 1..Len(log) : log'[i] = log[i]
  BY <1>1, AppendProperties
<1>3. Len(log) \in Nat /\ DOMAIN log = 1..Len(log) /\ DOMAIN log' = 1..(Len(log) + 1)
  BY <1>1, <1>2, LenProperties
<1>4. Len(log) + 1 \in DOMAIN log' /\ \A i \in DOMAIN log' : i \in DOMAIN log \/ i = Len(log) + 1
  BY <1>3
<1>5. \A i \in DOMAIN log : i \in DOMAIN log' /\ log'[i] = log[i]
  BY <1>2, <1>3
<1> QED
  BY <1>2, <1>4, <1>5 DEF Stored

LEMMA StoreKeeps ==
  ASSUME Faithful, said' = said, NEW e \in said, Store(e)
  PROVE  RowMoves /\ LogOK' /\ LogStep
<1>1. /\ e \in Event /\ log \in Seq(Event) /\ row \in Rows /\ \A f \in said : f.n \in Int
      /\ muted \subseteq Gen
  BY DEF Faithful, Typed, Event
<1>2. /\ e.gen = row.gen /\ e.n = row.next /\ row.status = "bound"
      /\ log' = Append(log, e) /\ muted' = muted
      /\ e.kind = "end" \/ (e.kind = "note" /\ e.gen \notin muted)
  BY DEF Store, InTurn, Holds, Superseded
<1>3. /\ row' \in Rows /\ row'.gen = row.gen /\ row'.next = row.next + 1
      /\ row'.status = "bound" \/ (row'.status = "ended" /\ e.kind = "end")
      /\ row'.status = "bound" => e.kind = "note"
  <2> DEFINE st == IF e.kind = "end" THEN "ended" ELSE row.status
  <2>1. row' = [row EXCEPT !.next = @ + 1, !.status = st]
    BY DEF Store
  <2>2. /\ st \in {"queued", "bound", "ended", "failed"}
        /\ st = "bound" \/ (st = "ended" /\ e.kind = "end")
        /\ st = "bound" => e.kind = "note"
    BY <1>2
  <2> HIDE DEF st
  <2> QED
    BY <1>2, <2>1, <2>2, Counted
<1>4. log' \in Seq(Event) /\ Stored' = Stored \cup {e}
  BY <1>1, <1>2, Appended
<1>5. RowMoves
  BY <1>1, <1>2, <1>3, <1>4 DEF RowMoves
<1>6. /\ \A f \in Stored : f \in said /\ f.gen <= row.gen /\ f.n < row.next /\ f.kind = "note"
      /\ row.gen \notin muted => \A f \in said : f.gen = row.gen /\ f.n < row.next => f \in Stored
  BY <1>2 DEF Faithful, LogOK
<1>7. LogOK'
  <2>1. row.next \in Int /\ row.gen \in Int
    BY <1>1 DEF Rows
  <2>2. \A f \in Stored' : f \in said' /\ f.gen <= row'.gen /\ f.n < row'.next
    BY <1>1, <1>2, <1>3, <1>4, <1>6, <2>1
  <2>3. row'.status \in {"queued", "bound"} => \A f \in Stored' : f.kind = "note"
    BY <1>3, <1>4, <1>6
  <2>4. row'.gen \notin muted' =>
          \A f \in said' : f.gen = row'.gen /\ f.n < row'.next => f \in Stored'
    <3> SUFFICES ASSUME row.gen \notin muted, NEW f \in said, f.gen = row.gen, f.n < row.next + 1
                 PROVE  f \in Stored \/ f = e
      BY <1>2, <1>3, <1>4
    <3>1. CASE f.n < row.next
      BY <1>6, <3>1
    <3>2. CASE f.n = row.next
      BY <1>2, <3>2 DEF Faithful, SaidOK
    <3> QED
      BY <1>1, <2>1, <3>1, <3>2
  <2> QED
    BY <2>2, <2>3, <2>4 DEF LogOK
<1>8. LogStep
  <2>1. Log!Recorded = Stored
    BY DEF Log!Recorded, Stored
  <2>2. Log!Record(e)
    BY <1>2, <1>6, <2>1 DEF Log!Record
  <2> QED
    BY <1>1, <2>2 DEF LogStep, Log!Next
<1> QED
  BY <1>5, <1>7, <1>8

(* Taking the Run from its attempt queues it and mutes the attempt. *)
LEMMA RecoveredEases ==
  ASSUME Faithful, row.status = "bound", row' = Recovered, log' = log,
         muted' = muted \cup {row.gen}
  PROVE  Eases
<1>1. row \in Rows /\ row.gen \in Gen
  BY DEF Faithful, Typed, SaidOK
<1>2. row' \in Rows /\ row'.gen = row.gen /\ row'.next = row.next /\ row'.status = "queued"
  BY <1>1 DEF Recovered, Rows
<1> QED
  BY <1>1, <1>2 DEF Eases

LEMMA CommitsKeep ==
  ASSUME Faithful, said' = said, NEW e \in said, Commits(e)
  PROVE  RowMoves /\ LogOK' /\ LogStep
<1>1. row \in Rows
  BY DEF Faithful, Typed
<1>2. CASE Skip(e)
  <2>1. CASE Known(e)
    <3>1. Eases
      BY <1>2, <2>1, SameRow DEF Skip
    <3> QED
      BY <3>1, RowEased
  <2>2. CASE ~Known(e)
    <3>1. /\ row.status \in {"ended", "failed"} /\ row.gen = e.gen /\ row.next = e.n
          /\ UNCHANGED <<muted, log>> /\ row' = [row EXCEPT !.next = @ + 1]
      BY <1>2, <2>2 DEF Skip, LateEvent
    <3>2. row' = [row EXCEPT !.next = @ + 1, !.status = row.status]
      BY <1>1, <3>1 DEF Rows
    <3>3. /\ row' \in Rows /\ row'.gen = row.gen /\ row'.next = row.next + 1
          /\ row'.status = row.status
      BY <1>1, <3>1, <3>2, Counted
    <3> QED
      BY <3>1, <3>3, Passed
  <2> QED
    BY <2>1, <2>2
<1>3. CASE Recover(e)
  <2>1. row.status = "bound" /\ e.gen = row.gen
    BY <1>3 DEF Recover, InTurn, Holds
  <2>2. Eases
    BY <1>3, <2>1, RecoveredEases DEF Recover
  <2> QED
    BY <2>2, RowEased
<1>4. CASE Absorb(e)
  <2> DEFINE st == IF e.kind = "cut" THEN "queued" ELSE row.status
  <2>1. /\ e.gen = row.gen /\ e.n = row.next /\ row.status = "bound" /\ row.gen \in muted
        /\ UNCHANGED <<muted, log>> /\ row' = [row EXCEPT !.next = @ + 1, !.status = st]
    BY <1>4 DEF Absorb, InTurn, Holds, Superseded
  <2>2. st \in {"queued", "bound", "ended", "failed"} /\ (st = "bound" => row.status = "bound")
    BY <2>1
  <2> HIDE DEF st
  <2>3. /\ row' \in Rows /\ row'.gen = row.gen /\ row'.next = row.next + 1
        /\ row'.status = st
    BY <2>1, <2>2, Counted
  <2> QED
    BY <2>1, <2>3, Passed
<1>5. CASE Store(e)
  BY <1>5, StoreKeeps
<1> QED
  BY <1>2, <1>3, <1>4, <1>5 DEF Commits

-----------------------------------------------------------------------------
(* 6. The Host's steps. *)

(* Answers to the Runner begin no attempt. *)
LEMMA Answered ==
  ASSUME Faithful, sock' = sock, NEW s \in Socket, NEW x \in FrameSet, x.type # "execute",
         down' = [down EXCEPT ![s] = @ \o <<x>>] \/ down' = [down EXCEPT ![s] = Append(@, x)],
         s = sock
  PROVE  Queues
<1>1. down \in [Socket -> Seq(FrameSet)] /\ \A t \in Socket : t # sock => down[t] = <<>>
  BY DEF Faithful, Typed, DownOK
<1>2. /\ down' \in [Socket -> Seq(FrameSet)] /\ \A t \in Socket : t # s => down'[t] = down[t]
      /\ Len(down[s]) \in Nat /\ Len(down'[s]) = Len(down[s]) + 1
      /\ down'[s][Len(down[s]) + 1] = x
      /\ \A i \in 1..Len(down[s]) : down'[s][i] = down[s][i]
  <2>1. CASE down' = [down EXCEPT ![s] = @ \o <<x>>]
    BY <1>1, <2>1, Pushed
  <2>2. CASE down' = [down EXCEPT ![s] = Append(@, x)]
    BY <1>1, <2>2, Pushed
  <2> QED
    BY <2>1, <2>2
<1>3. ASSUME NEW t \in Socket, NEW i \in 1..Len(down'[t]), down'[t][i].type = "execute"
      PROVE  i + 0 \in 1..Len(down[t]) /\ down'[t][i] = down[t][i + 0]
  <2>1. i + 0 = i
    OBVIOUS
  <2>2. CASE t = s
    <3>1. i \in 1..Len(down[s]) \/ i = Len(down[s]) + 1
      BY <1>2, <2>2
    <3>2. i # Len(down[s]) + 1
      BY <1>2, <1>3, <2>2
    <3> QED
      BY <1>2, <2>1, <2>2, <3>1, <3>2
  <2>3. CASE t # s
    BY <1>2, <1>3, <2>1, <2>3
  <2> QED
    BY <2>2, <2>3
<1> QED
  BY <1>1, <1>2, <1>3 DEF Queues

LEMMA Sent ==
  ASSUME Faithful, sock' = sock, NEW s \in Socket, NEW x \in FrameSet, x.type # "execute",
         down' = Send(s, <<x>>)
  PROVE  Queues
  BY Answered, SameDown DEF Send

(* A frame that is no event, as the Host writes it. *)
LEMMA FrameTyped ==
  ASSUME NEW type \in {"attach", "event", "attached", "revoked", "execute", "ack"},
         NEW g \in 0..MaxGen, NEW n \in -1..MaxOrdinal
  PROVE  Frame(type, g, n) \in FrameSet /\ Frame(type, g, n).type = type
         /\ Frame(type, g, n).gen = g /\ Frame(type, g, n).n = n
  BY DEF Frame, FrameSet, Kind

(* A step of the Host in which it reads nothing and dispatches nothing.    *)
LEMMA HostKeeps ==
  ASSUME Faithful, UNCHANGED runner, RowMoves, LogOK', LogStep, Queues, UpStays
  PROVE  Faithful' /\ LogStep
<1>1. UNCHANGED <<held, sock, conn, said>>
  BY DEF runner
<1> QED
  BY <1>1, Kept, SameSockets DEF Fewer

LEMMA RowStepEases ==
  ASSUME Faithful, Expire \/ Supersede \/ HostEnds PROVE Eases
<1>1. UNCHANGED <<runner, up, down, peer, log>> /\ row \in Rows
  BY DEF Expire, Supersede, HostEnds, Faithful, Typed
<1>2. CASE Expire
  BY <1>2, RecoveredEases DEF Expire
<1>3. CASE Supersede
  BY <1>1, <1>3 DEF Supersede, Eases, Faithful, SaidOK
<1>4. CASE HostEnds
  <2>1. /\ row' = [row EXCEPT !.status = "ended"] /\ muted' = muted \cup ({row.gen} \ {0})
    BY <1>4 DEF HostEnds
  <2>2. muted' = muted \/ \E g \in Gen : muted' = muted \cup {g}
    <3>1. CASE row.gen = 0
      BY <2>1, <3>1
    <3>2. CASE row.gen # 0
      <4>1. row.gen \in Gen /\ {row.gen} \ {0} = {row.gen}
        BY <1>1, <3>2 DEF Rows, Gen
      <4> QED
        BY <2>1, <4>1
    <3> QED
      BY <3>1, <3>2
  <2> QED
    BY <1>1, <2>1, <2>2 DEF Eases, Rows
<1> QED
  BY <1>2, <1>3, <1>4

LEMMA RowKeeps ==
  ASSUME Faithful, Expire \/ Supersede \/ HostEnds PROVE Faithful' /\ LogStep
<1>1. UNCHANGED <<runner, up, down, peer, log>>
  BY DEF Expire, Supersede, HostEnds
<1>2. Eases
  BY RowStepEases
<1>3. RowMoves /\ LogOK' /\ LogStep
  BY <1>1, <1>2, RowEased DEF runner
<1>4. Queues /\ UpStays
  BY <1>1, SameDown, SameUp DEF runner
<1> QED
  BY <1>1, <1>3, <1>4, HostKeeps

(* What becomes of one connection, while the others stay. *)
LEMMA OneStays ==
  ASSUME Faithful, NEW s \in Socket, Opened(s), up' = up \/ up' = [up EXCEPT ![s] = <<>>],
         NEW p \in Peers, peer' = [peer EXCEPT ![s] = p],
         p.state = "gone" \/ (p.state = peer[s].state /\ up' = up),
         p.stage = "idle" \/ (peer[s].stage # "idle" /\ p.doing = peer[s].doing)
  PROVE  UpStays
<1>1. /\ peer \in [Socket -> Peers] /\ up \in [Socket -> Seq(FrameSet)]
  BY DEF Faithful, Typed
<1>2. /\ peer' \in [Socket -> Peers] /\ peer'[s] = p
      /\ \A t \in Socket : t # s => peer'[t] = peer[t]
  BY <1>1
<1>3. /\ up' \in [Socket -> Seq(FrameSet)] /\ \A t \in Socket : t # s => up'[t] = up[t]
  BY <1>1, Cleared
<1>4. ASSUME NEW t \in Socket
      PROVE  /\ Opened(t)' <=> Opened(t)
             /\ peer'[t].state = "gone" \/ (peer'[t].state = peer[t].state /\ up'[t] = up[t])
             /\ \/ peer'[t].stage = "idle"
                \/ peer[t].stage # "idle" /\ peer'[t].doing = peer[t].doing
  BY <1>2, <1>3 DEF Opened
<1> QED
  BY <1>2, <1>3, <1>4 DEF UpStays

LEMMA DoneIs ==
  ASSUME NEW p \in Peers
  PROVE  /\ Done(p) \in Peers /\ Done(p).state = p.state /\ Done(p).stage = "idle"
         /\ Done(p).owned = p.owned /\ Done(p).acked = p.acked /\ Done(p).doing = None
         /\ Done(p).revoked = p.revoked
  BY DEF Done, Peers

LEMMA DropKeeps ==
  ASSUME Faithful, NEW s \in Socket, Drop(s) PROVE Faithful' /\ LogStep
<1>1. /\ Live(s) /\ peer' = [peer EXCEPT ![s] = Gone(peer[s])]
      /\ up' = [up EXCEPT ![s] = <<>>] /\ UNCHANGED <<runner, down, row, muted, log>>
  BY DEF Drop
<1>2. /\ Gone(peer[s]) \in Peers /\ Gone(peer[s]).state = "gone"
      /\ Gone(peer[s]).doing = peer[s].doing /\ Gone(peer[s]).stage = peer[s].stage
  BY GoneIs DEF Faithful, Typed
<1>3. UpStays
  BY <1>1, <1>2, OneStays DEF Live, Opened
<1>4. Eases
  BY <1>1, SameRow
<1>5. RowMoves /\ LogOK' /\ LogStep
  BY <1>1, <1>4, RowEased DEF runner
<1> QED
  BY <1>1, <1>3, <1>5, SameDown, HostKeeps DEF runner

LEMMA FlushKeeps ==
  ASSUME Faithful, NEW s \in Socket, FlushAcknowledgements(s) PROVE Faithful' /\ LogStep
<1>1. /\ Live(s) /\ peer[s].acked >= 0 /\ peer' = [peer EXCEPT ![s].acked = -1]
      /\ down' = Send(s, <<Frame("ack", 0, peer[s].acked)>>)
      /\ UNCHANGED <<runner, up, row, muted, log>>
  BY DEF FlushAcknowledgements
<1>2. peer[s] \in Peers /\ peer \in [Socket -> Peers]
  BY DEF Faithful, Typed
<1> DEFINE p == [peer[s] EXCEPT !.acked = -1]
<1>3. peer' = [peer EXCEPT ![s] = p]
  BY <1>1
<1>4. p \in Peers /\ p.state = peer[s].state /\ p.stage = peer[s].stage /\ p.doing = peer[s].doing
  BY <1>2, Bounds DEF Peers
<1> HIDE DEF p
<1>5. UpStays
  <2>1. Opened(s)
    BY <1>1 DEF Live, Opened
  <2> QED
    BY <1>1, <1>3, <1>4, <2>1, OneStays
<1>6. Queues
  <2>1. peer[s].acked \in -1..MaxOrdinal
    BY <1>2 DEF Peers
  <2> QED
    BY <1>1, <2>1, Bounds, FrameTyped, Sent DEF runner
<1>7. Eases
  BY <1>1, SameRow
<1>8. RowMoves /\ LogOK' /\ LogStep
  BY <1>1, <1>7, RowEased DEF runner
<1> QED
  BY <1>1, <1>5, <1>6, <1>8, HostKeeps

LEMMA RefuseKeeps ==
  ASSUME Faithful, NEW s \in Socket, Refuse(s) PROVE Faithful' /\ LogStep
<1>1. /\ peer[s].stage = "taken" /\ peer' = [peer EXCEPT ![s].stage = "refused"]
      /\ UNCHANGED <<runner, up, down, row, muted, log>>
  BY DEF Refuse
<1>2. peer[s] \in Peers /\ peer \in [Socket -> Peers] /\ Opened(s)
  BY <1>1 DEF Faithful, Typed, UpOK
<1> DEFINE p == [peer[s] EXCEPT !.stage = "refused"]
<1>3. peer' = [peer EXCEPT ![s] = p]
  BY <1>1
<1>4. p \in Peers /\ p.state = peer[s].state /\ p.doing = peer[s].doing
  BY <1>2 DEF Peers
<1> HIDE DEF p
<1>5. UpStays
  BY <1>1, <1>2, <1>3, <1>4, OneStays
<1>6. Eases
  BY <1>1, SameRow
<1>7. RowMoves /\ LogOK' /\ LogStep
  BY <1>1, <1>6, RowEased DEF runner
<1> QED
  BY <1>1, <1>5, <1>7, SameDown, HostKeeps DEF runner

LEMMA CommitEffect ==
  ASSUME Faithful, NEW s \in Socket, Commit(s)
  PROVE  /\ peer[s].stage = "taken" /\ Commits(peer[s].doing) /\ UNCHANGED <<runner, up>>
         /\ peer[s].doing \in said /\ Opened(s) /\ AckedTo(s) \in -1..MaxOrdinal
         /\ down' = down \/ down' = Send(s, <<Frame("ack", 0, AckedTo(s))>>)
         /\ \E p \in Peers :
              /\ peer' = [peer EXCEPT ![s] = p] /\ p.state = peer[s].state
              /\ p.stage = "idle" /\ p.doing = None /\ p.revoked = peer[s].revoked
              /\ p.acked = -1 \/ (p.acked = AckedTo(s) /\ ~Terminal(peer[s].doing))
<1> DEFINE e == peer[s].doing
           now == Live(s) /\ Terminal(e)
           a == IF Live(s) /\ ~now THEN AckedTo(s) ELSE -1
           p == [Done(peer[s]) EXCEPT !.acked = a, !.owned = IF now THEN 0 ELSE @]
<1>1. /\ peer[s].stage = "taken" /\ Commits(e) /\ UNCHANGED <<runner, up>>
      /\ down' = down \/ down' = Send(s, <<Frame("ack", 0, AckedTo(s))>>)
  BY DEF Commit
<1>2. peer' = [peer EXCEPT ![s] = p]
  BY DEF Commit
<1>3. /\ e \in said /\ Opened(s) /\ peer[s] \in Peers /\ AckedTo(s) \in -1..MaxOrdinal
  <2>1. e \in said /\ Opened(s) /\ peer[s] \in Peers /\ e \in Event
    BY <1>1 DEF Faithful, Typed, UpOK
  <2>2. e.n \in -1..MaxOrdinal /\ peer[s].acked \in -1..MaxOrdinal
    BY <2>1, Bounds DEF Peers
  <2> QED
    BY <2>1, <2>2 DEF AckedTo
<1>4. /\ p \in Peers /\ p.state = peer[s].state /\ p.stage = "idle" /\ p.doing = None
      /\ p.revoked = peer[s].revoked /\ p.acked = a
  <2> DEFINE o == IF now THEN 0 ELSE Done(peer[s]).owned
  <2>1. a \in -1..MaxOrdinal
    BY <1>3, Bounds
  <2>2. o \in 0..MaxGen
    BY <1>3, Bounds, DoneIs DEF Peers
  <2>3. p = [Done(peer[s]) EXCEPT !.acked = a, !.owned = o]
    OBVIOUS
  <2> HIDE DEF a, o, p
  <2>4. /\ Done(peer[s]) \in Peers /\ Done(peer[s]).state = peer[s].state
        /\ Done(peer[s]).stage = "idle" /\ Done(peer[s]).doing = None
        /\ Done(peer[s]).revoked = peer[s].revoked
    BY <1>3, DoneIs
  <2> QED
    BY <2>1, <2>2, <2>3, <2>4 DEF Peers
<1>5. a = -1 \/ (a = AckedTo(s) /\ ~Terminal(e))
  OBVIOUS
<1> HIDE DEF p, a
<1> QED
  BY <1>1, <1>2, <1>3, <1>4, <1>5

LEMMA CommitKeeps ==
  ASSUME Faithful, NEW s \in Socket, Commit(s) PROVE Faithful' /\ LogStep
<1>1. UpStays
  BY CommitEffect, OneStays
<1>2. Queues
  <2> DEFINE x == Frame("ack", 0, AckedTo(s))
  <2>1. sock' = sock /\ (down' = down \/ down' = Send(s, <<x>>))
    BY CommitEffect DEF runner
  <2>2. x \in FrameSet /\ x.type = "ack"
    <3>1. AckedTo(s) \in -1..MaxOrdinal
      BY CommitEffect
    <3> QED
      BY <3>1, Bounds, FrameTyped
  <2> HIDE DEF x
  <2> QED
    BY <2>1, <2>2, Sent, SameDown
<1>3. RowMoves /\ LogOK' /\ LogStep
  BY CommitEffect, CommitsKeep DEF runner
<1> QED
  BY <1>1, <1>2, <1>3, CommitEffect, HostKeeps

LEMMA CommitFailsKeeps ==
  ASSUME Faithful, NEW s \in Socket, CommitFails(s) PROVE Faithful' /\ LogStep
<1>1. /\ peer[s].stage = "taken" /\ peer' = [peer EXCEPT ![s] = Done(Gone(peer[s]))]
      /\ Commits(peer[s].doing) \/ UNCHANGED <<row, muted, log>>
      /\ up' = [up EXCEPT ![s] = <<>>] /\ UNCHANGED <<runner, down>>
  BY DEF CommitFails
<1>2. peer[s].doing \in said /\ Opened(s) /\ peer[s] \in Peers
  BY <1>1 DEF Faithful, Typed, UpOK
<1> DEFINE p == Done(Gone(peer[s]))
<1>3. p \in Peers /\ p.state = "gone" /\ p.stage = "idle"
  BY <1>2, GoneIs, DoneIs
<1>4. peer' = [peer EXCEPT ![s] = p]
  BY <1>1
<1> HIDE DEF p
<1>5. UpStays
  BY <1>1, <1>2, <1>3, <1>4, OneStays
<1>6. RowMoves /\ LogOK' /\ LogStep
  <2>1. CASE Commits(peer[s].doing)
    BY <1>1, <1>2, <2>1, CommitsKeep DEF runner
  <2>2. CASE UNCHANGED <<row, muted, log>>
    <3>1. Eases
      BY <2>2, SameRow
    <3> QED
      BY <1>1, <3>1, RowEased DEF runner
  <2> QED
    BY <1>1, <2>1, <2>2
<1> QED
  BY <1>1, <1>5, <1>6, SameDown, HostKeeps DEF runner

(* A refusal fails the Run if its attempt still holds it. *)
LEMMA RefusalEases ==
  ASSUME Faithful, NEW e, log' = log,
         row' = IF Holds(e) THEN [row EXCEPT !.status = "failed"] ELSE row,
         muted' = IF Holds(e) THEN muted \cup {e.gen} ELSE muted
  PROVE  Eases
<1>1. CASE Holds(e)
  <2>1. row.status = "bound" /\ row.gen = e.gen /\ row.gen \in Gen /\ row \in Rows
    BY <1>1 DEF Holds, Faithful, SaidOK, Typed
  <2>2. row' \in Rows /\ row'.gen = row.gen /\ row'.next = row.next /\ row'.status = "failed"
    BY <1>1, <2>1 DEF Rows
  <2> QED
    BY <1>1, <2>1, <2>2 DEF Eases
<1>2. CASE ~Holds(e)
  BY <1>2, SameRow
<1> QED
  BY <1>1, <1>2

(* It is over for the reporter's lane; connections may be told to stop.    *)
LEMMA RefusalPeers ==
  ASSUME Faithful, NEW s \in Socket, RefuseEvent(s)
  PROVE  /\ peer' \in [Socket -> Peers]
         /\ \A t \in Socket :
              /\ peer'[t].state = peer[t].state /\ peer'[t].acked = peer[t].acked
              /\ peer[t].revoked => peer'[t].revoked
              /\ \/ t = s /\ peer'[t].stage = "idle" /\ peer'[t].doing = None
                 \/ /\ t # s
                    /\ peer'[t].stage = peer[t].stage /\ peer'[t].doing = peer[t].doing
<1> DEFINE told == {t \in Socket : Live(t) /\ ~(peer[s].owned \notin {0, peer[s].doing.gen})}
           p(t) == IF t = s THEN Done(peer[s]) ELSE peer[t]
<1>1. peer' = [t \in Socket |->
        IF t \in told THEN [p(t) EXCEPT !.revoked = TRUE, !.owned = 0] ELSE p(t)]
  BY DEF RefuseEvent
<1> HIDE DEF told
<1>2. ASSUME NEW t \in Socket
      PROVE  /\ p(t) \in Peers /\ p(t).state = peer[t].state /\ p(t).acked = peer[t].acked
             /\ p(t).revoked = peer[t].revoked
             /\ \/ t = s /\ p(t).stage = "idle" /\ p(t).doing = None
                \/ t # s /\ p(t).stage = peer[t].stage /\ p(t).doing = peer[t].doing
  <2>1. peer[t] \in Peers
    BY DEF Faithful, Typed
  <2> QED
    BY <2>1, DoneIs
<1> HIDE DEF p
<1>3. ASSUME NEW t \in Socket
      PROVE  /\ peer'[t] \in Peers /\ peer'[t].state = p(t).state
             /\ peer'[t].acked = p(t).acked /\ (p(t).revoked => peer'[t].revoked)
             /\ peer'[t].stage = p(t).stage /\ peer'[t].doing = p(t).doing
  <2>1. CASE t \in told
    <3>1. peer'[t] = [p(t) EXCEPT !.revoked = TRUE, !.owned = 0]
      BY <1>1, <2>1
    <3> QED
      BY <1>2, <3>1, Bounds DEF Peers
  <2>2. CASE t \notin told
    <3>1. peer'[t] = p(t)
      BY <1>1, <2>2
    <3> QED
      BY <1>2, <3>1
  <2> QED
    BY <2>1, <2>2
<1>4. peer' \in [Socket -> Peers]
  <2>1. peer' = [t \in Socket |-> peer'[t]]
    BY <1>1
  <2> QED
    BY <1>3, <2>1
<1> QED
  BY <1>2, <1>3, <1>4

(* The Runner's current connection is told, if any is.                     *)
LEMMA RefusalFrames ==
  ASSUME Faithful, NEW s \in Socket, RefuseEvent(s)
  PROVE  \/ down' = down
         \/ /\ sock \in Socket
            /\ down' = [down EXCEPT ![sock] = Append(@, Frame("revoked", 0, 0))]
<1> DEFINE told == {t \in Socket : Live(t) /\ ~(peer[s].owned \notin {0, peer[s].doing.gen})}
           x == Frame("revoked", 0, 0)
<1>1. down' = [t \in Socket |-> IF t \in told /\ t = sock THEN Append(down[t], x) ELSE down[t]]
  BY DEF RefuseEvent
<1> HIDE DEF x
<1>2. down \in [Socket -> Seq(FrameSet)]
  BY DEF Faithful, Typed
<1>3. CASE sock \in told
  <2>1. down' = [down EXCEPT ![sock] = Append(@, x)]
    BY <1>1, <1>2, <1>3
  <2> QED
    BY <1>3, <2>1 DEF x
<1>4. CASE sock \notin told
  BY <1>1, <1>2, <1>4
<1> QED
  BY <1>3, <1>4

LEMMA RefuseEventKeeps ==
  ASSUME Faithful, NEW s \in Socket, RefuseEvent(s) PROVE Faithful' /\ LogStep
<1> DEFINE e == peer[s].doing
<1>1. /\ UNCHANGED <<runner, up, log>>
      /\ row' = IF Holds(e) THEN [row EXCEPT !.status = "failed"] ELSE row
      /\ muted' = IF Holds(e) THEN muted \cup {e.gen} ELSE muted
  BY DEF RefuseEvent
<1> HIDE DEF e
<1>2. Eases
  BY <1>1, RefusalEases
<1>3. RowMoves /\ LogOK' /\ LogStep
  BY <1>1, <1>2, RowEased DEF runner
<1>4. UpStays
  <2>1. up' = up /\ up' \in [Socket -> Seq(FrameSet)]
    BY <1>1 DEF Faithful, Typed
  <2>2. ASSUME NEW t \in Socket
        PROVE  /\ Opened(t)' <=> Opened(t)
               /\ peer'[t].state = peer[t].state /\ up'[t] = up[t]
               /\ \/ peer'[t].stage = "idle"
                  \/ peer[t].stage # "idle" /\ peer'[t].doing = peer[t].doing
    BY <2>1, RefusalPeers DEF Opened
  <2> QED
    BY <2>1, <2>2, RefusalPeers DEF UpStays
<1>5. Queues
  <2>1. sock' = sock
    BY <1>1 DEF runner
  <2>2. ASSUME NEW x \in FrameSet, x.type # "execute", sock \in Socket,
               down' = [down EXCEPT ![sock] = Append(@, x)]
        PROVE  Queues
    BY <2>1, <2>2, Answered
  <2>3. Frame("revoked", 0, 0) \in FrameSet /\ Frame("revoked", 0, 0).type # "execute"
    BY Bounds, BoundAssumption, FrameTyped
  <2> QED
    BY <2>1, <2>2, <2>3, RefusalFrames, SameDown
<1> QED
  BY <1>1, <1>3, <1>4, <1>5, HostKeeps

(* A frame is read from a connection, which was or becomes attached. *)
LEMMA ReadKeeps ==
  ASSUME Faithful, NEW s \in Socket, up[s] # <<>>, up' = [up EXCEPT ![s] = Tail(@)],
         NEW p \in Peers, peer' = [peer EXCEPT ![s] = p], p.state = "attached",
         peer[s].state \in {"up", "attached"},
         p.stage # "idle" => p.doing \in said, said' = said
  PROVE  /\ UpOK' /\ OpenedInOrder'
         /\ up' \in [Socket -> Seq(FrameSet)] /\ peer' \in [Socket -> Peers]
<1>1. /\ peer \in [Socket -> Peers] /\ up \in [Socket -> Seq(FrameSet)]
  BY DEF Faithful, Typed
<1>2. /\ up' \in [Socket -> Seq(FrameSet)] /\ \A t \in Socket : t # s => up'[t] = up[t]
      /\ Len(up[s]) \in Nat \ {0} /\ Len(up'[s]) = Len(up[s]) - 1
      /\ \A i \in 1..Len(up'[s]) : up'[s][i] = up[s][i + 1]
  BY <1>1, Popped
<1>3. /\ peer' \in [Socket -> Peers] /\ peer'[s] = p
      /\ \A t \in Socket : t # s => peer'[t] = peer[t]
  BY <1>1
<1>4. \A t \in Socket : Opened(t)' <=> Opened(t)
  BY <1>3 DEF Opened
<1>5. OpenedInOrder'
  BY <1>4, OpenKept DEF Faithful
<1>6. UpOK'
  <2> SUFFICES ASSUME NEW t \in Socket
               PROVE  /\ peer'[t].stage # "idle" => peer'[t].doing \in said' /\ Opened(t)'
                      /\ peer'[t].state = "attached" =>
                           \A i \in 1..Len(up'[t]) : Carries(up'[t][i]) \in said'
                      /\ peer'[t].state = "up" =>
                           up'[t] # <<>> /\ \A i \in 2..Len(up'[t]) : Carries(up'[t][i]) \in said'
    BY DEF UpOK
  <2>1. /\ peer[t].stage # "idle" => peer[t].doing \in said /\ Opened(t)
        /\ peer[t].state = "attached" => \A i \in 1..Len(up[t]) : Carries(up[t][i]) \in said
        /\ peer[t].state = "up" =>
             up[t] # <<>> /\ \A i \in 2..Len(up[t]) : Carries(up[t][i]) \in said
    BY DEF Faithful, UpOK
  <2>2. CASE t = s
    <3>1. \A i \in 1..Len(up'[s]) : i + 1 \in 2..Len(up[s]) /\ i + 1 \in 1..Len(up[s])
      BY <1>2
    <3>2. \A i \in 2..Len(up[s]) : Carries(up[s][i]) \in said
      <4>1. \A i \in 2..Len(up[s]) : i \in 1..Len(up[s])
        BY <1>2
      <4> QED
        BY <2>1, <2>2, <4>1
    <3>3. \A i \in 1..Len(up'[s]) : Carries(up'[s][i]) \in said'
      BY <1>2, <3>1, <3>2
    <3>4. Opened(t)'
      BY <1>3, <2>2 DEF Opened
    <3> QED
      BY <1>3, <2>2, <3>3, <3>4
  <2>3. CASE t # s
    BY <1>2, <1>3, <1>4, <2>1, <2>3
  <2> QED
    BY <2>2, <2>3
<1> QED
  BY <1>2, <1>3, <1>5, <1>6

LEMMA AttachEases == ASSUME Faithful, NEW s \in Socket, Attach(s) PROVE Eases
<1> DEFINE f == Head(up[s])
           bound == row.status = "bound"
           mine == bound /\ f.gen = row.gen
           goesOn == mine /\ f.n >= row.next
<1>1. /\ row' = IF mine THEN (IF goesOn THEN row ELSE [row EXCEPT !.status = "failed"])
                ELSE IF bound THEN Recovered ELSE row
      /\ muted' = IF bound /\ ~goesOn THEN muted \cup {row.gen} ELSE muted
      /\ log' = log
  BY DEF Attach
<1>2. CASE mine /\ ~goesOn
  <2>1. row.gen \in Gen /\ row \in Rows
    BY <1>2 DEF Faithful, SaidOK, Typed
  <2>2. row' = [row EXCEPT !.status = "failed"] /\ muted' = muted \cup {row.gen}
    BY <1>1, <1>2
  <2>3. row' \in Rows /\ row'.gen = row.gen /\ row'.next = row.next /\ row'.status = "failed"
    BY <2>1, <2>2 DEF Rows
  <2> QED
    BY <1>1, <2>1, <2>2, <2>3 DEF Eases
<1>3. CASE bound /\ ~mine
  BY <1>1, <1>3, RecoveredEases
<1>4. CASE goesOn \/ ~bound
  BY <1>1, <1>4, SameRow
<1> QED
  BY <1>2, <1>3, <1>4

LEMMA AttachKeeps == ASSUME Faithful, NEW s \in Socket, Attach(s) PROVE Faithful' /\ LogStep
<1> DEFINE f == Head(up[s])
           bound == row.status = "bound"
           mine == bound /\ f.gen = row.gen
           goesOn == mine /\ f.n >= row.next
           x == IF goesOn THEN Frame("attached", f.gen, row.next) ELSE Frame("attached", 0, 0)
           g == IF goesOn THEN f.gen ELSE 0
           p == [peer[s] EXCEPT !.state = "attached", !.owned = g]
<1>1. /\ peer[s].state = "up" /\ up[s] # <<>> /\ UNCHANGED <<runner, log>>
      /\ row' = IF mine THEN (IF goesOn THEN row ELSE [row EXCEPT !.status = "failed"])
                ELSE IF bound THEN Recovered ELSE row
      /\ muted' = IF bound /\ ~goesOn THEN muted \cup {row.gen} ELSE muted
      /\ up' = [up EXCEPT ![s] = Tail(@)]
      /\ down' = Send(s, <<x>>)
      /\ peer' = [peer EXCEPT ![s].state = "attached", ![s].owned = g]
  BY DEF Attach
<1>2. /\ peer \in [Socket -> Peers] /\ up \in [Socket -> Seq(FrameSet)] /\ row \in Rows
      /\ UNCHANGED <<held, sock, conn, said>>
  BY <1>1 DEF Faithful, Typed, runner
<1>3. f \in FrameSet
  BY <1>1, <1>2, Popped
<1> HIDE DEF f
<1>4. g \in 0..MaxGen /\ x \in FrameSet /\ x.type # "execute"
  <2>1. f.gen \in 0..MaxGen /\ row.next \in -1..MaxOrdinal /\ 0 \in -1..MaxOrdinal
    BY <1>2, <1>3, BoundAssumption DEF FrameSet, Rows
  <2>2. Frame("attached", f.gen, row.next) \in FrameSet /\ Frame("attached", 0, 0) \in FrameSet
        /\ Frame("attached", f.gen, row.next).type = "attached"
        /\ Frame("attached", 0, 0).type = "attached"
    BY <2>1, Bounds, FrameTyped
  <2> QED
    BY <2>1, <2>2, Bounds
<1>5. Eases
  BY AttachEases
<1> HIDE DEF x, g, mine, goesOn, bound
<1>6. Queues
  BY <1>1, <1>2, <1>4, Sent
<1>7. p \in Peers /\ p.state = "attached" /\ p.doing = peer[s].doing /\ p.stage = peer[s].stage
      /\ peer' = [peer EXCEPT ![s] = p]
  BY <1>1, <1>2, <1>4 DEF Peers
<1> HIDE DEF p
<1>8. p.stage # "idle" => p.doing \in said
  BY <1>7 DEF Faithful, UpOK
<1>9. /\ UpOK' /\ OpenedInOrder'
      /\ up' \in [Socket -> Seq(FrameSet)] /\ peer' \in [Socket -> Peers]
  BY <1>1, <1>2, <1>7, <1>8, ReadKeeps
<1>10. RowMoves /\ LogOK' /\ LogStep
  BY <1>2, <1>5, RowEased
<1>11. Typed'
  BY <1>2, <1>6, <1>9, <1>10 DEF Faithful, Typed, RowMoves, Queues
<1>12. SaidOK'
  BY <1>2, <1>10, SaidKept DEF Fewer
<1>13. DownOK'
  <2>1. /\ row'.gen = row.gen /\ (row'.next # row.next => \E e \in said : e.gen = row.gen)
        /\ held.gen \in Nat /\ held' \in Executions
    BY <1>10, <1>11 DEF RowMoves, Typed, Faithful, Executions
  <2> QED
    BY <1>2, <1>6, <2>1, DownKept
<1> QED
  BY <1>9, <1>10, <1>11, <1>12, <1>13 DEF Faithful

LEMMA TakeKeeps == ASSUME Faithful, NEW s \in Socket, Take(s) PROVE Faithful' /\ LogStep
<1> DEFINE f == Head(up[s])
<1>1. /\ peer[s].state = "attached" /\ up[s] # <<>> /\ peer[s].stage = "idle"
      /\ peer' = IF peer[s].revoked THEN peer
                 ELSE [peer EXCEPT ![s].stage = "taken", ![s].doing = Carries(f)]
      /\ up' = [up EXCEPT ![s] = Tail(@)]
      /\ UNCHANGED <<runner, down, row, muted, log>>
  BY DEF Take, Carries
<1>2. /\ peer \in [Socket -> Peers] /\ up \in [Socket -> Seq(FrameSet)]
      /\ UNCHANGED <<held, sock, conn, said>>
  BY <1>1 DEF Faithful, Typed, runner
<1>3. Carries(f) \in said
  <2>1. Len(up[s]) \in Nat \ {0} /\ f = up[s][1]
    BY <1>1, <1>2, Popped
  <2>2. 1 \in 1..Len(up[s])
    BY <2>1
  <2> QED
    BY <1>1, <2>1, <2>2 DEF Faithful, UpOK
<1> HIDE DEF f
<1> DEFINE e == Carries(f)
           p == IF peer[s].revoked THEN peer[s]
                ELSE [peer[s] EXCEPT !.stage = "taken", !.doing = e]
<1>4. e \in said /\ e \in Event
  BY <1>3 DEF Faithful, Typed
<1> HIDE DEF e
<1>5. p \in Peers /\ p.state = "attached" /\ (p.stage # "idle" => p.doing = e)
      /\ peer' = [peer EXCEPT ![s] = p]
  <2>1. CASE peer[s].revoked
    BY <1>1, <1>2, <2>1
  <2>2. CASE ~peer[s].revoked
    <3>1. peer' = [peer EXCEPT ![s].stage = "taken", ![s].doing = e]
          /\ p = [peer[s] EXCEPT !.stage = "taken", !.doing = e]
      BY <1>1, <2>2 DEF e
    <3> HIDE DEF p
    <3>2. peer[s] \in Peers /\ e \in Event
      BY <1>2, <1>4
    <3>3. p \in Peers /\ p.state = peer[s].state /\ p.doing = e
      BY <3>1, <3>2 DEF Peers
    <3>4. peer' = [peer EXCEPT ![s] = p]
      BY <1>2, <3>1
    <3> QED
      BY <1>1, <3>3, <3>4
  <2> QED
    BY <2>1, <2>2
<1> HIDE DEF p
<1>6. /\ UpOK' /\ OpenedInOrder'
      /\ up' \in [Socket -> Seq(FrameSet)] /\ peer' \in [Socket -> Peers]
  BY <1>1, <1>2, <1>4, <1>5, ReadKeeps
<1>7. Eases /\ Queues
  BY <1>1, <1>2, SameRow, SameDown
<1>8. RowMoves /\ LogOK' /\ LogStep
  BY <1>2, <1>7, RowEased
<1>9. Typed'
  BY <1>2, <1>6, <1>7, <1>8 DEF Faithful, Typed, RowMoves, Queues
<1>10. SaidOK'
  BY <1>2, <1>8, SaidKept DEF Fewer
<1>11. DownOK'
  BY <1>1, <1>2 DEF Faithful, DownOK, Begins
<1> QED
  BY <1>6, <1>8, <1>9, <1>10, <1>11 DEF Faithful

(* The next attempt is numbered after all that began or spoke, and starts  *)
(* from the Host's next ordinal.                                           *)
LEMMA DispatchKeeps ==
  ASSUME Faithful, NEW s \in Socket, Dispatch(s) PROVE Faithful' /\ LogStep
<1> DEFINE g == row.gen + 1
           x == Frame("execute", g, row.next)
           p == [peer[s] EXCEPT !.owned = g, !.revoked = FALSE]
<1>1. /\ row.status = "queued" /\ row.gen < MaxGen /\ peer[s].state = "attached"
      /\ row' = [row EXCEPT !.status = "bound", !.gen = @ + 1]
      /\ peer' = [peer EXCEPT ![s].owned = g, ![s].revoked = FALSE]
      /\ down' = Send(s, <<x>>)
      /\ UNCHANGED <<runner, up, muted, log>>
  BY DEF Dispatch
<1>2. /\ peer \in [Socket -> Peers] /\ row \in Rows /\ held \in Executions
      /\ down \in [Socket -> Seq(FrameSet)]
      /\ UNCHANGED <<held, sock, conn, said>>
      /\ \A e \in said : e.gen \in Nat
  BY <1>1 DEF Faithful, Typed, runner, Event, Gen
<1>3. /\ g \in Gen /\ g \in 1..MaxGen /\ g \in 0..MaxGen /\ g = row.gen + 1 /\ row.gen \in Nat
      /\ row.next \in 0..MaxOrdinal
  BY <1>1, <1>2, BoundAssumption DEF Rows, Gen
<1>4. x \in FrameSet /\ x.type = "execute" /\ x.gen = g /\ x.n = row.next
  <2>1. g \in 0..MaxGen /\ row.next \in -1..MaxOrdinal
    BY <1>3
  <2> HIDE DEF g
  <2> QED
    BY <2>1, FrameTyped
<1>5. /\ row' \in Rows /\ row'.gen = g /\ row'.next = row.next /\ row'.status = "bound"
  <2>1. row' = [row EXCEPT !.status = "bound", !.gen = g]
    BY <1>1
  <2> HIDE DEF g
  <2> QED
    BY <1>2, <1>3, <2>1 DEF Rows
<1>6. p \in Peers /\ p.state = peer[s].state /\ p.doing = peer[s].doing /\ p.stage = peer[s].stage
      /\ peer' = [peer EXCEPT ![s] = p]
  <2> HIDE DEF g
  <2> QED
    BY <1>1, <1>2, <1>3 DEF Peers
<1> HIDE DEF x, p, g
<1>7. UpStays
  <2>1. Opened(s)
    BY <1>1 DEF Opened
  <2> QED
    BY <1>1, <1>6, <2>1, OneStays
<1>8. UpOK' /\ OpenedInOrder'
  BY <1>2, <1>7, UpKept
<1>9. /\ down' \in [Socket -> Seq(FrameSet)]
      /\ \A t \in Socket : t # sock => down'[t] = <<>>
      /\ \A t \in Socket : \A i \in 1..Len(down'[t]) :
           \/ i \in 1..Len(down[t]) /\ down'[t][i] = down[t][i]
           \/ i = Len(down[t]) + 1 /\ down'[t][i] = x
  <2>1. \A t \in Socket : t # sock => down[t] = <<>>
    BY DEF Faithful, DownOK
  <2>2. CASE sock = s
    <3>1. down' = [down EXCEPT ![s] = @ \o <<x>>]
      BY <1>1, <2>2 DEF Send
    <3>2. /\ down' \in [Socket -> Seq(FrameSet)]
          /\ \A t \in Socket : t # s => down'[t] = down[t]
          /\ Len(down[s]) \in Nat /\ Len(down'[s]) = Len(down[s]) + 1
          /\ down'[s][Len(down[s]) + 1] = x
          /\ \A i \in 1..Len(down[s]) : down'[s][i] = down[s][i]
      BY <1>2, <1>4, <3>1, Pushed
    <3>3. ASSUME NEW t \in Socket, NEW i \in 1..Len(down'[t])
          PROVE  \/ i \in 1..Len(down[t]) /\ down'[t][i] = down[t][i]
                 \/ i = Len(down[t]) + 1 /\ down'[t][i] = x
      BY <3>2, <3>3
    <3> QED
      BY <2>1, <2>2, <3>2, <3>3
  <2>3. CASE sock # s
    BY <1>1, <1>2, <2>1, <2>3 DEF Send
  <2> QED
    BY <2>2, <2>3
<1>10. \A t \in Socket : Len(down[t]) \in Nat
  BY <1>2, LenProperties
<1>11. held.gen <= row.gen /\ held.gen \in Nat /\ \A e \in said : e.gen <= row.gen
  BY <1>2, <1>3 DEF Faithful, SaidOK, Executions
<1>12. ASSUME NEW t \in Socket, NEW i \in 1..Len(down'[t]), Begins(t, i)'
       PROVE  /\ \/ Begins(t, i) /\ down'[t][i] = down[t][i] /\ down[t][i].gen \in 1..row.gen
                 \/ i = Len(down[t]) + 1 /\ down'[t][i] = x
              /\ down'[t][i].gen \in 1..g /\ held.gen < down'[t][i].gen /\ down'[t][i].n >= 0
              /\ \A e \in said : e.gen < down'[t][i].gen
              /\ down'[t][i].gen = g => down'[t][i].n = row.next
  <2>1. CASE i \in 1..Len(down[t]) /\ down'[t][i] = down[t][i]
    <3> DEFINE f == down[t][i]
    <3>1. Begins(t, i)
      BY <1>12, <2>1 DEF Begins
    <3>2. /\ f.gen \in 1..row.gen /\ held.gen < f.gen /\ f.n >= 0
          /\ \A e \in said : e.gen < f.gen
      BY <2>1, <3>1 DEF Faithful, DownOK
    <3> HIDE DEF f
    <3>3. f.gen \in 1..g /\ f.gen # g
      BY <1>3, <3>2
    <3> QED
      BY <2>1, <3>1, <3>2, <3>3 DEF f
  <2>2. CASE i = Len(down[t]) + 1 /\ down'[t][i] = x
    <3>1. x.gen \in 1..g /\ held.gen < x.gen /\ x.n >= 0 /\ \A e \in said : e.gen < x.gen
      BY <1>2, <1>3, <1>4, <1>11
    <3> QED
      BY <1>4, <2>2, <3>1
  <2> QED
    BY <1>9, <1>12, <2>1, <2>2
<1>13. DownOK'
  <2>1. ASSUME NEW t \in Socket, NEW i \in 1..Len(down'[t]), NEW j \in 1..Len(down'[t]),
               Begins(t, i)', Begins(t, j)', i < j
        PROVE  down'[t][i].gen < down'[t][j].gen
    <3>1. Begins(t, i) /\ down'[t][i] = down[t][i] /\ down[t][i].gen \in 1..row.gen
      <4>1. i # Len(down[t]) + 1
        <5>1. j \in 1..Len(down[t]) \/ j = Len(down[t]) + 1
          BY <1>9
        <5> QED
          BY <1>10, <2>1, <5>1
      <4> QED
        BY <1>12, <2>1, <4>1
    <3>2. CASE Begins(t, j) /\ down'[t][j] = down[t][j]
      <4>1. i \in 1..Len(down[t]) /\ j \in 1..Len(down[t])
        BY <3>1, <3>2 DEF Begins
      <4> QED
        BY <2>1, <3>1, <3>2, <4>1 DEF Faithful, DownOK
    <3>3. CASE down'[t][j] = x
      BY <1>3, <1>4, <3>1, <3>3
    <3> QED
      BY <1>12, <2>1, <3>2, <3>3
  <2>2. \A t \in Socket : t # sock' => down'[t] = <<>>
    BY <1>2, <1>9
  <2> QED
    BY <1>2, <1>5, <1>12, <2>1, <2>2 DEF DownOK
<1>14. SaidOK'
  <2>1. \A e \in said : e.gen <= g
    BY <1>2, <1>3, <1>11
  <2>2. held.gen # g /\ (held.phase # "none" => held.gen \in 1..g)
    BY <1>3, <1>11 DEF Faithful, SaidOK
  <2> QED
    BY <1>2, <1>3, <1>5, <2>1, <2>2 DEF Faithful, SaidOK
<1>15. Typed'
  BY <1>1, <1>2, <1>5, <1>7, <1>9 DEF Faithful, Typed, UpStays
<1>16. LogOK'
  <2>1. Stored' = Stored /\ \A e \in Stored : e \in said /\ e.gen <= row.gen /\ e.n < row.next
        /\ e.kind = "note"
    BY <1>1 DEF Stored, Faithful, LogOK
  <2>2. \A e \in Stored' : e \in said' /\ e.gen <= row'.gen /\ e.n < row'.next
    BY <1>2, <1>3, <1>5, <2>1
  <2>3. \A e \in said' : e.gen # row'.gen
    BY <1>2, <1>3, <1>5, <1>11
  <2> QED
    BY <2>1, <2>2, <2>3 DEF LogOK
<1>17. LogStep
  BY <1>1, <1>2 DEF LogStep, Log!vars
<1> QED
  BY <1>8, <1>13, <1>14, <1>15, <1>16, <1>17 DEF Faithful

-----------------------------------------------------------------------------
(* 7. The theorems. *)

LEMMA InitFaithful == Init => Faithful
<1> SUFFICES ASSUME Init PROVE Faithful
  OBVIOUS
<1>1. \A s \in Socket : up[s] = <<>> /\ down[s] = <<>> /\ peer[s] = NoPeer
  BY DEF Init
<1>2. NoPeer \in Peers /\ NoPeer.state = "none" /\ NoPeer.stage = "idle"
  BY Bounds DEF NoPeer, Peers
<1>3. Typed
  <2>1. up \in [Socket -> Seq(FrameSet)] /\ down \in [Socket -> Seq(FrameSet)]
    BY NoFrames DEF Init
  <2>2. peer \in [Socket -> Peers]
    BY <1>2 DEF Init
  <2>3. row \in Rows /\ held \in Executions /\ log \in Seq(Event)
    BY NotHeldTyped, Bounds, BoundAssumption DEF Init, Rows
  <2> QED
    BY <2>1, <2>2, <2>3, BoundAssumption DEF Init, Typed
<1>4. SaidOK
  BY NotHeldTyped DEF Init, SaidOK
<1>5. OpenedInOrder
  <2>1. \A s \in Socket : Opened(s) <=> s <= 0
    BY <1>1, <1>2 DEF Opened, Socket
  <2> QED
    BY <2>1, BoundAssumption DEF OpenedInOrder
<1>6. UpOK
  BY <1>1, <1>2 DEF UpOK
<1>7. DownOK
  BY <1>1, NoFrames DEF DownOK
<1>8. LogOK
  BY DEF Init, LogOK, Stored
<1> QED
  BY <1>3, <1>4, <1>5, <1>6, <1>7, <1>8 DEF Faithful

LEMMA FaithfulStep == ASSUME Faithful, [Next]_vars PROVE Faithful' /\ LogStep
<1>1. CASE \E kind \in Kind : Emit(kind)
  BY <1>1, EmitKeeps
<1>2. CASE SendNext
  BY <1>2, SendNextKeeps
<1>3. CASE SendSettles \/ Finish \/ Leave
  BY <1>3, RunnerAloneKeeps
<1>4. CASE Hear
  BY <1>4, HearKeeps
<1>5. CASE LoseSocket \/ Crash
  BY <1>5, LoseSocketKeeps
<1>6. CASE Connect
  BY <1>6, ConnectKeeps
<1>7. ASSUME NEW s \in Socket, Delivery(s) PROVE Faithful' /\ LogStep
  BY <1>7, AttachKeeps, TakeKeeps, CommitKeeps, FlushKeeps, RefuseKeeps, RefuseEventKeeps
     DEF Delivery
<1>8. ASSUME NEW s \in Socket, Drop(s) \/ CommitFails(s) \/ Dispatch(s)
      PROVE  Faithful' /\ LogStep
  BY <1>8, DropKeeps, CommitFailsKeeps, DispatchKeeps
<1>9. CASE Expire \/ Supersede \/ HostEnds
  BY <1>9, RowKeeps
<1>10. CASE UNCHANGED vars
  <2>1. /\ UNCHANGED <<held, sock, conn, said, up, down, peer, row, muted, log>>
    BY <1>10 DEF vars, runner
  <2> QED
    BY <2>1, RunnerKeeps, SameDown, SameUp, SameSockets DEF Fewer
<1> QED
  BY <1>1, <1>2, <1>3, <1>4, <1>5, <1>6, <1>7, <1>8, <1>9, <1>10 DEF Next

(* What commitRunnerEvent rests on, of the Runner, the wire and the row.   *)
THEOREM FaithfulHolds == Spec => []Faithful
<1>1. Faithful /\ [Next]_vars => Faithful'
  BY FaithfulStep
<1> QED
  BY InitFaithful, <1>1, PTL DEF Spec

(* The log of a Run implements EventLog, whatever commitRunnerEvent is     *)
(* given again, late or not at all.                                        *)
THEOREM LogIsKept == Spec => LogImplemented
<1>1. Init => Log!Init
  BY DEF Init, Log!Init
<1>2. Faithful /\ [Next]_vars => [Log!Next]_(Log!vars)
  BY FaithfulStep DEF LogStep
<1> QED
  BY FaithfulHolds, <1>1, <1>2, PTL DEF Spec, LogImplemented, Log!Spec

-----------------------------------------------------------------------------
(* 8. No attempt that holds the Run is refused or forgotten: what reaches   *)
(* the Host is in turn, and what the Runner forgets has been counted.      *)

(* The Runner counts each send on the connection it was made on, and each  *)
(* connection is answered once, before anything is sent on it.             *)
Bound == row.status = "bound"
Sends == sending # NotSending /\ sending.on = conn /\ sending.event.gen = held.gen

SendingOK ==
  /\ sending = NotSending \/ /\ sending \in [on : Socket, event : said]
                             /\ Opened(sending.on)
  /\ sending.on = sock => conn = sock
  /\ held.sent \in -1..MaxOrdinal /\ \A e \in held.kept : e.gen = held.gen
  /\ Sends => sending.event.n = held.sent + 1

Answers(s, i) == i \in 1..Len(down[s]) /\ down[s][i].type = "attached"

PeersOK ==
  /\ \A s, t \in Socket : Live(s) /\ Opened(t) => t <= s
  /\ conn # 0 => peer[conn].state # "up"
  /\ sock # 0 => Opened(sock)
  /\ \A s \in Socket :
       /\ peer[s].stage = "idle" => peer[s].doing = None
       /\ peer[s].state = "up" => peer[s].stage = "idle" /\ Len(up[s]) = 1
       /\ \A i \in 1..Len(down[s]) : Answers(s, i) =>
            /\ conn = 0 /\ peer[s].state # "up" /\ down[s][i].n \in 0..row.next
            /\ \A j \in 1..Len(down[s]) : Answers(s, j) => i = j

(* An inventory announces as much as the Host has, and more than any lane  *)
(* is still committing of that attempt.                                    *)
InventoryOK ==
  \A s \in Socket : peer[s].state = "up" =>
    /\ Bound /\ up[s][1].gen = row.gen => row.next <= up[s][1].n
    /\ \A t \in Socket : peer[t].stage # "idle" /\ peer[t].doing.gen = up[s][1].gen =>
         peer[t].doing.n < up[s][1].n

(* Events reach each lane in turn: what comes before an event on its way is *)
(* ahead of it, or recorded.                                               *)
Ahead(s, i) == IF i = 1 THEN [gen |-> peer[s].doing.gen, n |-> peer[s].doing.n]
               ELSE [gen |-> up[s][i - 1].gen, n |-> up[s][i - 1].n]

Reached(s, i, n) == n <= row.next \/ (Ahead(s, i).gen = row.gen /\ n <= Ahead(s, i).n + 1)

LaneInTurn ==
  \A s \in Socket : Bound /\ peer[s].stage # "idle" /\ peer[s].doing.gen = row.gen =>
    peer[s].stage = "taken" /\ peer[s].doing.n <= row.next

QueueInTurn ==
  \A s \in Socket : Bound /\ peer[s].state = "attached" /\ ~peer[s].revoked =>
    \A i \in 1..Len(up[s]) : up[s][i].gen = row.gen => Reached(s, i, up[s][i].n)

PumpInTurn ==
  /\ Bound /\ held.gen = row.gen /\ held.phase # "revoked" /\ conn # 0
  /\ peer[conn].state = "attached" /\ ~peer[conn].revoked
  => Reached(conn, Len(up[conn]) + 1, held.sent + (IF Sends THEN 2 ELSE 1))

LanesOK == LaneInTurn /\ QueueInTurn /\ PumpInTurn

(* Attempts begin after what is recorded of the ones before. *)
StartsOK ==
  /\ row.lost <= row.gen /\ (Bound => row.lost < row.gen)
  /\ \A d \in Stored : /\ \A e \in said : d.gen < e.gen => d.n < e.n
                       /\ d.gen < held.gen => d.n < held.next
                       /\ \A s \in Socket : \A i \in 1..Len(down[s]) :
                            Begins(s, i) /\ d.gen < down[s][i].gen => d.n < down[s][i].n

(* Only what the Host has counted is acknowledged, but for the ordinal at  *)
(* which it took the Run back, which the next attempt learns of first.     *)
AcksOK ==
  \A s \in Socket :
    /\ peer[s].acked < row.next
    /\ \A i \in 1..Len(down[s]) : down[s][i].type = "ack" =>
         \/ down[s][i].n < row.next
         \/ ~Bound
         \/ /\ held.gen # row.gen
            /\ \A j \in 1..Len(down[s]) : Begins(s, j) /\ down[s][j].gen = row.gen => i < j

Sound == /\ Faithful /\ SendingOK /\ PeersOK /\ InventoryOK /\ LanesOK /\ StartsOK /\ AcksOK
         /\ NothingForgotten /\ NeverFailed

-----------------------------------------------------------------------------
(* 9. Steps that send, attach, begin and bind nothing. *)

(* A queue of the Runner loses its first frame, or all, or grows by a      *)
(* revocation or by an acknowledgement of what is counted.                 *)
Tame(f) == \/ f.type = "revoked"
           \/ f.type = "ack" /\ (f.n < row'.next \/ row'.status # "bound")

Grows(new) ==
  \A s \in Socket : \E d \in {0, 1} : \A i \in 1..Len(down'[s]) :
    \/ i + d \in 1..Len(down[s]) /\ down'[s][i] = down[s][i + d]
    \/ down'[s][i] \in new

FramesStay == Grows({f \in FrameSet : Tame(f)})

(* A lane keeps its event, has committed it, gives it up with its          *)
(* connection, or refuses one whose attempt does not hold the Run.         *)
LaneStays(s) ==
  /\ Opened(s)' <=> Opened(s)
  /\ peer'[s].acked < row'.next
  /\ \/ peer'[s].state = "gone"
     \/ /\ peer'[s].state = peer[s].state /\ up'[s] = up[s]
        /\ peer[s].revoked => peer'[s].revoked
  /\ \/ peer'[s].stage = peer[s].stage /\ peer'[s].doing = peer[s].doing
     \/ /\ peer'[s].stage = "idle" /\ peer'[s].doing = None
        /\ peer'[s].state # "gone" /\ Bound' /\ peer[s].doing.gen = row.gen =>
             peer[s].doing.n < row'.next
     \/ /\ peer[s].stage # "idle" /\ peer'[s].stage = "refused"
        /\ peer'[s].doing = peer[s].doing /\ ~(Bound /\ peer[s].doing.gen = row.gen)

(* The ordinal of the Run goes on by an event that a lane holds. *)
RowStays ==
  /\ row'.gen = row.gen /\ (Bound' => Bound)
  /\ row'.lost = row.lost \/ (row'.lost = row.gen /\ ~Bound')
  /\ \/ row'.next = row.next
     \/ /\ row'.next = row.next + 1
        /\ \E s \in Socket : /\ peer[s].stage # "idle" /\ peer[s].doing.gen = row.gen
                             /\ peer[s].doing.n = row.next
  /\ \A d \in Stored' : d \in Stored \/ d.gen = row.gen

HeldStays ==
  \/ held' = NotHeld
  \/ /\ held'.gen = held.gen /\ held'.next = held.next /\ held'.sent = held.sent
     /\ held'.kept \subseteq held.kept
     /\ held'.phase # "revoked" => held.phase # "revoked"

SocketStays ==
  \/ UNCHANGED <<sock, conn, sending>>
  \/ sock' = 0 /\ conn' = 0 /\ sending' \in {sending, NotSending}

Calm == /\ said' = said /\ SocketStays /\ HeldStays /\ RowStays /\ FramesStay
        /\ \A s \in Socket : LaneStays(s)
        /\ NothingForgotten' /\ NeverFailed'

LEMMA Numbers ==
  ASSUME Faithful
  PROVE  /\ row.gen \in Nat /\ row.next \in Nat /\ row.lost \in Nat /\ held.gen \in Nat
         /\ held.next \in Nat /\ held.sent \in Int /\ MaxGen \in Nat /\ MaxOrdinal \in Nat
         /\ \A e \in said : e.gen \in Nat \ {0} /\ e.n \in Nat
         /\ \A e \in Stored : e \in said
         /\ \A s \in Socket : /\ s \in Nat \ {0} /\ peer[s].doing.gen \in Nat
                              /\ peer[s].doing.n \in Nat /\ peer[s].acked \in Int
                              /\ Len(up[s]) \in Nat /\ Len(down[s]) \in Nat
                              /\ \A i \in 1..Len(up[s]) : up[s][i].gen \in Nat /\ up[s][i].n \in Int
                              /\ \A i \in 1..Len(down[s]) :
                                   down[s][i].gen \in Nat /\ down[s][i].n \in Int
<1>1. MaxGen \in Nat /\ MaxOrdinal \in Nat /\ row \in Rows /\ held \in Executions
  BY BoundAssumption DEF Faithful, Typed
<1>2. \A e \in Event : e.gen \in Nat \ {0} /\ e.n \in Nat
  BY <1>1 DEF Event, Gen
<1>3. said \subseteq Event /\ \A e \in Stored : e \in said
  BY DEF Faithful, Typed, LogOK
<1>4. ASSUME NEW s \in Socket
      PROVE  /\ s \in Nat \ {0} /\ peer[s].doing.gen \in Nat
             /\ peer[s].doing.n \in Nat /\ peer[s].acked \in Int
             /\ Len(up[s]) \in Nat /\ Len(down[s]) \in Nat
             /\ \A i \in 1..Len(up[s]) : up[s][i].gen \in Nat /\ up[s][i].n \in Int
             /\ \A i \in 1..Len(down[s]) : down[s][i].gen \in Nat /\ down[s][i].n \in Int
  <2>1. /\ peer[s] \in Peers /\ up[s] \in Seq(FrameSet) /\ down[s] \in Seq(FrameSet)
        /\ s \in Nat \ {0}
    BY BoundAssumption DEF Faithful, Typed, Socket
  <2>2. peer[s].doing \in Event \/ peer[s].doing = None
    BY <2>1 DEF Peers
  <2>3. peer[s].doing.gen \in Nat /\ peer[s].doing.n \in Nat
    BY <1>2, <2>2 DEF None
  <2>4. peer[s].acked \in Int
    BY <1>1, <2>1 DEF Peers
  <2>5. \A f \in FrameSet : f.gen \in Nat /\ f.n \in Int
    BY <1>1 DEF FrameSet
  <2>6. Len(up[s]) \in Nat /\ \A i \in 1..Len(up[s]) : up[s][i] \in FrameSet
    BY <2>1, LenProperties, ElementOfSeq
  <2>7. Len(down[s]) \in Nat /\ \A i \in 1..Len(down[s]) : down[s][i] \in FrameSet
    BY <2>1, LenProperties, ElementOfSeq
  <2> QED
    BY <2>1, <2>3, <2>4, <2>5, <2>6, <2>7
<1>5. row.gen \in Nat /\ row.next \in Nat /\ row.lost \in Nat
  BY <1>1 DEF Rows
<1>6. held.gen \in Nat /\ held.next \in Nat /\ held.sent \in Int
  BY <1>1 DEF Executions
<1> QED
  BY <1>1, <1>2, <1>3, <1>4, <1>5, <1>6

LEMMA SendingKept ==
  ASSUME Sound, said \subseteq said', \A s \in Socket : Opened(s) => Opened(s)',
         SocketStays, HeldStays
  PROVE  SendingOK'
<1>1. /\ sending = NotSending \/ /\ sending \in [on : Socket, event : said]
                                 /\ Opened(sending.on)
      /\ sending.on = sock => conn = sock
      /\ held.sent \in -1..MaxOrdinal /\ \A e \in held.kept : e.gen = held.gen
      /\ Sends => sending.event.n = held.sent + 1
  BY DEF Sound, SendingOK
<1>2. /\ sending' \in {sending, NotSending}
      /\ UNCHANGED <<sock, conn, sending>> \/ (sock' = 0 /\ conn' = 0)
  BY DEF SocketStays
<1>3. sending' = NotSending \/ /\ sending' \in [on : Socket, event : said']
                               /\ Opened(sending.on)'
  BY <1>1, <1>2
<1>4. sending'.on = sock' => conn' = sock'
  BY <1>1, <1>2
<1>5. held'.sent \in -1..MaxOrdinal /\ \A e \in held'.kept : e.gen = held'.gen
  BY <1>1, BoundAssumption DEF HeldStays, NotHeld
<1>6. Sends' => sending'.event.n = held'.sent + 1
  <2> SUFFICES ASSUME Sends' PROVE sending'.event.n = held'.sent + 1
    OBVIOUS
  <2>1. sending' # NotSending /\ sending'.on = conn' /\ sending'.event.gen = held'.gen
    BY DEF Sends
  <2>2. sending' = sending /\ sending.on \in Socket /\ sending.event \in said
    BY <1>1, <1>2, <2>1
  <2>3. UNCHANGED <<sock, conn, sending>>
    BY <1>2, <2>1, <2>2, Bounds
  <2>4. held'.gen = held.gen /\ held'.sent = held.sent
    <3>1. sending.event.gen # 0
      BY <2>2, Numbers DEF Sound
    <3> QED
      BY <2>1, <2>2, <3>1 DEF HeldStays, NotHeld
  <2>5. Sends
    BY <2>1, <2>2, <2>3, <2>4 DEF Sends
  <2> QED
    BY <1>1, <2>2, <2>4, <2>5
<1> QED
  BY <1>3, <1>4, <1>5, <1>6 DEF SendingOK

(* Answers on their way stay, or are read. *)
LEMMA AnswersKept ==
  ASSUME Sound, Faithful', NEW new, Grows(new), \A f \in new : f.type # "attached",
         NEW s \in Socket, conn' = conn \/ conn' = 0, row'.next >= row.next,
         peer'[s].state = "up" => peer[s].state = "up"
  PROVE  \A i \in 1..Len(down'[s]) : Answers(s, i)' =>
           /\ conn' = 0 /\ peer'[s].state # "up" /\ down'[s][i].n \in 0..row'.next
           /\ \A j \in 1..Len(down'[s]) : Answers(s, j)' => i = j
<1>1. PICK d \in {0, 1} : \A i \in 1..Len(down'[s]) :
        (i + d \in 1..Len(down[s]) /\ down'[s][i] = down[s][i + d]) \/ down'[s][i] \in new
  BY DEF Grows
<1>2. ASSUME NEW i \in 1..Len(down'[s]), Answers(s, i)'
      PROVE  /\ i + d \in 1..Len(down[s]) /\ down'[s][i] = down[s][i + d]
             /\ Answers(s, i + d) /\ i \in Nat
  BY <1>1, <1>2 DEF Answers
<1>3. \A i \in 1..Len(down[s]) : Answers(s, i) =>
        /\ conn = 0 /\ peer[s].state # "up" /\ down[s][i].n \in 0..row.next
        /\ \A j \in 1..Len(down[s]) : Answers(s, j) => i = j
  BY DEF Sound, PeersOK
<1>4. row.next \in Nat /\ row'.next \in Nat
  BY Numbers DEF Sound, Faithful, Typed, Rows
<1> SUFFICES ASSUME NEW i \in 1..Len(down'[s]), Answers(s, i)'
             PROVE  /\ conn' = 0 /\ peer'[s].state # "up" /\ down'[s][i].n \in 0..row'.next
                    /\ \A j \in 1..Len(down'[s]) : Answers(s, j)' => i = j
  OBVIOUS
<1>5. conn' = 0 /\ peer'[s].state # "up" /\ down'[s][i].n \in 0..row'.next
  BY <1>2, <1>3, <1>4
<1>6. \A j \in 1..Len(down'[s]) : Answers(s, j)' => i = j
  <2> SUFFICES ASSUME NEW j \in 1..Len(down'[s]), Answers(s, j)' PROVE i = j
    OBVIOUS
  <2>1. i + d = j + d
    BY <1>2, <1>3
  <2> QED
    BY <1>2, <2>1
<1> QED
  BY <1>5, <1>6

LEMMA PeersKept == ASSUME Sound, Faithful', Calm PROVE PeersOK'
<1>1. \A s, t \in Socket : Live(s)' /\ Opened(t)' => t <= s
  <2>1. \A s \in Socket : (Live(s)' => Live(s)) /\ (Opened(s)' => Opened(s))
    BY DEF Calm, LaneStays, Live
  <2> QED
    BY <2>1 DEF Sound, PeersOK
<1>2. conn' # 0 => peer'[conn'].state # "up"
  <2>1. conn' # 0 => conn' = conn /\ conn \in Socket
    BY DEF Calm, SocketStays, Sound, Faithful, Typed, Socket
  <2> QED
    BY <2>1 DEF Calm, LaneStays, Sound, PeersOK
<1>5. sock' # 0 => peer'[sock'].state # "none"
  <2>1. sock' # 0 => sock' = sock /\ sock \in Socket
    BY DEF Calm, SocketStays, Sound, Faithful, Typed, Socket
  <2> QED
    BY <2>1 DEF Calm, LaneStays, Sound, PeersOK, Opened
<1>3. ASSUME NEW s \in Socket
      PROVE  /\ peer'[s].stage = "idle" => peer'[s].doing = None
             /\ peer'[s].state = "up" => peer'[s].stage = "idle" /\ Len(up'[s]) = 1
  BY DEF Calm, LaneStays, Sound, PeersOK
<1>4. ASSUME NEW s \in Socket
      PROVE  \A i \in 1..Len(down'[s]) : Answers(s, i)' =>
               /\ conn' = 0 /\ peer'[s].state # "up" /\ down'[s][i].n \in 0..row'.next
               /\ \A j \in 1..Len(down'[s]) : Answers(s, j)' => i = j
  <2>1. /\ Grows({f \in FrameSet : Tame(f)}) /\ (conn' = conn \/ conn' = 0)
        /\ peer'[s].state = "up" => peer[s].state = "up"
    BY DEF Calm, SocketStays, LaneStays, FramesStay
  <2>2. row'.next >= row.next
    BY Numbers DEF Calm, RowStays, Sound
  <2>3. \A f \in {g \in FrameSet : Tame(g)} : f.type # "attached"
    BY DEF Tame
  <2> QED
    BY <2>1, <2>2, <2>3, AnswersKept
<1> QED
  BY <1>1, <1>2, <1>3, <1>4, <1>5 DEF PeersOK, Opened

LEMMA InventoryKept == ASSUME Sound, Calm PROVE InventoryOK'
<1> SUFFICES ASSUME NEW s \in Socket, peer'[s].state = "up"
             PROVE  /\ Bound' /\ up'[s][1].gen = row'.gen => row'.next <= up'[s][1].n
                    /\ \A t \in Socket :
                         peer'[t].stage # "idle" /\ peer'[t].doing.gen = up'[s][1].gen =>
                           peer'[t].doing.n < up'[s][1].n
  BY DEF InventoryOK
<1> DEFINE f == up[s][1]
<1>1. peer[s].state = "up" /\ up'[s] = up[s]
  BY DEF Calm, LaneStays
<1>2. 1 \in 1..Len(up[s])
  <2>1. Len(up[s]) = 1
    BY <1>1 DEF Sound, PeersOK
  <2> QED
    BY <2>1
<1>3. f.n \in Int /\ row.next \in Nat
  BY <1>2, Numbers DEF Sound
<1>4. /\ Bound /\ f.gen = row.gen => row.next <= f.n
      /\ \A t \in Socket : peer[t].stage # "idle" /\ peer[t].doing.gen = f.gen =>
           peer[t].doing.n < f.n
  BY <1>1 DEF Sound, InventoryOK
<1> HIDE DEF f
<1>5. ASSUME Bound', f.gen = row'.gen PROVE row'.next <= f.n
  <2>1. Bound /\ f.gen = row.gen
    BY <1>5 DEF Calm, RowStays
  <2>2. CASE row'.next = row.next
    BY <1>4, <2>1, <2>2
  <2>3. ASSUME NEW t \in Socket, peer[t].stage # "idle", peer[t].doing.gen = row.gen,
               peer[t].doing.n = row.next, row'.next = row.next + 1
        PROVE  row'.next <= f.n
    BY <1>3, <1>4, <2>1, <2>3
  <2> QED
    BY <2>2, <2>3 DEF Calm, RowStays
<1>6. ASSUME NEW t \in Socket, peer'[t].stage # "idle", peer'[t].doing.gen = f.gen
      PROVE  peer'[t].doing.n < f.n
  <2>1. peer[t].stage # "idle" /\ peer'[t].doing = peer[t].doing
    BY <1>6 DEF Calm, LaneStays
  <2> QED
    BY <1>4, <1>6, <2>1
<1> QED
  BY <1>1, <1>5, <1>6 DEF f

(* Where the Runner's next event goes, it is still in turn. *)
LEMMA ReachedStill ==
  ASSUME Faithful, NEW s \in Socket, NEW i \in 1..(Len(up[s]) + 1), NEW n \in Int,
         Reached(s, i, n), up'[s] = up[s], row'.gen = row.gen, row'.next >= row.next,
         row'.next \in Nat,
         \/ peer'[s].doing = peer[s].doing
         \/ peer[s].doing.gen = row.gen => peer[s].doing.n < row'.next
  PROVE  Reached(s, i, n)'
<1>1. /\ row.next \in Nat /\ Ahead(s, i).n \in Int
  <2>1. CASE i = 1
    BY <2>1, Numbers DEF Ahead
  <2>2. CASE i # 1
    <3>1. i - 1 \in 1..Len(up[s])
      BY <2>2, Numbers
    <3> QED
      BY <2>2, <3>1, Numbers DEF Ahead
  <2> QED
    BY <2>1, <2>2, Numbers
<1>2. CASE n <= row.next
  BY <1>1, <1>2 DEF Reached
<1>3. CASE Ahead(s, i).gen = row.gen /\ n <= Ahead(s, i).n + 1
  <2>1. CASE i # 1 \/ peer'[s].doing = peer[s].doing
    <3>1. Ahead(s, i)' = Ahead(s, i)
      BY <2>1 DEF Ahead
    <3> QED
      BY <1>3, <3>1 DEF Reached
  <2>2. CASE i = 1 /\ (peer[s].doing.gen = row.gen => peer[s].doing.n < row'.next)
    <3>1. n <= peer[s].doing.n + 1 /\ peer[s].doing.n < row'.next /\ peer[s].doing.n \in Int
      BY <1>3, <2>2, Numbers DEF Ahead
    <3>2. n <= row'.next
      BY <3>1
    <3> QED
      BY <3>2 DEF Reached
  <2> QED
    BY <2>1, <2>2
<1> QED
  BY <1>2, <1>3 DEF Reached

LEMMA LanesKept == ASSUME Sound, Faithful', Calm PROVE LanesOK'
<1>1. /\ row'.gen = row.gen /\ (Bound' => Bound) /\ row'.next >= row.next
      /\ row.next \in Nat /\ row'.next \in Nat
  BY Numbers DEF Calm, RowStays, Sound
<1>2. ASSUME NEW s \in Socket, Bound', peer'[s].stage # "idle", peer'[s].doing.gen = row'.gen
      PROVE  peer'[s].stage = "taken" /\ peer'[s].doing.n <= row'.next
  <2>1. /\ peer[s].stage # "idle" /\ peer'[s].doing = peer[s].doing
        /\ peer'[s].stage = peer[s].stage \/ ~(Bound /\ peer[s].doing.gen = row.gen)
    BY <1>2 DEF Calm, LaneStays
  <2>2. peer[s].stage = "taken" /\ peer[s].doing.n <= row.next
    BY <1>1, <1>2, <2>1 DEF Sound, LanesOK, LaneInTurn, QueueInTurn, PumpInTurn
  <2>3. peer[s].doing.n \in Nat
    BY Numbers DEF Sound
  <2> QED
    BY <1>1, <1>2, <2>1, <2>2, <2>3
<1>3. ASSUME NEW s \in Socket, Bound', peer'[s].state = "attached", ~peer'[s].revoked
      PROVE  /\ Bound /\ peer[s].state = "attached" /\ ~peer[s].revoked /\ up'[s] = up[s]
             /\ \A i \in 1..(Len(up[s]) + 1) : \A n \in Int :
                  Reached(s, i, n) => Reached(s, i, n)'
  <2>1. peer[s].state = "attached" /\ ~peer[s].revoked /\ up'[s] = up[s]
    BY <1>3 DEF Calm, LaneStays
  <2>2. \/ peer'[s].doing = peer[s].doing
        \/ peer[s].doing.gen = row.gen => peer[s].doing.n < row'.next
    BY <1>3 DEF Calm, LaneStays
  <2> QED
    BY <1>1, <1>3, <2>1, <2>2, ReachedStill DEF Sound
<1>4. ASSUME NEW s \in Socket, Bound', peer'[s].state = "attached", ~peer'[s].revoked,
             NEW i \in 1..Len(up'[s]), up'[s][i].gen = row'.gen
      PROVE  Reached(s, i, up[s][i].n)'
  <2>1. up'[s] = up[s] /\ i \in 1..Len(up[s])
    BY <1>3, <1>4
  <2>2. Reached(s, i, up[s][i].n)
    BY <1>1, <1>3, <1>4, <2>1 DEF Sound, LanesOK, LaneInTurn, QueueInTurn, PumpInTurn
  <2>3. i \in 1..(Len(up[s]) + 1) /\ up[s][i].n \in Int
    BY <2>1, Numbers DEF Sound
  <2>4. ASSUME NEW n \in Int, n = up[s][i].n PROVE Reached(s, i, n)'
    BY <1>3, <1>4, <2>2, <2>3, <2>4
  <2>5. \A n \in Int : n = up[s][i].n => n <= row'.next \/ ((Ahead(s, i).gen = row.gen)'
                                                        /\ n <= Ahead(s, i)'.n + 1)
    BY <2>4 DEF Reached
  <2> QED
    BY <2>1, <2>3, <2>5 DEF Reached
<1>5. ASSUME Bound', held'.gen = row'.gen, held'.phase # "revoked", conn' # 0,
             peer'[conn'].state = "attached", ~peer'[conn'].revoked
      PROVE  Reached(conn, Len(up[conn]) + 1, held.sent + (IF Sends THEN 2 ELSE 1))'
  <2>1. UNCHANGED <<sock, conn, sending>> /\ conn \in Socket /\ conn # 0
    BY <1>5 DEF Calm, SocketStays, Sound, Faithful, Typed, Socket
  <2>2. row.gen # 0
    BY <1>1, <1>5 DEF Sound, Faithful, SaidOK, Bound, Gen
  <2>3. held'.gen = held.gen /\ held'.sent = held.sent /\ held.phase # "revoked"
    BY <1>1, <1>5, <2>2 DEF Calm, HeldStays, NotHeld
  <2>4. Sends' <=> Sends
    BY <2>1, <2>3 DEF Sends
  <2>5. up'[conn] = up[conn] /\ Bound /\ peer[conn].state = "attached" /\ ~peer[conn].revoked
    BY <1>3, <1>5, <2>1
  <2> DEFINE n == held.sent + (IF Sends THEN 2 ELSE 1)
             i == Len(up[conn]) + 1
  <2>6. Reached(conn, i, n)
    BY <1>1, <1>5, <2>1, <2>3, <2>5 DEF Sound, LanesOK, LaneInTurn, QueueInTurn, PumpInTurn
  <2>7. n \in Int /\ i \in 1..(Len(up[conn]) + 1)
    BY <2>1, Numbers DEF Sound
  <2>8. n' = n /\ i' = i
    BY <2>1, <2>3, <2>4, <2>5
  <2> HIDE DEF n, i
  <2>9. ASSUME NEW m \in Int, m = n, NEW j \in 1..(Len(up[conn]) + 1), j = i
        PROVE  Reached(conn, j, m)'
    BY <1>3, <1>5, <2>1, <2>6, <2>9
  <2>10. (n <= row.next \/ (Ahead(conn, i).gen = row.gen /\ n <= Ahead(conn, i).n + 1))'
    <3>1. \A m \in Int, j \in 1..(Len(up[conn]) + 1) : m = n /\ j = i =>
            \/ m <= row'.next
            \/ Ahead(conn, j)'.gen = row'.gen /\ m <= Ahead(conn, j)'.n + 1
      BY <2>1, <2>9 DEF Reached
    <3> QED
      BY <2>1, <2>7, <2>8, <3>1 DEF Ahead
  <2> QED
    BY <2>10 DEF Reached, n, i
<1> QED
  BY <1>2, <1>4, <1>5 DEF LanesOK, LaneInTurn, QueueInTurn, PumpInTurn

(* Attempts that are on their way stay, or are read. *)
LEMMA BeginsStay ==
  ASSUME NEW new, Grows(new), \A f \in new : f.type # "execute", NEW s \in Socket
  PROVE  \E d \in {0, 1} : \A i \in 1..Len(down'[s]) : Begins(s, i)' =>
           Begins(s, i + d) /\ i + d \in 1..Len(down[s]) /\ down'[s][i] = down[s][i + d]
  BY DEF Grows, Begins

LEMMA StartsKept ==
  ASSUME Sound, Faithful', NEW new, Grows(new), \A f \in new : f.type # "execute",
         row'.gen = row.gen, Bound' => Bound,
         row'.lost = row.lost \/ (row'.lost = row.gen /\ ~Bound'),
         \A d \in Stored' : d \in Stored \/ d.gen = row.gen,
         \A e \in said' : e \in said \/ (e.gen = held.gen /\ e.n = held.next),
         \/ held'.gen = 0
         \/ held'.gen = held.gen /\ held'.next >= held.next
  PROVE  StartsOK'
<1>1. row'.lost <= row'.gen /\ (Bound' => row'.lost < row'.gen)
  BY Numbers DEF Sound, StartsOK
<1>2. \A d \in Stored' : d.gen \in Nat \ {0} /\ d.n \in Nat
  BY Numbers DEF Faithful, LogOK, Typed, Event, Gen
<1> SUFFICES ASSUME NEW d \in Stored'
             PROVE  /\ \A e \in said' : d.gen < e.gen => d.n < e.n
                    /\ d.gen < held'.gen => d.n < held'.next
                    /\ \A s \in Socket : \A i \in 1..Len(down'[s]) :
                         Begins(s, i)' /\ d.gen < down'[s][i].gen => d.n < down'[s][i].n
  BY <1>1 DEF StartsOK
<1>3. CASE d \in Stored
  <2>1. /\ \A e \in said : d.gen < e.gen => d.n < e.n
        /\ d.gen < held.gen => d.n < held.next
        /\ \A s \in Socket : \A i \in 1..Len(down[s]) :
             Begins(s, i) /\ d.gen < down[s][i].gen => d.n < down[s][i].n
    BY <1>3 DEF Sound, StartsOK
  <2>2. \A e \in said' : d.gen < e.gen => d.n < e.n
    BY <2>1
  <2>3. d.gen < held'.gen => d.n < held'.next
    <3>1. held'.next \in Nat /\ held.next \in Nat
      BY Numbers DEF Sound, Faithful, Typed, Executions
    <3> QED
      BY <1>2, <2>1, <3>1
  <2>4. ASSUME NEW s \in Socket, NEW i \in 1..Len(down'[s]), Begins(s, i)',
               d.gen < down'[s][i].gen
        PROVE  d.n < down'[s][i].n
    BY <2>1, <2>4, BeginsStay
  <2> QED
    BY <2>2, <2>3, <2>4
<1>4. CASE d.gen = row.gen
  <2>1. \A e \in said' : ~(d.gen < e.gen)
    <3>1. \A e \in said' : e.gen <= row'.gen /\ e.gen \in Nat
      BY Numbers DEF Faithful, SaidOK, Typed, Event, Gen
    <3> QED
      BY <1>2, <1>4, <3>1
  <2>2. ~(d.gen < held'.gen)
    <3>1. held'.gen = 0 \/ held'.gen <= row'.gen
      BY DEF Faithful, SaidOK
    <3>2. held'.gen \in Nat /\ row.gen \in Nat
      BY Numbers DEF Sound, Faithful, Typed, Executions
    <3> QED
      BY <1>2, <1>4, <3>1, <3>2
  <2>3. ASSUME NEW s \in Socket, NEW i \in 1..Len(down'[s]), Begins(s, i)'
        PROVE  ~(d.gen < down'[s][i].gen)
    <3>1. down'[s][i].gen \in 1..row'.gen
      BY <2>3 DEF Faithful, DownOK
    <3> QED
      BY <1>2, <1>4, <3>1
  <2> QED
    BY <2>1, <2>2, <2>3
<1> QED
  BY <1>3, <1>4

LEMMA AcksKept ==
  ASSUME Sound, Faithful', NEW new, Grows(new), \A f \in new : f.type # "execute",
         \A f \in new : f.type = "ack" => Tame(f), row'.gen = row.gen, Bound' => Bound,
         row'.next >= row.next, held'.gen = held.gen \/ held'.gen = 0,
         \A s \in Socket : peer'[s].acked < row'.next
  PROVE  AcksOK'
<1>1. row.next \in Nat /\ row'.next \in Nat /\ row.gen \in Nat
  BY Numbers DEF Sound, Faithful, Typed, Rows
<1> SUFFICES ASSUME NEW s \in Socket, NEW i \in 1..Len(down'[s]), down'[s][i].type = "ack",
                    ~(down'[s][i].n < row'.next), Bound'
             PROVE  /\ held'.gen # row'.gen
                    /\ \A j \in 1..Len(down'[s]) :
                         Begins(s, j)' /\ down'[s][j].gen = row'.gen => i < j
  BY DEF AcksOK
<1>2. PICK d \in {0, 1} : \A j \in 1..Len(down'[s]) :
        (j + d \in 1..Len(down[s]) /\ down'[s][j] = down[s][j + d]) \/ down'[s][j] \in new
  BY DEF Grows
<1>3. i + d \in 1..Len(down[s]) /\ down'[s][i] = down[s][i + d] /\ i \in Nat
  BY <1>2 DEF Tame, Bound
<1>4. down[s][i + d].n \in Int /\ Bound /\ ~(down[s][i + d].n < row.next)
  <2>1. down[s][i + d].n \in Int
    BY <1>3, Numbers DEF Sound
  <2> QED
    BY <1>1, <1>3, <2>1
<1>5. /\ held.gen # row.gen
      /\ \A j \in 1..Len(down[s]) : Begins(s, j) /\ down[s][j].gen = row.gen => i + d < j
  BY <1>3, <1>4 DEF Sound, AcksOK
<1>6. held'.gen # row'.gen
  <2>1. row.gen # 0
    BY <1>4 DEF Sound, Faithful, SaidOK, Bound, Gen
  <2> QED
    BY <1>5, <2>1
<1>7. ASSUME NEW j \in 1..Len(down'[s]), Begins(s, j)', down'[s][j].gen = row'.gen
      PROVE  i < j
  <2>1. j + d \in 1..Len(down[s]) /\ down'[s][j] = down[s][j + d] /\ Begins(s, j + d)
    BY <1>2, <1>7 DEF Begins
  <2>2. i + d < j + d
    BY <1>5, <1>7, <2>1
  <2> QED
    BY <1>3, <2>2
<1> QED
  BY <1>6, <1>7

LEMMA TameFrames ==
  ASSUME FramesStay
  PROVE  \E new : /\ Grows(new)
                  /\ \A f \in new : Tame(f) /\ f.type \notin {"execute", "attached"}
  BY DEF FramesStay, Tame

LEMMA CalmKeeps == ASSUME Sound, Faithful', Calm PROVE Sound'
<1> PICK new : /\ Grows(new)
               /\ \A f \in new : Tame(f) /\ f.type \notin {"execute", "attached"}
  BY TameFrames DEF Calm
<1>1. SendingOK'
  <2>1. said \subseteq said' /\ \A s \in Socket : Opened(s) => Opened(s)'
    BY DEF Calm, LaneStays
  <2> QED
    BY <2>1, SendingKept DEF Calm
<1>2. row'.next >= row.next
  BY Numbers DEF Calm, RowStays, Sound
<1>3. StartsOK'
  <2>1. held'.gen = 0 \/ (held'.gen = held.gen /\ held'.next >= held.next)
    BY NotHeldTyped, Numbers DEF Calm, HeldStays, Sound
  <2> QED
    BY <2>1, StartsKept DEF Calm, RowStays
<1>4. AcksOK'
  <2>1. held'.gen = held.gen \/ held'.gen = 0
    BY NotHeldTyped DEF Calm, HeldStays
  <2>2. \A s \in Socket : peer'[s].acked < row'.next
    BY DEF Calm, LaneStays
  <2> QED
    BY <1>2, <2>1, <2>2, AcksKept DEF Calm, RowStays
<1> QED
  BY <1>1, <1>3, <1>4, PeersKept, InventoryKept, LanesKept DEF Sound, Calm

(* What a calm step leaves alone, one part at a time. *)
LEMMA LanesSame ==
  ASSUME Sound, peer' = peer, up' = up, row'.next \in Nat, row'.next >= row.next
  PROVE  \A s \in Socket : LaneStays(s)
<1>1. \A s \in Socket : peer[s].acked < row'.next
  <2>1. \A s \in Socket : peer[s].acked < row.next /\ peer[s].acked \in Int
    BY Numbers DEF Sound, AcksOK
  <2>2. row.next \in Nat
    BY Numbers DEF Sound
  <2> QED
    BY <2>1, <2>2
<1> QED
  BY <1>1 DEF LaneStays, Opened

LEMMA GrowsSame == ASSUME Sound, down' = down PROVE Grows({})
<1>1. \A s \in Socket : \A i \in 1..Len(down[s]) : i + 0 = i
  OBVIOUS
<1> QED
  BY <1>1 DEF Grows

LEMMA GrowsTame ==
  ASSUME NEW new \in SUBSET FrameSet, Grows(new), \A f \in new : Tame(f) PROVE FramesStay
  BY DEF FramesStay, Grows

LEMMA FramesSame == ASSUME Sound, down' = down PROVE FramesStay
  BY GrowsSame, GrowsTame

LEMMA GrowsHeard ==
  ASSUME Sound, sock # 0, down[sock] # <<>>, down' = [down EXCEPT ![sock] = Tail(@)], sock' = sock
  PROVE  Grows({})
<1>1. /\ sock \in Socket
      /\ \A i \in 1..Len(down'[sock]) : /\ i + 1 \in 1..Len(down[sock])
                                        /\ down'[sock][i] = down[sock][i + 1]
      /\ \A s \in Socket : s # sock => down'[s] = <<>>
  BY Heard DEF Sound
<1>2. ASSUME NEW s \in Socket
      PROVE  \E d \in {0, 1} : \A i \in 1..Len(down'[s]) :
               i + d \in 1..Len(down[s]) /\ down'[s][i] = down[s][i + d]
  <2>1. CASE s = sock
    BY <1>1, <2>1
  <2>2. CASE s # sock
    BY <1>1, <2>2, NoFrames
  <2> QED
    BY <2>1, <2>2
<1> QED
  BY <1>2 DEF Grows

LEMMA FramesHeard ==
  ASSUME Sound, sock # 0, down[sock] # <<>>, down' = [down EXCEPT ![sock] = Tail(@)], sock' = sock
  PROVE  FramesStay
  BY GrowsHeard, GrowsTame

LEMMA FramesEmptied ==
  ASSUME \A s \in Socket : down'[s] = <<>> PROVE FramesStay
  BY NoFrames DEF FramesStay, Grows

(* A frame is written behind the others, or to nobody. *)
Behind(s, x) ==
  \A t \in Socket : \A i \in 1..Len(down'[t]) :
    \/ i \in 1..Len(down[t]) /\ down'[t][i] = down[t][i]
    \/ t = s /\ s = sock /\ i = Len(down[s]) + 1 /\ down'[t][i] = x

LEMMA Written ==
  ASSUME Sound, NEW s \in Socket, NEW x \in FrameSet,
         down' = Send(s, <<x>>) \/ (s = sock /\ down' = [down EXCEPT ![s] = Append(@, x)])
  PROVE  Behind(s, x)
<1>1. CASE down' = down
  BY <1>1 DEF Behind
<1>2. CASE down' # down
  <2>1. down \in [Socket -> Seq(FrameSet)]
    BY DEF Sound, Faithful, Typed
  <2>2. /\ s = sock
        /\ \/ down' = [down EXCEPT ![s] = @ \o <<x>>]
           \/ down' = [down EXCEPT ![s] = Append(@, x)]
    BY <1>2 DEF Send
  <2>3. /\ \A t \in Socket : t # s => down'[t] = down[t]
        /\ Len(down[s]) \in Nat /\ Len(down'[s]) = Len(down[s]) + 1
        /\ down'[s][Len(down[s]) + 1] = x
        /\ \A i \in 1..Len(down[s]) : down'[s][i] = down[s][i]
    <3>1. CASE down' = [down EXCEPT ![s] = @ \o <<x>>]
      BY <2>1, <3>1, Pushed
    <3>2. CASE down' = [down EXCEPT ![s] = Append(@, x)]
      BY <2>1, <3>2, Pushed
    <3> QED
      BY <2>2, <3>1, <3>2
  <2> SUFFICES ASSUME NEW t \in Socket, NEW i \in 1..Len(down'[t])
               PROVE  \/ i \in 1..Len(down[t]) /\ down'[t][i] = down[t][i]
                      \/ t = s /\ s = sock /\ i = Len(down[s]) + 1 /\ down'[t][i] = x
    BY DEF Behind
  <2>4. CASE t = s
    <3>1. i \in 1..Len(down[s]) \/ i = Len(down[s]) + 1
      BY <2>3, <2>4
    <3> QED
      BY <2>2, <2>3, <2>4, <3>1
  <2>5. CASE t # s
    BY <2>3, <2>5
  <2> QED
    BY <2>4, <2>5
<1> QED
  BY <1>1, <1>2

LEMMA GrowsSent ==
  ASSUME Sound, NEW s \in Socket, NEW x \in FrameSet,
         down' = Send(s, <<x>>) \/ (s = sock /\ down' = [down EXCEPT ![s] = Append(@, x)])
  PROVE  Grows({x})
<1>1. ASSUME NEW t \in Socket, NEW i \in 1..Len(down'[t])
      PROVE  (i + 0 \in 1..Len(down[t]) /\ down'[t][i] = down[t][i + 0]) \/ down'[t][i] \in {x}
  <2>1. i + 0 = i
    OBVIOUS
  <2> QED
    BY <2>1, Written DEF Behind
<1> QED
  BY <1>1 DEF Grows

LEMMA FramesSent ==
  ASSUME Sound, NEW s \in Socket, NEW x \in FrameSet, Tame(x),
         down' = Send(s, <<x>>) \/ (s = sock /\ down' = [down EXCEPT ![s] = Append(@, x)])
  PROVE  FramesStay
  BY GrowsSent, GrowsTame

LEMMA RowStaysSame == ASSUME row' = row, log' = log PROVE RowStays
  BY DEF RowStays, Stored, Bound

LEMMA RowStaysEased ==
  ASSUME Eases, row'.lost = row.lost \/ (row'.lost = row.gen /\ ~Bound') PROVE RowStays
  BY DEF RowStays, Eases, Stored, Bound

(* Forgetting is no loss if only counted events are forgotten. *)
LEMMA ForgottenStill ==
  ASSUME Sound, said' = said, row'.gen = row.gen, Bound' => Bound, row'.next \in Nat,
         row'.next >= row.next,
         held'.phase \in {"running", "ending", "ended"} =>
           /\ held.phase \in {"running", "ending", "ended"} /\ held'.gen = held.gen
           /\ \A e \in held.kept : Bound' /\ held.gen = row.gen /\ e.n >= row'.next =>
                e \in held'.kept
  PROVE  NothingForgotten'
<1> SUFFICES ASSUME held'.phase \in {"running", "ending", "ended"}, NEW e \in said,
                    e.gen = held'.gen, e.gen = row'.gen, Bound', e.n >= row'.next
             PROVE  e \in held'.kept
  BY DEF NothingForgotten, Bound
<1>1. e.n \in Nat /\ row.next \in Nat
  BY Numbers DEF Sound
<1>2. e.n >= row.next
  BY <1>1
<1>3. e \in held.kept
  BY <1>2 DEF Sound, NothingForgotten, Bound
<1> QED
  BY <1>3

(* The row after it is eased. *)
LEMMA EasedRow ==
  ASSUME Sound, Eases
  PROVE  /\ row'.next \in Nat /\ row'.next >= row.next /\ row'.gen = row.gen
         /\ Bound' => Bound
  BY Numbers DEF Sound, Eases, Bound

(* Steps that only touch the Runner's side. *)
LEMMA RunnerCalm ==
  ASSUME Sound, UNCHANGED <<said, up, peer, row, muted, log>>, SocketStays, HeldStays, FramesStay,
         held'.phase \in {"running", "ending", "ended"} =>
           /\ held.phase \in {"running", "ending", "ended"} /\ held'.gen = held.gen
           /\ \A e \in held.kept : Bound /\ held.gen = row.gen /\ e.n >= row.next =>
                e \in held'.kept
  PROVE  Calm
<1>1. row'.next \in Nat /\ row'.next >= row.next /\ row'.gen = row.gen /\ (Bound' => Bound)
  BY Numbers DEF Sound, Bound
<1>2. \A s \in Socket : LaneStays(s)
  BY <1>1, LanesSame
<1>3. RowStays
  BY RowStaysSame
<1>4. NothingForgotten'
  BY <1>1, ForgottenStill DEF Bound
<1>5. NeverFailed'
  BY DEF Sound, NeverFailed
<1> QED
  BY <1>2, <1>3, <1>4, <1>5 DEF Calm

(* Steps that only touch the Run's row. *)
LEMMA RowCalm ==
  ASSUME Sound, UNCHANGED <<runner, up, peer>>, FramesStay, Eases, NeverFailed',
         row'.lost = row.lost \/ (row'.lost = row.gen /\ ~Bound')
  PROVE  Calm
<1>1. row'.next \in Nat /\ row'.next >= row.next /\ row'.gen = row.gen /\ (Bound' => Bound)
  BY EasedRow
<1>2. \A s \in Socket : LaneStays(s)
  BY <1>1, LanesSame
<1>3. RowStays
  BY RowStaysEased
<1>4. NothingForgotten'
  BY <1>1, ForgottenStill DEF runner
<1> QED
  BY <1>2, <1>3, <1>4 DEF Calm, SocketStays, HeldStays, runner

LEMMA RecoveredIs ==
  ASSUME Sound, row' = Recovered
  PROVE  /\ row'.status = "queued" /\ row'.lost = row.gen /\ ~Bound' /\ NeverFailed'
  BY DEF Sound, Faithful, Typed, Rows, Recovered, Bound, NeverFailed

LEMMA RowStepCalm == ASSUME Sound, Expire \/ Supersede \/ HostEnds PROVE Calm
<1>1. UNCHANGED <<runner, up, down, peer>>
  BY DEF Expire, Supersede, HostEnds
<1>2. FramesStay
  BY <1>1, FramesSame
<1>3. Eases
  BY RowStepEases DEF Sound
<1>4. NeverFailed' /\ (row'.lost = row.lost \/ (row'.lost = row.gen /\ ~Bound'))
  <2>1. CASE Expire
    BY <2>1, RecoveredIs DEF Expire
  <2>2. CASE Supersede
    BY <2>2 DEF Supersede, Sound, NeverFailed
  <2>3. CASE HostEnds
    BY <2>3 DEF HostEnds, NeverFailed, Sound, Faithful, Typed, Rows
  <2> QED
    BY <2>1, <2>2, <2>3
<1> QED
  BY <1>1, <1>2, <1>3, <1>4, RowCalm

-----------------------------------------------------------------------------
(* 10. The calm steps. *)

LEMMA WindingCalm == ASSUME Sound, Finish \/ Leave PROVE Calm
<1>1. UNCHANGED <<sock, conn, sending, said, up, down, peer, row, muted, log>>
  BY DEF Finish, Leave
<1>2. \/ held' = NotHeld
      \/ held.phase = "ending" /\ held' = [held EXCEPT !.phase = "ended"]
  BY DEF Finish, Leave
<1>3. \/ held' = NotHeld
      \/ /\ held.phase = "ending" /\ held'.gen = held.gen /\ held'.next = held.next
         /\ held'.sent = held.sent /\ held'.kept = held.kept
  BY <1>2 DEF Sound, Faithful, Typed, Executions
<1>4. HeldStays
  BY <1>3 DEF HeldStays
<1> QED
  BY <1>1, <1>3, <1>4, FramesSame, NotHeldTyped, RunnerCalm DEF SocketStays

LEMMA LoseSocketCalm == ASSUME Sound, LoseSocket \/ Crash PROVE Calm
<1>1. /\ UNCHANGED <<said, up, peer, row, muted, log>>
      /\ held' = held \/ held' = NotHeld
      /\ SocketStays
  BY DEF LoseSocket, Crash, SocketStays
<1>2. FramesStay
  <2>1. \A s \in Socket : down'[s] = <<>>
    <3>1. CASE LoseSocket
      <4>1. sock \in Socket /\ down' = [down EXCEPT ![sock] = <<>>]
        BY <3>1 DEF LoseSocket, Sound, Faithful, Typed, Socket
      <4>2. \A t \in Socket : t # sock => down[t] = <<>>
        BY DEF Sound, Faithful, DownOK
      <4>3. down \in [Socket -> Seq(FrameSet)]
        BY DEF Sound, Faithful, Typed
      <4> QED
        BY <4>1, <4>2, <4>3, Cleared
    <3>2. CASE Crash
      BY <3>2 DEF Crash
    <3> QED
      BY <3>1, <3>2
  <2> QED
    BY <2>1, FramesEmptied
<1>3. HeldStays
  BY <1>1 DEF HeldStays
<1> QED
  BY <1>1, <1>2, <1>3, NotHeldTyped, RunnerCalm

LEMMA RevokedIs ==
  ASSUME Faithful, held' = Revoked(held)
  PROVE  /\ HeldStays /\ held'.phase \notin {"running", "ending", "ended"}
<1>1. CASE held.phase \in {"running", "ending", "revoked"}
  <2>1. held' = [held EXCEPT !.phase = "revoked", !.kept = {}] /\ held \in Executions
    BY <1>1 DEF Revoked, Faithful, Typed
  <2>2. held'.gen = held.gen /\ held'.next = held.next /\ held'.sent = held.sent
        /\ held'.phase = "revoked" /\ held'.kept = {}
    BY <2>1 DEF Executions
  <2> QED
    BY <2>2 DEF HeldStays
<1>2. CASE held.phase \notin {"running", "ending", "revoked"}
  BY <1>2, NotHeldTyped DEF Revoked, HeldStays
<1> QED
  BY <1>1, <1>2

LEMMA HearRevokedCalm ==
  ASSUME Sound, Hear, NEW f, HearRevoked(f), UNCHANGED row PROVE Calm
<1>1. /\ UNCHANGED <<sock, conn, sending, said, up, peer, row, muted, log>>
      /\ sock # 0 /\ down[sock] # <<>> /\ down' = [down EXCEPT ![sock] = Tail(@)]
      /\ held' = held \/ held' = Revoked(held)
  BY DEF Hear, HearRevoked
<1>2. FramesStay
  BY <1>1, FramesHeard
<1>3. HeldStays /\ (held' = held \/ held'.phase \notin {"running", "ending", "ended"})
  BY <1>1, RevokedIs DEF HeldStays, Sound
<1> QED
  BY <1>1, <1>2, <1>3, RunnerCalm DEF SocketStays

(* What the Host has acknowledged, it has counted of the attempt that holds *)
(* the Run.                                                                *)
LEMMA HearAckCalm ==
  ASSUME Sound, Hear, HearAck(Head(down[sock])), UNCHANGED row PROVE Calm
<1> DEFINE f == Head(down[sock])
           h == Forgotten(f.n)
<1>1. /\ UNCHANGED <<sock, conn, sending, said, up, peer, row, muted, log>>
      /\ sock # 0 /\ down[sock] # <<>> /\ down' = [down EXCEPT ![sock] = Tail(@)]
      /\ held' = Released(h) /\ f.type = "ack"
  BY DEF Hear, HearAck
<1>2. FramesStay
  BY <1>1, FramesHeard
<1>3. sock \in Socket /\ f = down[sock][1] /\ 1 \in 1..Len(down[sock])
  BY <1>1, Heard DEF Sound
<1>4. f.n \in Int /\ row.next \in Nat /\ held \in Executions
  BY <1>3, Numbers DEF Sound, Faithful, Typed
<1>5. f.n < row.next \/ ~Bound \/ held.gen # row.gen
  BY <1>1, <1>3 DEF Sound, AcksOK
<1>6. h = [held EXCEPT !.kept = {e \in held.kept : e.n > f.n}]
  BY DEF Forgotten
<1> HIDE DEF f, h
<1>7. /\ h.gen = held.gen /\ h.next = held.next /\ h.sent = held.sent /\ h.phase = held.phase
      /\ h.kept = {e \in held.kept : e.n > f.n}
  BY <1>4, <1>6 DEF Executions
<1>8. held' = NotHeld \/ held' = h
  BY <1>1 DEF Released
<1>9. HeldStays
  BY <1>7, <1>8 DEF HeldStays
<1>10. ASSUME held'.phase \in {"running", "ending", "ended"}
       PROVE  /\ held.phase \in {"running", "ending", "ended"} /\ held'.gen = held.gen
              /\ \A e \in held.kept : Bound /\ held.gen = row.gen /\ e.n >= row.next =>
                   e \in held'.kept
  <2>1. held' = h
    BY <1>8, <1>10, NotHeldTyped
  <2>2. \A e \in held.kept : e.n \in Nat
    BY Numbers DEF Sound, Faithful, SaidOK
  <2>3. ASSUME NEW e \in held.kept, Bound, held.gen = row.gen, e.n >= row.next
        PROVE  e \in held'.kept
    <3>1. e.n > f.n
      BY <1>4, <1>5, <2>2, <2>3
    <3> QED
      BY <1>7, <2>1, <3>1
  <2> QED
    BY <1>7, <1>10, <2>1, <2>3
<1> QED
  BY <1>1, <1>2, <1>9, <1>10, RunnerCalm DEF SocketStays

LEMMA RejectExecuteCalm == ASSUME Sound, Hear, NEW f, RejectExecute(f) PROVE Calm
<1>1. /\ sock # 0 /\ down[sock] # <<>> /\ down' = [down EXCEPT ![sock] = Tail(@)]
      /\ UNCHANGED <<sock, conn, sending, said, up, peer, muted, log, held>>
      /\ row' = IF row.status = "bound" /\ row.gen = f.gen
                THEN [row EXCEPT !.status = "queued"] ELSE row
  BY DEF Hear, RejectExecute
<1>2. row \in Rows /\ row.status # "failed"
  BY DEF Sound, Faithful, Typed, NeverFailed
<1>3. Eases /\ row'.lost = row.lost /\ NeverFailed'
  BY <1>1, <1>2 DEF Eases, Rows, NeverFailed
<1>4. FramesStay
  BY <1>1, FramesHeard
<1> QED
  BY <1>1, <1>3, <1>4, RowCalm DEF runner

LEMMA FlushCalm ==
  ASSUME Sound, NEW s \in Socket, FlushAcknowledgements(s) PROVE Calm
<1>1. /\ peer' = [peer EXCEPT ![s].acked = -1]
      /\ down' = Send(s, <<Frame("ack", 0, peer[s].acked)>>)
      /\ UNCHANGED <<runner, up, row, muted, log>>
  BY DEF FlushAcknowledgements
<1>2. peer \in [Socket -> Peers] /\ peer[s].acked < row.next /\ row.next \in Nat
  BY Numbers DEF Sound, Faithful, Typed, AcksOK
<1>3. FramesStay
  <2>1. peer[s].acked \in -1..MaxOrdinal
    BY <1>2 DEF Peers
  <2> DEFINE x == Frame("ack", 0, peer[s].acked)
  <2>2. x \in FrameSet /\ x.type = "ack" /\ x.n = peer[s].acked
    BY <2>1, Bounds, FrameTyped
  <2> HIDE DEF x
  <2>3. Tame(x)
    BY <1>1, <1>2, <2>2 DEF Tame
  <2>4. down' = Send(s, <<x>>)
    BY <1>1 DEF x
  <2> QED
    BY <1>1, <2>2, <2>3, <2>4, FramesSent DEF runner
<1>4. ASSUME NEW t \in Socket PROVE LaneStays(t)
  <2>1. /\ peer'[t].state = peer[t].state /\ peer'[t].stage = peer[t].stage
        /\ peer'[t].doing = peer[t].doing /\ peer'[t].revoked = peer[t].revoked
        /\ peer'[t].acked = peer[t].acked \/ peer'[t].acked = -1
    BY <1>1, <1>2 DEF Peers
  <2>2. peer[t].acked < row.next
    BY DEF Sound, AcksOK
  <2>3. up'[t] = up[t] /\ peer'[t].acked < row'.next
    BY <1>1, <1>2, <2>1, <2>2
  <2> QED
    BY <2>1, <2>3 DEF LaneStays, Opened
<1>5. row'.next \in Nat /\ row'.next >= row.next /\ row'.gen = row.gen /\ (Bound' => Bound)
  BY <1>1, <1>2 DEF Bound
<1>6. NothingForgotten' /\ NeverFailed'
  BY <1>1, <1>5, ForgottenStill DEF Sound, NeverFailed, runner
<1> QED
  BY <1>1, <1>3, <1>4, <1>6, RowStaysSame DEF Calm, SocketStays, HeldStays, runner

(* Steps of the Host that leave the Runner alone. *)
LEMMA HostCalm ==
  ASSUME Sound, UNCHANGED runner, RowStays, row'.next \in Nat, FramesStay,
         \A s \in Socket : LaneStays(s), NeverFailed'
  PROVE  Calm
<1>1. row'.next >= row.next /\ row'.gen = row.gen /\ (Bound' => Bound)
  BY Numbers DEF RowStays, Sound
<1>2. NothingForgotten'
  BY <1>1, ForgottenStill DEF runner
<1> QED
  BY <1>2 DEF Calm, SocketStays, HeldStays, runner

(* A connection the step does not touch. *)
LEMMA LaneSame ==
  ASSUME Sound, NEW s \in Socket, peer'[s] = peer[s], up'[s] = up[s],
         row'.next \in Nat, row'.next >= row.next
  PROVE  LaneStays(s)
<1>1. peer[s].acked < row.next /\ peer[s].acked \in Int /\ row.next \in Nat
  BY Numbers DEF Sound, AcksOK
<1>2. peer'[s].acked < row'.next
  BY <1>1
<1> QED
  BY <1>2 DEF LaneStays, Opened

LEMMA DropCalm == ASSUME Sound, NEW s \in Socket, Drop(s) PROVE Calm
<1>1. /\ Live(s) /\ peer' = [peer EXCEPT ![s] = Gone(peer[s])]
      /\ up' = [up EXCEPT ![s] = <<>>] /\ UNCHANGED <<runner, down, row, muted, log>>
  BY DEF Drop
<1>2. /\ peer \in [Socket -> Peers] /\ up \in [Socket -> Seq(FrameSet)] /\ row.next \in Nat
  BY Numbers DEF Sound, Faithful, Typed
<1>3. ASSUME NEW t \in Socket PROVE LaneStays(t)
  <2>1. CASE t = s
    <3>1. /\ peer'[s].state = "gone" /\ peer'[s].acked = -1
          /\ peer'[s].doing = peer[s].doing /\ peer'[s].stage = peer[s].stage
      BY <1>1, <1>2, GoneIs
    <3>2. Opened(s) /\ Opened(s)'
      BY <1>1, <3>1 DEF Live, Opened
    <3> QED
      BY <1>1, <1>2, <2>1, <3>1, <3>2 DEF LaneStays
  <2>2. CASE t # s
    BY <1>1, <1>2, <2>2, LaneSame
  <2> QED
    BY <2>1, <2>2
<1>4. RowStays /\ FramesStay /\ NeverFailed'
  BY <1>1, RowStaysSame, FramesSame DEF Sound, NeverFailed
<1> QED
  BY <1>1, <1>2, <1>3, <1>4, HostCalm

(* What is committed has been counted, or takes the Run from its attempt.  *)
LEMMA CommitsCount ==
  ASSUME Sound, NEW s \in Socket, peer[s].stage = "taken", Commits(peer[s].doing)
  PROVE  /\ RowStays /\ NeverFailed' /\ row'.next \in Nat /\ row'.next >= row.next
         /\ peer[s].doing.n < row'.next \/ (Terminal(peer[s].doing) /\ ~Bound')
<1> DEFINE e == peer[s].doing
<1>1. e \in said /\ e \in Event /\ row \in Rows /\ row.next \in Nat /\ row.status # "failed"
      /\ \A d \in Stored : d.n < row.next
  BY Numbers DEF Sound, Faithful, Typed, UpOK, LogOK, NeverFailed
<1>2. peer[s].stage # "idle" /\ peer[s].doing = e
  OBVIOUS
<1> HIDE DEF e
<1>3. ASSUME e.gen = row.gen, e.n = row.next, row'.gen = row.gen, row'.lost = row.lost,
             row'.next = row.next + 1, Bound' => Bound, row'.status # "failed",
             \A d \in Stored' : d \in Stored \/ d = e
      PROVE  RowStays /\ NeverFailed' /\ row'.next \in Nat /\ row'.next >= row.next
             /\ e.n < row'.next
  <2>1. RowStays
    BY <1>2, <1>3 DEF RowStays
  <2> QED
    BY <1>1, <1>3, <2>1 DEF NeverFailed
<1>4. CASE Skip(e)
  <2>1. Stored' = Stored
    BY <1>4 DEF Skip, Stored
  <2>2. CASE Known(e)
    <3>1. row' = row /\ log' = log
      BY <1>4, <2>2 DEF Skip
    <3>2. e.n < row.next
      BY <1>1, <2>2 DEF Known, Absorbed
    <3> QED
      BY <1>1, <1>2, <3>1, <3>2, RowStaysSame DEF NeverFailed
  <2>3. CASE ~Known(e)
    <3>1. /\ row.gen = e.gen /\ row.next = e.n /\ row' = [row EXCEPT !.next = @ + 1]
      BY <1>4, <2>3 DEF Skip, LateEvent
    <3>2. /\ row'.gen = row.gen /\ row'.lost = row.lost /\ row'.next = row.next + 1
          /\ row'.status = row.status
      BY <1>1, <3>1 DEF Rows
    <3> QED
      BY <1>1, <1>2, <1>3, <2>1, <3>1, <3>2 DEF Bound
  <2> QED
    BY <2>2, <2>3
<1>5. CASE Recover(e)
  <2>1. row' = Recovered /\ log' = log /\ e.kind = "lost"
    BY <1>5 DEF Recover
  <2>2. row'.lost = row.gen /\ ~Bound' /\ NeverFailed' /\ row'.gen = row.gen
        /\ row'.next = row.next
    BY <1>1, <2>1, RecoveredIs DEF Recovered, Rows
  <2>3. RowStays
    BY <2>1, <2>2 DEF RowStays, Stored
  <2> QED
    BY <1>1, <1>2, <2>1, <2>2, <2>3 DEF Terminal
<1>6. CASE Absorb(e)
  <2> DEFINE st == IF e.kind = "cut" THEN "queued" ELSE row.status
  <2>1. /\ e.gen = row.gen /\ e.n = row.next /\ row.status = "bound"
        /\ row' = [row EXCEPT !.next = @ + 1, !.status = st] /\ Stored' = Stored
        /\ st \in {"queued", "bound"}
    BY <1>6 DEF Absorb, InTurn, Holds, Stored
  <2> HIDE DEF st
  <2>2. /\ row'.gen = row.gen /\ row'.lost = row.lost /\ row'.next = row.next + 1
        /\ row'.status = st
    BY <1>1, <2>1 DEF Rows
  <2> QED
    BY <1>2, <1>3, <2>1, <2>2 DEF Bound
<1>7. CASE Store(e)
  <2> DEFINE st == IF e.kind = "end" THEN "ended" ELSE row.status
  <2>1. /\ e.gen = row.gen /\ e.n = row.next /\ row.status = "bound"
        /\ row' = [row EXCEPT !.next = @ + 1, !.status = st] /\ log' = Append(log, e)
        /\ st \in {"ended", "bound"}
    BY <1>7 DEF Store, InTurn, Holds
  <2>2. Stored' = Stored \cup {e}
    BY <1>1, <2>1, Appended DEF Sound
  <2> HIDE DEF st
  <2>3. /\ row'.gen = row.gen /\ row'.lost = row.lost /\ row'.next = row.next + 1
        /\ row'.status = st
    BY <1>1, <2>1 DEF Rows
  <2> QED
    BY <1>2, <1>3, <2>1, <2>2, <2>3 DEF Bound
<1>8. Commits(e)
  BY <1>2
<1> QED
  BY <1>2, <1>4, <1>5, <1>6, <1>7, <1>8 DEF Commits

LEMMA CommitCalm == ASSUME Sound, NEW s \in Socket, Commit(s) PROVE Calm
<1>1. /\ peer[s].stage = "taken" /\ Commits(peer[s].doing) /\ UNCHANGED <<runner, up>>
      /\ AckedTo(s) \in -1..MaxOrdinal /\ Opened(s)
      /\ down' = down \/ down' = Send(s, <<Frame("ack", 0, AckedTo(s))>>)
  BY CommitEffect DEF Sound
<1>2. PICK p \in Peers :
        /\ peer' = [peer EXCEPT ![s] = p] /\ p.state = peer[s].state
        /\ p.stage = "idle" /\ p.doing = None /\ p.revoked = peer[s].revoked
        /\ p.acked = -1 \/ (p.acked = AckedTo(s) /\ ~Terminal(peer[s].doing))
  BY CommitEffect DEF Sound
<1>3. /\ RowStays /\ NeverFailed' /\ row'.next \in Nat /\ row'.next >= row.next
      /\ peer[s].doing.n < row'.next \/ (Terminal(peer[s].doing) /\ ~Bound')
  BY <1>1, CommitsCount
<1>4. AckedTo(s) < row'.next \/ (Terminal(peer[s].doing) /\ ~Bound')
  <2>1. peer[s].acked < row.next /\ peer[s].acked \in Int /\ row.next \in Nat
    BY Numbers DEF Sound, AcksOK
  <2> QED
    BY <1>3, <2>1 DEF AckedTo
<1>5. FramesStay
  <2> DEFINE x == Frame("ack", 0, AckedTo(s))
  <2>1. x \in FrameSet /\ x.type = "ack" /\ x.n = AckedTo(s)
    BY <1>1, Bounds, FrameTyped
  <2>2. sock' = sock /\ (down' = down \/ down' = Send(s, <<x>>))
    BY <1>1 DEF runner
  <2> HIDE DEF x
  <2>3. Tame(x)
    BY <1>4, <2>1 DEF Tame, Bound
  <2>4. CASE down' = down
    BY <2>4, FramesSame
  <2>5. CASE down' = Send(s, <<x>>)
    BY <2>1, <2>2, <2>3, <2>5, FramesSent
  <2> QED
    BY <2>2, <2>4, <2>5
<1>6. ASSUME NEW t \in Socket PROVE LaneStays(t)
  <2>1. peer \in [Socket -> Peers] /\ up'[t] = up[t]
    BY <1>1 DEF Sound, Faithful, Typed
  <2>2. CASE t = s
    <3>1. peer'[s] = p
      BY <1>2, <2>1
    <3>2. p.acked < row'.next
      BY <1>2, <1>3, <1>4
    <3>3. Opened(s)' <=> Opened(s)
      BY <1>2, <3>1 DEF Opened
    <3>4. Bound' => peer[s].doing.n < row'.next
      BY <1>3
    <3> QED
      BY <1>2, <2>1, <2>2, <3>1, <3>2, <3>3, <3>4 DEF LaneStays
  <2>3. CASE t # s
    BY <1>2, <1>3, <2>1, <2>3, LaneSame
  <2> QED
    BY <2>2, <2>3
<1> QED
  BY <1>1, <1>3, <1>5, <1>6, HostCalm

LEMMA CommitFailsCalm == ASSUME Sound, NEW s \in Socket, CommitFails(s) PROVE Calm
<1>1. /\ peer[s].stage = "taken" /\ peer' = [peer EXCEPT ![s] = Done(Gone(peer[s]))]
      /\ Commits(peer[s].doing) \/ UNCHANGED <<row, muted, log>>
      /\ up' = [up EXCEPT ![s] = <<>>] /\ UNCHANGED <<runner, down>>
  BY DEF CommitFails
<1>2. /\ peer \in [Socket -> Peers] /\ up \in [Socket -> Seq(FrameSet)] /\ row.next \in Nat
      /\ Opened(s)
  BY <1>1, Numbers DEF Sound, Faithful, Typed, UpOK
<1>3. RowStays /\ NeverFailed' /\ row'.next \in Nat /\ row'.next >= row.next
  <2>1. CASE Commits(peer[s].doing)
    BY <1>1, <2>1, CommitsCount
  <2>2. CASE UNCHANGED <<row, muted, log>>
    BY <1>2, <2>2, RowStaysSame DEF Sound, NeverFailed
  <2> QED
    BY <1>1, <2>1, <2>2
<1>4. ASSUME NEW t \in Socket PROVE LaneStays(t)
  <2>1. CASE t = s
    <3>1. /\ peer'[s].state = "gone" /\ peer'[s].acked = -1
          /\ peer'[s].doing = None /\ peer'[s].stage = "idle"
      BY <1>1, <1>2, GoneIs, DoneIs
    <3>2. Opened(s)'
      BY <3>1 DEF Opened
    <3> QED
      BY <1>2, <1>3, <2>1, <3>1, <3>2 DEF LaneStays
  <2>2. CASE t # s
    BY <1>1, <1>2, <1>3, <2>2, LaneSame
  <2> QED
    BY <2>1, <2>2
<1> QED
  BY <1>1, <1>3, <1>4, FramesSame, HostCalm

(* A refused event's attempt does not hold the Run. *)
LEMMA RefusableLost ==
  ASSUME Sound, NEW s \in Socket, peer[s].stage = "taken", Refusable(peer[s].doing)
  PROVE  ~(Bound /\ peer[s].doing.gen = row.gen)
<1> DEFINE e == peer[s].doing
<1>1. /\ e \in said /\ peer[s].stage # "idle" /\ e.gen \in Nat /\ e.n \in Nat
      /\ row.gen \in Nat /\ row.next \in Nat /\ row.lost \in Nat
  BY Numbers DEF Sound, Faithful, UpOK
<1> SUFFICES ASSUME Bound, e.gen = row.gen PROVE FALSE
  OBVIOUS
<1>2. row.lost < row.gen /\ e.n <= row.next
  BY <1>1 DEF Sound, StartsOK, LanesOK, LaneInTurn
<1>3. ~Known(e) /\ ~InTurn(e)
  BY DEF Refusable
<1> HIDE DEF e
<1>4. ~Retired(e) /\ Holds(e)
  BY <1>1, <1>2 DEF Retired, Holds, Bound
<1>5. e.n < row.next
  BY <1>1, <1>2, <1>3, <1>4 DEF InTurn
<1>6. ~Repeats(e)
  <2> SUFFICES ASSUME NEW d \in Stored, d.n = e.n PROVE FALSE
    BY DEF Repeats
  <2>1. e \notin Stored
    BY <1>3, <1>4 DEF Known, Repeats
  <2>2. d \in said /\ d.gen <= row.gen /\ d.gen \in Nat /\ d.n \in Nat
    BY Numbers DEF Sound, Faithful, LogOK
  <2>3. d.gen # e.gen
    BY <1>1, <2>1, <2>2 DEF Sound, Faithful, SaidOK
  <2>4. d.gen < e.gen
    BY <1>1, <2>2, <2>3
  <2>5. d.n < e.n
    BY <1>1, <2>4 DEF Sound, StartsOK
  <2> QED
    BY <1>1, <2>5
<1>7. row.gen \notin muted
  BY <1>3, <1>4, <1>5, <1>6 DEF Known, Absorbed, Superseded, Holds
<1>8. e \in Stored
  BY <1>1, <1>5, <1>7 DEF Sound, Faithful, LogOK, Bound
<1> QED
  BY <1>6, <1>8 DEF Repeats

LEMMA RefuseCalm == ASSUME Sound, NEW s \in Socket, Refuse(s) PROVE Calm
<1>1. /\ peer[s].stage = "taken" /\ Refusable(peer[s].doing)
      /\ peer' = [peer EXCEPT ![s].stage = "refused"]
      /\ UNCHANGED <<runner, up, down, row, muted, log>>
  BY DEF Refuse
<1>2. peer \in [Socket -> Peers] /\ row.next \in Nat
  BY Numbers DEF Sound, Faithful, Typed
<1>3. ASSUME NEW t \in Socket PROVE LaneStays(t)
  <2>1. CASE t = s
    <3>1. /\ peer'[s].state = peer[s].state /\ peer'[s].stage = "refused"
          /\ peer'[s].doing = peer[s].doing /\ peer'[s].revoked = peer[s].revoked
          /\ peer'[s].acked = peer[s].acked
      BY <1>1, <1>2 DEF Peers
    <3>2. ~(Bound /\ peer[s].doing.gen = row.gen) /\ peer[s].acked < row.next
      BY <1>1, RefusableLost DEF Sound, AcksOK
    <3> QED
      BY <1>1, <2>1, <3>1, <3>2 DEF LaneStays, Opened
  <2>2. CASE t # s
    BY <1>1, <1>2, <2>2, LaneSame
  <2> QED
    BY <2>1, <2>2
<1>4. RowStays /\ FramesStay /\ NeverFailed'
  BY <1>1, RowStaysSame, FramesSame DEF Sound, NeverFailed
<1> QED
  BY <1>1, <1>2, <1>3, <1>4, HostCalm

LEMMA RefuseEventCalm == ASSUME Sound, NEW s \in Socket, RefuseEvent(s) PROVE Calm
<1>1. /\ peer[s].stage = "refused" /\ UNCHANGED <<runner, up, log>>
      /\ row' = IF Holds(peer[s].doing) THEN [row EXCEPT !.status = "failed"] ELSE row
  BY DEF RefuseEvent
<1>2. ~(Bound /\ peer[s].doing.gen = row.gen)
  BY <1>1 DEF Sound, LanesOK, LaneInTurn
<1>3. row' = row /\ row.next \in Nat
  BY <1>1, <1>2, Numbers DEF Holds, Bound, Sound
<1>4. ASSUME NEW t \in Socket PROVE LaneStays(t)
  <2>1. /\ peer'[t].state = peer[t].state /\ peer'[t].acked = peer[t].acked
        /\ peer[t].revoked => peer'[t].revoked
        /\ \/ t = s /\ peer'[t].stage = "idle" /\ peer'[t].doing = None
           \/ t # s /\ peer'[t].stage = peer[t].stage /\ peer'[t].doing = peer[t].doing
    BY RefusalPeers DEF Sound
  <2>2. peer[t].acked < row.next /\ up'[t] = up[t]
    BY <1>1 DEF Sound, AcksOK
  <2>3. Bound' => Bound
    BY <1>3 DEF Bound
  <2> QED
    BY <1>2, <1>3, <2>1, <2>2, <2>3 DEF LaneStays, Opened
<1>5. FramesStay
  <2> DEFINE x == Frame("revoked", 0, 0)
  <2>1. x \in FrameSet /\ x.type = "revoked"
    <3>1. 0 \in -1..MaxOrdinal
      BY BoundAssumption
    <3> QED
      BY <3>1, Bounds, FrameTyped
  <2>2. \/ down' = down
        \/ sock \in Socket /\ down' = [down EXCEPT ![sock] = Append(@, x)]
    BY RefusalFrames DEF Sound
  <2> HIDE DEF x
  <2>3. Tame(x) /\ sock' = sock
    BY <1>1, <2>1 DEF Tame, runner
  <2>4. CASE down' = down
    BY <2>4, FramesSame
  <2>5. CASE sock \in Socket /\ down' = [down EXCEPT ![sock] = Append(@, x)]
    BY <2>1, <2>3, <2>5, FramesSent
  <2> QED
    BY <2>2, <2>4, <2>5
<1>6. RowStays /\ NeverFailed'
  BY <1>1, <1>3, RowStaysSame DEF Sound, NeverFailed
<1> QED
  BY <1>1, <1>3, <1>4, <1>5, <1>6, HostCalm

-----------------------------------------------------------------------------
(* 11. The steps that send, attach, begin and bind. *)

(* What does not depend on what the Runner has in memory. *)
LEMMA HostSame ==
  ASSUME Sound, UNCHANGED <<up, peer, row>>
  PROVE  InventoryOK' /\ LaneInTurn' /\ QueueInTurn'
<1>1. InventoryOK /\ LaneInTurn /\ QueueInTurn
  BY DEF Sound, LanesOK
<1>2. InventoryOK'
  BY <1>1 DEF InventoryOK, Bound
<1>3. LaneInTurn'
  BY <1>1 DEF LaneInTurn, Bound
<1>4. QueueInTurn'
  BY <1>1 DEF QueueInTurn, Bound, Reached, Ahead
<1> QED
  BY <1>2, <1>3, <1>4

LEMMA PeersSame ==
  ASSUME Sound, UNCHANGED <<up, down, peer, row, conn, sock>> PROVE PeersOK'
<1>1. PeersOK
  BY DEF Sound
<1> QED
  BY <1>1 DEF PeersOK, Live, Opened, Answers

LEMMA PumpSame ==
  ASSUME Sound, UNCHANGED <<up, peer, row, conn>>, held'.gen = held.gen,
         held'.phase # "revoked" => held.phase # "revoked",
         held'.sent + (IF Sends' THEN 2 ELSE 1) = held.sent + (IF Sends THEN 2 ELSE 1)
  PROVE  PumpInTurn'
<1>1. PumpInTurn
  BY DEF Sound, LanesOK
<1> DEFINE n == held.sent + (IF Sends THEN 2 ELSE 1)
<1>2. n' = n
  OBVIOUS
<1>3. /\ Bound /\ held.gen = row.gen /\ held.phase # "revoked" /\ conn # 0
      /\ peer[conn].state = "attached" /\ ~peer[conn].revoked
      => Reached(conn, Len(up[conn]) + 1, n)
  BY <1>1 DEF PumpInTurn
<1> HIDE DEF n
<1>4. (/\ Bound /\ held.gen = row.gen /\ held.phase # "revoked" /\ conn # 0
       /\ peer[conn].state = "attached" /\ ~peer[conn].revoked
       => Reached(conn, Len(up[conn]) + 1, n))'
  BY <1>2, <1>3 DEF Bound, Reached, Ahead
<1> QED
  BY <1>4 DEF PumpInTurn, n

LEMMA EmitSound ==
  ASSUME Sound, Faithful', NEW kind \in Kind, Emit(kind) PROVE Sound'
<1> DEFINE e == [gen |-> held.gen, n |-> held.next, kind |-> kind]
<1>1. /\ held.phase = "running" /\ said' = said \cup {e}
      /\ held' = [held EXCEPT !.next = @ + 1, !.kept = @ \cup {e},
                              !.phase = IF Terminal(e) THEN "ending" ELSE @]
      /\ UNCHANGED <<sock, conn, sending, up, down, peer, row, muted, log>>
  BY DEF Emit
<1>2. held \in Executions /\ held.next \in Nat /\ row.next \in Nat
  BY Numbers DEF Sound, Faithful, Typed
<1>3. e.gen = held.gen /\ e.n = held.next
  OBVIOUS
<1>4. /\ held'.gen = held.gen /\ held'.next = held.next + 1 /\ held'.sent = held.sent
      /\ held'.kept = held.kept \cup {e} /\ held'.phase # "none"
  <2> DEFINE p == IF Terminal(e) THEN "ending" ELSE held.phase
  <2>1. held' = [held EXCEPT !.next = @ + 1, !.kept = @ \cup {e}, !.phase = p] /\ p # "none"
    BY <1>1
  <2> HIDE DEF e, p
  <2> QED
    BY <1>2, <2>1 DEF Executions
<1> HIDE DEF e
<1>5. Sends' <=> Sends
  BY <1>1, <1>4 DEF Sends
<1>6. SendingOK'
  <2>1. /\ sending = NotSending \/ /\ sending \in [on : Socket, event : said]
                                   /\ Opened(sending.on)
        /\ sending.on = sock => conn = sock
        /\ held.sent \in -1..MaxOrdinal /\ \A x \in held.kept : x.gen = held.gen
        /\ Sends => sending.event.n = held.sent + 1
    BY DEF Sound, SendingOK
  <2>2. sending' = NotSending \/ /\ sending' \in [on : Socket, event : said']
                                 /\ peer'[sending'.on].state # "none"
    BY <1>1, <2>1 DEF Opened
  <2>3. held'.sent \in -1..MaxOrdinal /\ \A x \in held'.kept : x.gen = held'.gen
    BY <1>3, <1>4, <2>1
  <2> QED
    BY <1>1, <1>4, <1>5, <2>1, <2>2, <2>3 DEF SendingOK, Opened
<1>7. LanesOK'
  <2>1. PumpInTurn'
    BY <1>1, <1>4, <1>5, PumpSame
  <2> QED
    BY <1>1, <2>1, HostSame DEF LanesOK
<1>8. StartsOK'
  <2>1. \A x \in said' : x \in said \/ (x.gen = held.gen /\ x.n = held.next)
    BY <1>1, <1>3
  <2>2. held'.gen = held.gen /\ held'.next >= held.next
    BY <1>2, <1>4
  <2>3. Stored' = Stored /\ (Bound' => Bound)
    BY <1>1 DEF Stored, Bound
  <2> QED
    BY <1>1, <2>1, <2>2, <2>3, GrowsSame, StartsKept
<1>9. AcksOK'
  <2>1. row'.next >= row.next /\ (Bound' => Bound)
    BY <1>1, <1>2 DEF Bound
  <2>2. \A s \in Socket : peer'[s].acked < row'.next
    BY <1>1 DEF Sound, AcksOK
  <2> QED
    BY <1>1, <1>4, <2>1, <2>2, GrowsSame, AcksKept
<1>10. NothingForgotten'
  <2> SUFFICES ASSUME NEW x \in said', x.gen = row.gen, Bound, x.gen = held.gen, x.n >= row.next
               PROVE  x \in held'.kept
    BY <1>1, <1>4 DEF NothingForgotten, Bound
  <2> QED
    BY <1>1, <1>4 DEF Sound, NothingForgotten, Bound
<1> QED
  BY <1>1, <1>6, <1>7, <1>8, <1>9, <1>10, PeersSame, HostSame DEF Sound, NeverFailed

(* A send that counts is the next the journal has. *)
LEMMA SendSettlesSound == ASSUME Sound, Faithful', SendSettles PROVE Sound'
<1>1. /\ sending # NotSending /\ sending' = NotSending
      /\ held' = IF Counts THEN [held EXCEPT !.sent = @ + 1] ELSE held
      /\ UNCHANGED <<sock, conn, said, up, down, peer, row, muted, log>>
  BY DEF SendSettles
<1>2. /\ held \in Executions /\ held.sent \in Int /\ conn \in {0, sock} /\ said \subseteq Event
      /\ row.next \in Nat /\ held.next \in Nat
  BY Numbers DEF Sound, Faithful, Typed
<1>3. Sends <=> Counts
  BY <1>1 DEF Sends, Counts
<1>4. ~Sends'
  BY <1>1 DEF Sends
<1>5. /\ held'.gen = held.gen /\ held'.next = held.next /\ held'.kept = held.kept
      /\ held'.phase = held.phase
      /\ held'.sent = held.sent + (IF Counts THEN 1 ELSE 0)
  <2>1. CASE Counts
    BY <1>1, <1>2, <2>1 DEF Executions
  <2>2. CASE ~Counts
    BY <1>1, <1>2, <2>2
  <2> QED
    BY <2>1, <2>2
<1>6. SendingOK'
  <2>1. /\ sending.event \in said
        /\ held.sent \in -1..MaxOrdinal /\ \A x \in held.kept : x.gen = held.gen
        /\ Sends => sending.event.n = held.sent + 1
    BY <1>1 DEF Sound, SendingOK
  <2>2. sending.event.n <= MaxOrdinal /\ sending.event.n \in Nat
    BY <1>2, <2>1, BoundAssumption DEF Event
  <2>3. held'.sent \in -1..MaxOrdinal
    BY <1>3, <1>5, <2>1, <2>2, BoundAssumption
  <2>4. sending'.on = 0
    BY <1>1 DEF NotSending
  <2> QED
    BY <1>1, <1>2, <1>4, <1>5, <2>1, <2>3, <2>4 DEF SendingOK
<1>7. LanesOK'
  <2>1. held'.sent + (IF Sends' THEN 2 ELSE 1) = held.sent + (IF Sends THEN 2 ELSE 1)
    BY <1>2, <1>3, <1>4, <1>5
  <2>2. PumpInTurn'
    BY <1>1, <1>5, <2>1, PumpSame
  <2> QED
    BY <1>1, <2>2, HostSame DEF LanesOK
<1>8. StartsOK'
  <2>1. Stored' = Stored /\ (Bound' => Bound) /\ held'.next >= held.next
    BY <1>1, <1>2, <1>5 DEF Stored, Bound
  <2> QED
    BY <1>1, <1>5, <2>1, GrowsSame, StartsKept
<1>9. AcksOK'
  <2>1. row'.next >= row.next /\ (Bound' => Bound)
    BY <1>1, <1>2 DEF Bound
  <2>2. \A s \in Socket : peer'[s].acked < row'.next
    BY <1>1 DEF Sound, AcksOK
  <2> QED
    BY <1>1, <1>5, <2>1, <2>2, GrowsSame, AcksKept
<1>10. NothingForgotten'
  BY <1>1, <1>5 DEF Sound, NothingForgotten
<1> QED
  BY <1>1, <1>6, <1>7, <1>8, <1>9, <1>10, PeersSame, HostSame DEF Sound, NeverFailed

(* The next event goes behind the others, which the Host reads before it.  *)
LEMMA SendNextSound == ASSUME Sound, Faithful', SendNext PROVE Sound'
<1>1. PICK e \in Due :
        /\ sending' = [on |-> conn, event |-> e]
        /\ up' = IF Live(conn)
                 THEN [up EXCEPT ![conn] = Append(@, [type |-> "event", gen |-> e.gen,
                                                      n |-> e.n, kind |-> e.kind])]
                 ELSE up
  BY DEF SendNext
<1>2. /\ held.phase \in {"running", "ending", "ended"} /\ conn # 0 /\ sending = NotSending
      /\ UNCHANGED <<held, sock, conn, said, down, peer, row, muted, log>>
  BY DEF SendNext
<1>3. /\ conn = sock /\ conn \in Socket /\ Opened(conn) /\ held.sent \in -1..MaxOrdinal
      /\ \A x \in held.kept : x.gen = held.gen
      /\ peer[conn].state # "up"
  BY <1>2 DEF Sound, Faithful, Typed, Socket, PeersOK, SendingOK
<1>4. /\ e \in said /\ e \in Event /\ e.gen = held.gen /\ e.n = held.sent + 1
      /\ held.sent \in Int
  <2>1. e \in held.kept /\ e.n = held.sent + 1
    BY DEF Due
  <2> QED
    BY <1>3, <2>1, Numbers DEF Sound, Faithful, Typed, SaidOK
<1>5. sending' # NotSending /\ sending'.on = conn /\ sending'.event = e
  BY <1>1, <1>2 DEF NotSending
<1>6. Sends' /\ ~Sends
  BY <1>2, <1>4, <1>5 DEF Sends
<1>7. SendingOK'
  <2>1. sending' \in [on : Socket, event : said']
    BY <1>1, <1>2, <1>3, <1>4
  <2> QED
    BY <1>2, <1>3, <1>4, <1>5, <1>6, <2>1 DEF SendingOK, Opened
<1> DEFINE x == [type |-> "event", gen |-> e.gen, n |-> e.n, kind |-> e.kind]
<1>8. /\ \A t \in Socket : t # conn => up'[t] = up[t]
      /\ Len(up[conn]) \in Nat
      /\ \/ ~Live(conn) /\ up' = up
         \/ /\ Len(up'[conn]) = Len(up[conn]) + 1
            /\ up'[conn][Len(up[conn]) + 1].gen = e.gen
            /\ up'[conn][Len(up[conn]) + 1].n = e.n
            /\ \A i \in 1..Len(up[conn]) : up'[conn][i] = up[conn][i]
  <2>1. up \in [Socket -> Seq(FrameSet)] /\ Len(up[conn]) \in Nat
    BY <1>3, Numbers DEF Sound, Faithful, Typed
  <2>2. CASE Live(conn)
    <3>1. x \in FrameSet /\ x.gen = e.gen /\ x.n = e.n
      BY <1>4, BoundAssumption DEF FrameSet, Event, Gen
    <3>2. up' = [up EXCEPT ![conn] = Append(@, x)]
      BY <1>1, <2>2
    <3> HIDE DEF x
    <3>3. /\ \A t \in Socket : t # conn => up'[t] = up[t]
          /\ Len(up'[conn]) = Len(up[conn]) + 1
          /\ up'[conn][Len(up[conn]) + 1] = x
          /\ \A i \in 1..Len(up[conn]) : up'[conn][i] = up[conn][i]
      BY <1>3, <2>1, <3>1, <3>2, Pushed
    <3> QED
      BY <2>1, <3>1, <3>3
  <2>3. CASE ~Live(conn)
    BY <1>1, <2>1, <2>3
  <2> QED
    BY <2>2, <2>3
<1>9. PeersOK'
  <2>1. \A s \in Socket : peer[s].state = "up" => up'[s] = up[s]
    BY <1>3, <1>8
  <2>2. PeersOK
    BY DEF Sound
  <2> QED
    BY <1>2, <2>1, <2>2 DEF PeersOK, Live, Opened, Answers
<1>10. InventoryOK'
  <2>1. \A s \in Socket : peer[s].state = "up" => up'[s] = up[s]
    BY <1>3, <1>8
  <2>2. InventoryOK
    BY DEF Sound
  <2> QED
    BY <1>2, <2>1, <2>2 DEF InventoryOK, Bound
<1>11. LaneInTurn'
  <2>1. LaneInTurn
    BY DEF Sound, LanesOK
  <2> QED
    BY <1>2, <2>1 DEF LaneInTurn, Bound
(* Up to the end of the queue nothing changes. *)
<1>12. ASSUME NEW s \in Socket, NEW i \in 1..(Len(up[s]) + 1)
       PROVE  Ahead(s, i)' = Ahead(s, i)
  <2>1. i # 1 => i - 1 \in 1..Len(up[s])
    BY Numbers DEF Sound
  <2>2. i # 1 => up'[s][i - 1] = up[s][i - 1]
    BY <1>8, <2>1
  <2> QED
    BY <1>2, <2>2 DEF Ahead
<1> DEFINE m == held.sent + 1
           k == Len(up[conn]) + 1
<1>13. k \in 1..(Len(up[conn]) + 1) /\ k \in Nat
  BY <1>8
<1>14. /\ Bound /\ held.gen = row.gen /\ peer[conn].state = "attached" /\ ~peer[conn].revoked
       => Reached(conn, k, m)
  BY <1>2, <1>6 DEF Sound, LanesOK, PumpInTurn
<1>15. QueueInTurn'
  <2> SUFFICES ASSUME NEW s \in Socket, Bound, peer[s].state = "attached", ~peer[s].revoked,
                      NEW i \in 1..Len(up'[s]), up'[s][i].gen = row.gen
               PROVE  Reached(s, i, up[s][i].n)'
    BY <1>2 DEF QueueInTurn, Bound
  <2>1. CASE i \in 1..Len(up[s]) /\ up'[s][i] = up[s][i]
    <3>1. Reached(s, i, up[s][i].n)
      BY <2>1 DEF Sound, LanesOK, QueueInTurn
    <3>2. i \in 1..(Len(up[s]) + 1)
      BY <2>1, Numbers DEF Sound
    <3> QED
      BY <1>2, <1>12, <2>1, <3>1, <3>2 DEF Reached
  <2>2. CASE s = conn /\ i = k /\ up'[s][i].gen = e.gen /\ up'[s][i].n = e.n
    <3>1. Reached(conn, k, m)
      BY <1>4, <1>14, <2>2
    <3>2. up'[s][i].n = m
      BY <1>4, <2>2
    <3> HIDE DEF m, k
    <3> QED
      BY <1>2, <1>3, <1>12, <1>13, <2>2, <3>1, <3>2 DEF Reached
  <2>3. \/ i \in 1..Len(up[s]) /\ up'[s][i] = up[s][i]
        \/ s = conn /\ i = k /\ up'[s][i].gen = e.gen /\ up'[s][i].n = e.n
    BY <1>8
  <2> QED
    BY <2>1, <2>2, <2>3
<1>16. PumpInTurn'
  <2> SUFFICES ASSUME Bound, held.gen = row.gen, peer[conn].state = "attached"
               PROVE  (Reached(conn, Len(up[conn]) + 1, held.sent + 2))'
    BY <1>2, <1>6 DEF PumpInTurn, Bound
  <2>1. Live(conn)
    BY DEF Live
  <2>2. Len(up'[conn]) = k /\ up'[conn][k].gen = e.gen /\ up'[conn][k].n = e.n
    BY <1>8, <2>1
  <2>3. Len(up'[conn]) + 1 # 1 /\ Len(up'[conn]) + 1 - 1 = k
    BY <1>13, <2>2
  <2>4. /\ (Ahead(conn, Len(up[conn]) + 1)').gen = e.gen
        /\ (Ahead(conn, Len(up[conn]) + 1)').n = e.n
    BY <1>2, <2>2, <2>3 DEF Ahead
  <2>5. e.gen = row'.gen /\ held'.sent + 2 <= e.n + 1
    BY <1>2, <1>4
  <2> QED
    BY <2>4, <2>5 DEF Reached
<1>17. StartsOK' /\ AcksOK' /\ NothingForgotten' /\ NeverFailed'
  <2>1. StartsOK /\ AcksOK /\ NothingForgotten /\ NeverFailed
    BY DEF Sound
  <2> QED
    BY <1>2, <2>1 DEF StartsOK, AcksOK, NothingForgotten, NeverFailed, Stored, Begins, Bound
<1> QED
  BY <1>7, <1>9, <1>10, <1>11, <1>15, <1>16, <1>17 DEF Sound, LanesOK

(* The Host's answer names an ordinal it has reached. *)
LEMMA HearAttachedSound ==
  ASSUME Sound, Faithful', Hear, HearAttached(Head(down[sock])), UNCHANGED row PROVE Sound'
<1> DEFINE f == Head(down[sock])
           h == PrunedTo(f.n)
<1>1. /\ sock # 0 /\ down[sock] # <<>> /\ down' = [down EXCEPT ![sock] = Tail(@)]
      /\ UNCHANGED <<sock, said, up, peer, row, muted, log, sending>>
      /\ f.type = "attached" /\ conn' = sock
      /\ held' = IF held.gen = 0 THEN held
                 ELSE IF f.gen = held.gen THEN Released(h) ELSE Revoked(held)
  BY DEF Hear, HearAttached
<1>2. /\ sock \in Socket /\ f = down[sock][1] /\ 1 \in 1..Len(down[sock])
      /\ \A i \in 1..Len(down'[sock]) : /\ i + 1 \in 1..Len(down[sock])
                                        /\ down'[sock][i] = down[sock][i + 1]
      /\ \A s \in Socket : s # sock => down'[s] = <<>>
  BY <1>1, Heard DEF Sound
<1>3. Answers(sock, 1)
  BY <1>1, <1>2 DEF Answers
<1>4. /\ conn = 0 /\ peer[sock].state # "up" /\ f.n \in 0..row.next
      /\ \A j \in 1..Len(down[sock]) : Answers(sock, j) => j = 1
  BY <1>2, <1>3 DEF Sound, PeersOK
<1>5. /\ row.next \in Nat /\ row.next <= MaxOrdinal /\ f.n \in Int /\ held \in Executions
      /\ held.sent \in -1..MaxOrdinal /\ MaxOrdinal \in Nat
      /\ \A e \in held.kept : e.gen = held.gen /\ e.n \in Nat
  BY <1>4, Numbers DEF Sound, Faithful, Typed, Rows, SendingOK, SaidOK
<1>6. h = [held EXCEPT !.kept = {e \in held.kept : e.n >= f.n}, !.sent = f.n - 1]
  BY DEF PrunedTo
<1> HIDE DEF f, h
<1>7. /\ h.gen = held.gen /\ h.next = held.next /\ h.sent = f.n - 1 /\ h.phase = held.phase
      /\ h.kept = {e \in held.kept : e.n >= f.n}
  BY <1>5, <1>6 DEF Executions
(* What becomes of the Runner's execution. *)
<1>8. \/ held' = held /\ held.gen = 0
      \/ held' = h /\ held.gen = f.gen
      \/ held' = Revoked(held)
      \/ held' = NotHeld
  BY <1>1 DEF Released
<1>9. held' = Revoked(held) =>
        /\ HeldStays /\ held'.phase \notin {"running", "ending", "ended"}
        /\ held'.phase = "revoked" \/ held'.gen = 0
  <2> SUFFICES ASSUME held' = Revoked(held)
               PROVE  /\ HeldStays /\ held'.phase \notin {"running", "ending", "ended"}
                      /\ held'.phase = "revoked" \/ held'.gen = 0
    OBVIOUS
  <2>1. held'.phase = "revoked" \/ held'.gen = 0
    <3>1. CASE held.phase \in {"running", "ending", "revoked"}
      BY <1>5, <3>1 DEF Revoked, Executions
    <3>2. CASE held.phase \notin {"running", "ending", "revoked"}
      BY <3>2, NotHeldTyped DEF Revoked
    <3> QED
      BY <3>1, <3>2
  <2> QED
    BY <2>1, RevokedIs DEF Sound
<1>10. /\ held'.gen = held.gen \/ held'.gen = 0
       /\ held'.gen = 0 \/ (held'.gen = held.gen /\ held'.next >= held.next)
       /\ held'.sent \in -1..MaxOrdinal /\ \A e \in held'.kept : e.gen = held'.gen
  <2>1. NotHeld.sent = -1 /\ NotHeld.gen = 0 /\ NotHeld.kept = {}
    BY DEF NotHeld
  <2>2. held.next \in Nat
    BY Numbers DEF Sound
  <2>3. CASE held' = held
    BY <1>5, <2>2, <2>3
  <2>4. CASE held' = h
    <3>1. f.n - 1 \in -1..MaxOrdinal
      BY <1>4, <1>5
    <3> QED
      BY <1>5, <1>7, <2>2, <2>4, <3>1
  <2>5. CASE held' = NotHeld
    BY <1>5, <2>1, <2>5
  <2>6. CASE held' = Revoked(held)
    <3>1. \/ held' = NotHeld
          \/ /\ held'.gen = held.gen /\ held'.next = held.next /\ held'.sent = held.sent
             /\ held'.kept \subseteq held.kept
      BY <1>9, <2>6 DEF HeldStays
    <3> QED
      BY <1>5, <2>1, <2>2, <2>5, <3>1
  <2> QED
    BY <1>8, <2>3, <2>4, <2>5, <2>6
<1>11. ~Sends'
  <2>1. sending.on = sock => FALSE
    BY <1>1, <1>4 DEF Sound, SendingOK
  <2> QED
    BY <1>1, <2>1 DEF Sends
<1>12. SendingOK'
  <2>1. sending = NotSending \/ /\ sending \in [on : Socket, event : said]
                                /\ peer[sending.on].state # "none"
    BY DEF Sound, SendingOK, Opened
  <2> QED
    BY <1>1, <1>10, <1>11, <2>1 DEF SendingOK, Opened
<1>13. PeersOK'
  <2>1. \A s \in Socket : \A i \in 1..Len(down'[s]) : ~Answers(s, i)'
    <3> SUFFICES ASSUME NEW s \in Socket, NEW i \in 1..Len(down'[s]), Answers(s, i)'
                 PROVE  FALSE
      OBVIOUS
    <3>1. s = sock
      BY <1>2, NoFrames
    <3>2. Answers(sock, i + 1) /\ i + 1 \in 1..Len(down[sock])
      BY <1>2, <3>1 DEF Answers
    <3>3. i + 1 = 1
      BY <1>4, <3>2
    <3> QED
      BY <3>3
  <2>2. /\ \A s, t \in Socket : Live(s)' /\ Opened(t)' => t <= s
        /\ sock # 0 => Opened(sock)
        /\ \A s \in Socket : /\ peer[s].stage = "idle" => peer[s].doing = None
                             /\ peer[s].state = "up" => peer[s].stage = "idle" /\ Len(up[s]) = 1
    BY <1>1 DEF Sound, PeersOK, Live, Opened
  <2> QED
    BY <1>1, <1>4, <2>1, <2>2 DEF PeersOK, Opened
<1>14. PumpInTurn'
  <2> SUFFICES ASSUME Bound', held'.gen = row'.gen, held'.phase # "revoked"
               PROVE  (Reached(conn, Len(up[conn]) + 1, held.sent + 1))'
    BY <1>11 DEF PumpInTurn
  <2>1. held'.gen # 0
    BY <1>1 DEF Sound, Faithful, SaidOK, Bound, Gen
  <2>2. held' = h
    BY <1>8, <1>9, <2>1, NotHeldTyped
  <2>3. held'.sent + 1 <= row'.next
    BY <1>1, <1>4, <1>5, <1>7, <2>2
  <2> QED
    BY <2>3 DEF Reached
<1>15. Grows({}) /\ row'.next >= row.next /\ row'.gen = row.gen /\ (Bound' => Bound)
       /\ row'.next \in Nat /\ Stored' = Stored
  BY <1>1, <1>5, GrowsHeard DEF Bound, Stored
<1>16. StartsOK'
  BY <1>1, <1>10, <1>15, StartsKept
<1>17. AcksOK'
  <2>1. \A s \in Socket : peer'[s].acked < row'.next
    BY <1>1 DEF Sound, AcksOK
  <2> QED
    BY <1>10, <1>15, <2>1, AcksKept
<1>18. NothingForgotten'
  <2> SUFFICES ASSUME held'.phase \in {"running", "ending", "ended"}
               PROVE  /\ held.phase \in {"running", "ending", "ended"} /\ held'.gen = held.gen
                      /\ \A e \in held.kept : Bound' /\ held.gen = row.gen /\ e.n >= row'.next =>
                           e \in held'.kept
    BY <1>1, <1>15, ForgottenStill
  <2>1. held' = held \/ held' = h
    BY <1>8, <1>9, NotHeldTyped
  <2>2. \A e \in held.kept : e.n >= row.next => e.n >= f.n
    BY <1>4, <1>5
  <2> QED
    BY <1>1, <1>7, <2>1, <2>2
<1> QED
  BY <1>1, <1>12, <1>13, <1>14, <1>16, <1>17, <1>18, HostSame DEF Sound, LanesOK, NeverFailed

(* The attempt begins where the Host is, after the others' events.         *)
LEMMA HearExecuteSound ==
  ASSUME Sound, Faithful', Hear, HearExecute(Head(down[sock])) PROVE Sound'
<1> DEFINE f == Head(down[sock])
<1>1. /\ sock # 0 /\ down[sock] # <<>> /\ down' = [down EXCEPT ![sock] = Tail(@)]
      /\ UNCHANGED <<sock, conn, sending, said, up, peer, row, muted, log>>
      /\ held' = Admitted(f) /\ f.type = "execute"
  BY DEF Hear, HearExecute
<1>2. /\ sock \in Socket /\ f = down[sock][1] /\ 1 \in 1..Len(down[sock])
      /\ f \in FrameSet
      /\ \A i \in 1..Len(down'[sock]) : /\ i + 1 \in 1..Len(down[sock])
                                        /\ down'[sock][i] = down[sock][i + 1]
      /\ \A s \in Socket : s # sock => down'[s] = <<>>
  BY <1>1, Heard DEF Sound
<1> HIDE DEF f
<1>3. Begins(sock, 1)
  BY <1>1, <1>2 DEF Begins
<1>4. /\ f.gen \in 1..row.gen /\ held.gen < f.gen /\ f.n >= 0
      /\ \A e \in said : e.gen < f.gen
      /\ f.gen = row.gen => f.n = row.next
  BY <1>2, <1>3 DEF Sound, Faithful, DownOK
<1>5. /\ row.next \in Nat /\ row.gen \in Nat /\ held.gen \in Nat /\ f.n \in 0..MaxOrdinal
      /\ f.gen \in Nat /\ MaxOrdinal \in Nat
      /\ \A e \in said : e.gen \in Nat
  BY <1>2, <1>4, Numbers DEF Sound, FrameSet
<1>6. /\ held'.gen = f.gen /\ held'.next = f.n /\ held'.kept = {} /\ held'.sent = f.n - 1
      /\ held'.phase = "running"
  BY <1>1 DEF Admitted
<1>7. \A e \in said : e.gen # f.gen
  BY <1>4, <1>5
<1>8. ~Sends' /\ SendingOK'
  <2>1. /\ sending = NotSending \/ /\ sending \in [on : Socket, event : said]
                                   /\ peer[sending.on].state # "none"
        /\ sending.on = sock => conn = sock
    BY DEF Sound, SendingOK, Opened
  <2>2. ~Sends'
    BY <1>1, <1>6, <1>7, <2>1 DEF Sends
  <2>3. held'.sent \in -1..MaxOrdinal
    BY <1>5, <1>6
  <2> QED
    BY <1>1, <1>6, <2>1, <2>2, <2>3 DEF SendingOK, Opened
<1>9. Grows({}) /\ row'.next >= row.next /\ row'.gen = row.gen /\ (Bound' => Bound)
       /\ row'.next \in Nat /\ Stored' = Stored
  BY <1>1, <1>5, GrowsHeard DEF Bound, Stored
<1>10. PeersOK'
  <2>1. ASSUME NEW s \in Socket
        PROVE  \A i \in 1..Len(down'[s]) : Answers(s, i)' =>
                 /\ conn' = 0 /\ peer'[s].state # "up" /\ down'[s][i].n \in 0..row'.next
                 /\ \A j \in 1..Len(down'[s]) : Answers(s, j)' => i = j
    BY <1>1, <1>9, AnswersKept
  <2>2. /\ \A s, t \in Socket : Live(s)' /\ Opened(t)' => t <= s
        /\ sock # 0 => Opened(sock)
        /\ conn # 0 => peer[conn].state # "up"
        /\ \A s \in Socket : /\ peer[s].stage = "idle" => peer[s].doing = None
                             /\ peer[s].state = "up" => peer[s].stage = "idle" /\ Len(up[s]) = 1
    BY <1>1 DEF Sound, PeersOK, Live, Opened
  <2> QED
    BY <1>1, <2>1, <2>2 DEF PeersOK, Opened
<1>11. PumpInTurn'
  <2> SUFFICES ASSUME held'.gen = row'.gen
               PROVE  (Reached(conn, Len(up[conn]) + 1, held.sent + 1))'
    BY <1>8 DEF PumpInTurn
  <2>1. held'.sent + 1 <= row'.next
    BY <1>1, <1>4, <1>5, <1>6
  <2> QED
    BY <2>1 DEF Reached
<1>12. StartsOK'
  <2> SUFFICES ASSUME NEW d \in Stored
               PROVE  /\ \A e \in said : d.gen < e.gen => d.n < e.n
                      /\ d.gen < held'.gen => d.n < held'.next
                      /\ \A s \in Socket : \A i \in 1..Len(down'[s]) :
                           Begins(s, i)' /\ d.gen < down'[s][i].gen => d.n < down'[s][i].n
    BY <1>1, <1>9 DEF Sound, StartsOK, Bound
  <2>1. /\ \A e \in said : d.gen < e.gen => d.n < e.n
        /\ \A s \in Socket : \A i \in 1..Len(down[s]) :
             Begins(s, i) /\ d.gen < down[s][i].gen => d.n < down[s][i].n
    BY DEF Sound, StartsOK
  <2>2. d.gen < held'.gen => d.n < held'.next
    BY <1>2, <1>3, <1>6, <2>1
  <2>3. ASSUME NEW s \in Socket, NEW i \in 1..Len(down'[s]), Begins(s, i)',
               d.gen < down'[s][i].gen
        PROVE  d.n < down'[s][i].n
    BY <1>9, <2>1, <2>3, BeginsStay
  <2> QED
    BY <2>1, <2>2, <2>3
<1>13. AcksOK'
  <2> SUFFICES ASSUME NEW s \in Socket, NEW i \in 1..Len(down'[s]), down'[s][i].type = "ack",
                      ~(down'[s][i].n < row.next), Bound
               PROVE  /\ held'.gen # row.gen
                      /\ \A j \in 1..Len(down'[s]) :
                           Begins(s, j)' /\ down'[s][j].gen = row.gen => i < j
    BY <1>1 DEF Sound, AcksOK, Bound
  <2>1. /\ s = sock /\ i + 1 \in 1..Len(down[sock]) /\ down'[s][i] = down[sock][i + 1]
        /\ i \in Nat \ {0}
    BY <1>2, NoFrames
  <2>2. \A j \in 1..Len(down[sock]) : Begins(sock, j) /\ down[sock][j].gen = row.gen => i + 1 < j
    BY <2>1 DEF Sound, AcksOK
  <2>3. held'.gen # row.gen
    <3>1. ~(i + 1 < 1)
      BY <2>1
    <3> QED
      BY <1>2, <1>3, <1>6, <2>2, <3>1
  <2>4. ASSUME NEW j \in 1..Len(down'[s]), Begins(s, j)', down'[s][j].gen = row.gen
        PROVE  i < j
    <3>1. j + 1 \in 1..Len(down[sock]) /\ down'[s][j] = down[sock][j + 1] /\ Begins(sock, j + 1)
      BY <1>2, <2>1, <2>4 DEF Begins
    <3>2. i + 1 < j + 1
      BY <2>2, <2>4, <3>1
    <3> QED
      BY <2>1, <3>2
  <2> QED
    BY <2>3, <2>4
<1>14. NothingForgotten'
  BY <1>1, <1>6, <1>7 DEF NothingForgotten
<1> QED
  BY <1>1, <1>8, <1>10, <1>11, <1>12, <1>13, <1>14, HostSame DEF Sound, LanesOK, NeverFailed

(* The inventory announces all the Runner has said. *)
LEMMA ConnectSound == ASSUME Sound, Faithful', Connect PROVE Sound'
<1> DEFINE s == CHOOSE t \in Socket : ~Opened(t) /\ \A u \in Socket : u < t => Opened(u)
<1>1. /\ sock = 0 /\ ~Opened(MaxSocket) /\ sock' = s
      /\ peer' = [t \in Socket |-> IF t = s THEN [NoPeer EXCEPT !.state = "up"]
                                   ELSE IF Opened(t) THEN Gone(peer[t]) ELSE peer[t]]
      /\ up' = [t \in Socket |-> IF t = s THEN <<Inventory>> ELSE <<>>]
      /\ UNCHANGED <<held, conn, sending, said, down, row, muted, log>>
  BY DEF Connect, MoreSockets
<1>2. PICK k \in 0..MaxSocket : \A t \in Socket : Opened(t) <=> t <= k
  BY DEF Sound, Faithful, OpenedInOrder
<1>3. s = k + 1 /\ s \in Socket /\ ~Opened(s)
  <2>1. k < MaxSocket
    BY <1>1, <1>2, BoundAssumption DEF Socket
  <2>2. k + 1 \in Socket /\ ~Opened(k + 1) /\ \A u \in Socket : u < k + 1 => Opened(u)
    BY <1>2, <2>1, BoundAssumption DEF Socket
  <2>3. s \in Socket /\ ~Opened(s) /\ \A u \in Socket : u < s => Opened(u)
    BY <2>2
  <2> HIDE DEF s
  <2>4. k < s /\ ~(k + 1 < s)
    BY <1>2, <2>2, <2>3 DEF Socket
  <2> QED
    BY <2>3, <2>4 DEF Socket
<1> HIDE DEF s
<1>4. /\ conn = 0 /\ row.next \in Nat /\ \A t \in Socket : t # 0 /\ t \in Nat
      /\ \A t \in Socket : down[t] = <<>>
  BY <1>1, Bounds, Numbers DEF Sound, Faithful, Typed, DownOK
<1>5. /\ peer'[s].state = "up" /\ peer'[s].stage = "idle" /\ peer'[s].doing = None
      /\ peer'[s].acked = -1 /\ up'[s] = <<Inventory>>
  <2>1. peer'[s] = [NoPeer EXCEPT !.state = "up"] /\ up'[s] = <<Inventory>>
    BY <1>1, <1>3
  <2> QED
    BY <2>1 DEF NoPeer
<1>6. ASSUME NEW t \in Socket, t # s
      PROVE  /\ up'[t] = <<>> /\ peer'[t].state \in {"none", "gone"}
             /\ peer'[t].state # "none" <=> Opened(t)
             /\ peer'[t].doing = peer[t].doing /\ peer'[t].stage = peer[t].stage
             /\ peer'[t].acked < row.next
  <2>1. /\ up'[t] = <<>> /\ peer'[t] = IF Opened(t) THEN Gone(peer[t]) ELSE peer[t]
        /\ peer[t] \in Peers /\ peer[t].acked < row.next
    BY <1>1, <1>6 DEF Sound, Faithful, Typed, AcksOK
  <2>2. CASE Opened(t)
    BY <1>4, <2>1, <2>2, GoneIs
  <2>3. CASE ~Opened(t)
    BY <2>1, <2>3 DEF Opened
  <2> QED
    BY <2>2, <2>3
<1>7. SendingOK'
  <2>1. /\ sending = NotSending \/ /\ sending \in [on : Socket, event : said]
                                   /\ Opened(sending.on)
        /\ held.sent \in -1..MaxOrdinal /\ \A e \in held.kept : e.gen = held.gen
    BY DEF Sound, SendingOK
  <2>2. sending = NotSending \/ /\ sending \in [on : Socket, event : said]
                                /\ peer'[sending.on].state # "none"
    BY <1>5, <1>6, <2>1
  <2>3. sending.on # s
    BY <1>3, <1>4, <2>1 DEF NotSending
  <2>4. ~Sends'
    BY <1>1, <1>4, <2>1 DEF Sends
  <2> QED
    BY <1>1, <2>1, <2>2, <2>3, <2>4 DEF SendingOK, Opened
<1>8. PeersOK'
  <2>1. \A t, u \in Socket : Live(t)' /\ Opened(u)' => u <= t
    <3> SUFFICES ASSUME NEW t \in Socket, NEW u \in Socket, Live(t)', Opened(u)' PROVE u <= t
      OBVIOUS
    <3>1. t = s
      BY <1>6 DEF Live
    <3>2. u = s \/ u <= k
      BY <1>2, <1>6 DEF Opened
    <3> QED
      BY <1>3, <1>4, <3>1, <3>2
  <2>2. \A t \in Socket :
          /\ peer'[t].stage = "idle" => peer'[t].doing = None
          /\ peer'[t].state = "up" => peer'[t].stage = "idle" /\ Len(up'[t]) = 1
    <3>1. \A t \in Socket : peer[t].stage = "idle" => peer[t].doing = None
      BY DEF Sound, PeersOK
    <3>2. Len(<<Inventory>>) = 1
      OBVIOUS
    <3> QED
      BY <1>5, <1>6, <3>1, <3>2
  <2>3. \A t \in Socket : \A i \in 1..Len(down'[t]) : FALSE
    BY <1>1, <1>4, NoFrames
  <2> QED
    BY <1>1, <1>4, <1>5, <2>1, <2>2, <2>3 DEF PeersOK, Opened
<1>9. InventoryOK'
  <2> SUFFICES ASSUME NEW t \in Socket, peer'[t].state = "up"
               PROVE  /\ Bound' /\ up'[t][1].gen = row'.gen => row'.next <= up'[t][1].n
                      /\ \A u \in Socket :
                           peer'[u].stage # "idle" /\ peer'[u].doing.gen = up'[t][1].gen =>
                             peer'[u].doing.n < up'[t][1].n
    BY DEF InventoryOK
  <2>1. t = s /\ up'[t][1] = Inventory
    BY <1>5, <1>6
  <2>2. ASSUME NEW u \in Socket, peer'[u].stage # "idle"
        PROVE  peer'[u].doing \in said
    BY <1>5, <1>6, <2>2 DEF Sound, Faithful, UpOK
  <2>3. \A e \in said : e.gen # 0
    BY Numbers DEF Sound
  <2>4. Bound => row.gen # 0
    BY DEF Sound, Faithful, SaidOK, Bound, Gen
  <2>5. CASE held.gen = 0
    <3>1. Inventory.gen = 0
      BY <2>5 DEF Inventory, Frame
    <3> QED
      BY <1>1, <2>1, <2>2, <2>3, <2>4, <3>1 DEF Bound
  <2>6. CASE held.gen # 0
    <3>1. Inventory.gen = held.gen /\ Inventory.n = held.next /\ held.phase # "none"
      BY <2>6, NotHeldTyped DEF Inventory, Frame, Sound, Faithful, SaidOK
    <3>2. /\ held.gen = row.gen => row.next <= held.next
          /\ \A e \in said : e.gen = held.gen => e.n < held.next
      BY <3>1 DEF Sound, Faithful, SaidOK
    <3> QED
      BY <1>1, <2>1, <2>2, <3>1, <3>2
  <2> QED
    BY <2>5, <2>6
<1>10. LanesOK'
  <2>1. LaneInTurn'
    <3> SUFFICES ASSUME NEW t \in Socket, Bound, peer'[t].stage # "idle",
                        peer'[t].doing.gen = row.gen
                 PROVE  peer'[t].stage = "taken" /\ peer'[t].doing.n <= row.next
      BY <1>1 DEF LaneInTurn, Bound
    <3>1. peer'[t].stage = peer[t].stage /\ peer'[t].doing = peer[t].doing
      BY <1>5, <1>6
    <3> QED
      BY <3>1 DEF Sound, LanesOK, LaneInTurn
  <2>2. QueueInTurn'
    <3>1. \A t \in Socket : peer'[t].state # "attached"
      BY <1>5, <1>6
    <3> QED
      BY <3>1 DEF QueueInTurn
  <2>3. PumpInTurn'
    BY <1>1, <1>4 DEF PumpInTurn
  <2> QED
    BY <2>1, <2>2, <2>3 DEF LanesOK
<1>11. StartsOK' /\ NothingForgotten' /\ NeverFailed'
  <2>1. StartsOK /\ NothingForgotten /\ NeverFailed
    BY DEF Sound
  <2> QED
    BY <1>1, <2>1 DEF StartsOK, NothingForgotten, NeverFailed, Stored, Begins, Bound
<1>12. AcksOK'
  <2>1. \A t \in Socket : peer'[t].acked < row'.next
    BY <1>1, <1>4, <1>5, <1>6
  <2>2. \A t \in Socket : \A i \in 1..Len(down'[t]) : FALSE
    BY <1>1, <1>4, NoFrames
  <2> QED
    BY <2>1, <2>2 DEF AcksOK
<1> QED
  BY <1>7, <1>8, <1>9, <1>10, <1>11, <1>12 DEF Sound

(* Only one connection is live. *)
LEMMA OneLive ==
  ASSUME Sound, NEW s \in Socket, NEW t \in Socket, Live(s), Live(t) PROVE s = t
<1>1. Opened(s) /\ Opened(t)
  BY DEF Live, Opened
<1>2. s <= t /\ t <= s
  BY <1>1 DEF Sound, PeersOK
<1> QED
  BY <1>2 DEF Socket

(* An attempt that is announced goes on, and one that is not is lost; the  *)
(* Run does not fail.                                                      *)
LEMMA AttachSound == ASSUME Sound, Faithful', NEW s \in Socket, Attach(s) PROVE Sound'
<1> DEFINE f == Head(up[s])
           bound == row.status = "bound"
           mine == bound /\ f.gen = row.gen
           goesOn == mine /\ f.n >= row.next
           x == IF goesOn THEN Frame("attached", f.gen, row.next) ELSE Frame("attached", 0, 0)
           g == IF goesOn THEN f.gen ELSE 0
<1>1. /\ peer[s].state = "up" /\ up[s] # <<>> /\ UNCHANGED <<runner, log>>
      /\ row' = IF mine THEN (IF goesOn THEN row ELSE [row EXCEPT !.status = "failed"])
                ELSE IF bound THEN Recovered ELSE row
      /\ up' = [up EXCEPT ![s] = Tail(@)]
      /\ down' = Send(s, <<x>>)
      /\ peer' = [peer EXCEPT ![s].state = "attached", ![s].owned = g]
  BY DEF Attach
<1>2. /\ peer \in [Socket -> Peers] /\ up \in [Socket -> Seq(FrameSet)] /\ row \in Rows
      /\ UNCHANGED <<held, sock, conn, sending, said>>
      /\ row.next \in Nat
  BY <1>1, Numbers DEF Sound, Faithful, Typed, runner
<1>3. f \in FrameSet /\ f = up[s][1]
  BY <1>1, <1>2, Popped
<1>4. mine => goesOn
  BY <1>1, <1>3 DEF Sound, InventoryOK, Bound
<1> HIDE DEF f
<1>5. x \in FrameSet /\ x.type = "attached" /\ x.n \in 0..row.next
  <2>1. f.gen \in 0..MaxGen /\ row.next \in -1..MaxOrdinal /\ 0 \in -1..MaxOrdinal
    BY <1>2, <1>3, BoundAssumption DEF FrameSet, Rows
  <2>2. /\ Frame("attached", f.gen, row.next) \in FrameSet /\ Frame("attached", 0, 0) \in FrameSet
        /\ Frame("attached", f.gen, row.next).type = "attached"
        /\ Frame("attached", 0, 0).type = "attached"
        /\ Frame("attached", f.gen, row.next).n = row.next /\ Frame("attached", 0, 0).n = 0
    BY <2>1, Bounds, FrameTyped
  <2>3. row.next \in 0..row.next /\ 0 \in 0..row.next
    BY <1>2
  <2> QED
    BY <2>2, <2>3
<1> HIDE DEF x, g, goesOn
<1>6. row' = row \/ row' = Recovered
  BY <1>1, <1>4
<1>7. /\ row'.gen = row.gen /\ row'.next = row.next /\ (Bound' => Bound) /\ NeverFailed'
      /\ row'.lost = row.lost \/ (row'.lost = row.gen /\ ~Bound')
  <2>1. CASE row' = row
    BY <2>1 DEF Bound, Sound, NeverFailed
  <2>2. CASE row' = Recovered
    BY <1>2, <2>2, RecoveredIs DEF Recovered, Rows
  <2> QED
    BY <1>6, <2>1, <2>2
<1>8. /\ peer'[s].state = "attached" /\ peer'[s].stage = peer[s].stage
      /\ peer'[s].doing = peer[s].doing /\ peer'[s].acked = peer[s].acked
      /\ \A t \in Socket : t # s => peer'[t] = peer[t] /\ up'[t] = up[t]
      /\ Live(s)
  BY <1>1, <1>2 DEF Peers, Live
<1>9. \A t \in Socket : /\ Opened(t)' <=> Opened(t)
                        /\ peer'[t].stage = peer[t].stage /\ peer'[t].doing = peer[t].doing
                        /\ peer'[t].acked = peer[t].acked
                        /\ Live(t)' <=> Live(t)
  BY <1>1, <1>8 DEF Opened, Live
<1>10. Len(up'[s]) = 0
  <2>1. Len(up[s]) = 1
    BY <1>1 DEF Sound, PeersOK
  <2>2. Len(up'[s]) = Len(up[s]) - 1
    BY <1>1, <1>2, Popped
  <2> QED
    BY <2>1, <2>2
(* No other connection is live. *)
<1>11. \A t \in Socket : t # s => peer'[t].state \notin {"up", "attached"}
  <2>1. \A t \in Socket : Live(t) => t = s
    BY <1>8, OneLive
  <2> QED
    BY <1>8, <2>1 DEF Live
<1>12. conn # s
  BY <1>1, Bounds DEF Sound, PeersOK
<1>13. SendingOK'
  BY <1>2, <1>9, SendingKept DEF Sound, SocketStays, HeldStays
<1>14. PeersOK'
  <2>1. \A t, u \in Socket : Live(t)' /\ Opened(u)' => u <= t
    BY <1>9 DEF Sound, PeersOK
  <2>2. conn # 0 => peer'[conn].state # "up"
    <3>1. conn # 0 => conn \in Socket
      BY DEF Sound, Faithful, Typed, Socket
    <3> QED
      BY <1>8, <1>11, <3>1
  <2>3. sock # 0 => peer'[sock].state # "none"
    <3>1. sock # 0 => sock \in Socket /\ Opened(sock)
      BY DEF Sound, Faithful, Typed, Socket, PeersOK
    <3> QED
      BY <1>9, <3>1 DEF Opened
  <2>4. \A t \in Socket : /\ peer'[t].stage = "idle" => peer'[t].doing = None
                          /\ peer'[t].state # "up"
    BY <1>8, <1>9, <1>11 DEF Sound, PeersOK
  <2>5. ASSUME NEW t \in Socket, NEW i \in 1..Len(down'[t]), Answers(t, i)'
        PROVE  /\ conn = 0 /\ down'[t][i].n \in 0..row'.next
               /\ \A j \in 1..Len(down'[t]) : Answers(t, j)' => i = j
    <3>1. \A u \in Socket : u # sock => down'[u] = <<>>
      BY <1>2 DEF Faithful, DownOK
    <3>2. t = sock
      BY <2>5, <3>1, NoFrames
    <3>3. CASE t = s
      <4>1. conn = 0
        BY <1>12, <3>2, <3>3 DEF Sound, Faithful, Typed
      <4>2. \A j \in 1..Len(down[s]) : ~Answers(s, j)
        BY <1>1 DEF Sound, PeersOK
      <4>3. \A j \in 1..Len(down'[s]) : Answers(s, j)' =>
              j = Len(down[s]) + 1 /\ down'[s][j] = x
        <5>1. \A j \in 1..Len(down'[s]) :
                \/ j \in 1..Len(down[s]) /\ down'[s][j] = down[s][j]
                \/ j = Len(down[s]) + 1 /\ down'[s][j] = x
          <6>1. x \in FrameSet /\ down' = Send(s, <<x>>)
            BY <1>1, <1>5
          <6>2. Behind(s, x)
            BY <6>1, Written
          <6> QED
            BY <6>2 DEF Behind
        <5> QED
          BY <4>2, <5>1 DEF Answers
      <4> QED
        BY <1>5, <1>7, <2>5, <3>3, <4>1, <4>3
    <3>4. CASE t # s
      <4>1. down' = down
        BY <1>1, <3>2, <3>4 DEF Send
      <4> QED
        BY <1>7, <2>5, <4>1 DEF Sound, PeersOK, Answers
    <3> QED
      BY <3>3, <3>4
  <2> QED
    BY <1>2, <2>1, <2>2, <2>3, <2>4, <2>5 DEF PeersOK, Opened
<1>15. InventoryOK'
  BY <1>8, <1>11 DEF InventoryOK
<1>16. LanesOK'
  <2>1. LaneInTurn'
    BY <1>7, <1>9 DEF LaneInTurn, Sound, LanesOK
  <2>2. QueueInTurn'
    BY <1>10, <1>11 DEF QueueInTurn
  <2>3. PumpInTurn'
    <3>1. conn # 0 => peer'[conn].state # "attached"
      <4>1. conn # 0 => conn \in Socket
        BY DEF Sound, Faithful, Typed, Socket
      <4> QED
        BY <1>11, <1>12, <4>1
    <3> QED
      BY <1>2, <3>1 DEF PumpInTurn
  <2> QED
    BY <2>1, <2>2, <2>3 DEF LanesOK
<1>17. Grows({x}) /\ Stored' = Stored
  BY <1>1, <1>5, GrowsSent DEF Stored
<1>18. StartsOK'
  <2>1. held'.next >= held.next /\ row'.next >= row.next
    BY <1>2, <1>7, Numbers DEF Sound
  <2> QED
    BY <1>2, <1>5, <1>7, <1>17, <2>1, StartsKept
<1>19. AcksOK'
  <2>1. \A t \in Socket : peer'[t].acked < row'.next
    BY <1>7, <1>9 DEF Sound, AcksOK
  <2>2. row'.next >= row.next
    BY <1>2, <1>7
  <2> QED
    BY <1>2, <1>5, <1>7, <1>17, <2>1, <2>2, AcksKept
<1>20. NothingForgotten'
  <2>1. row'.next >= row.next /\ row'.next \in Nat
    BY <1>2, <1>7
  <2> QED
    BY <1>2, <1>7, <2>1, ForgottenStill
<1> QED
  BY <1>7, <1>13, <1>14, <1>15, <1>16, <1>18, <1>19, <1>20 DEF Sound

(* What the lane takes next is in turn, and what follows it still is. *)
LEMMA TakeSound == ASSUME Sound, Faithful', NEW s \in Socket, Take(s) PROVE Sound'
<1> DEFINE f == Head(up[s])
<1>1. /\ peer[s].state = "attached" /\ up[s] # <<>> /\ peer[s].stage = "idle"
      /\ peer' = IF peer[s].revoked THEN peer
                 ELSE [peer EXCEPT ![s].stage = "taken", ![s].doing = Carries(f)]
      /\ up' = [up EXCEPT ![s] = Tail(@)]
      /\ UNCHANGED <<runner, down, row, muted, log>>
  BY DEF Take, Carries
<1>2. /\ peer \in [Socket -> Peers] /\ up \in [Socket -> Seq(FrameSet)]
      /\ UNCHANGED <<held, sock, conn, sending, said>>
      /\ row.next \in Nat
  BY <1>1, Numbers DEF Sound, Faithful, Typed, runner
<1>3. /\ f = up[s][1] /\ Len(up[s]) \in Nat \ {0} /\ Len(up'[s]) = Len(up[s]) - 1
      /\ \A i \in 1..Len(up'[s]) : up'[s][i] = up[s][i + 1]
      /\ \A t \in Socket : t # s => up'[t] = up[t]
  BY <1>1, <1>2, Popped
<1> HIDE DEF f
<1>4. /\ peer'[s].state = "attached" /\ peer'[s].acked = peer[s].acked
      /\ peer'[s].revoked = peer[s].revoked
      /\ \A t \in Socket : t # s => peer'[t] = peer[t]
      /\ peer[s].revoked => peer'[s] = peer[s]
      /\ ~peer[s].revoked => /\ peer'[s].stage = "taken"
                             /\ peer'[s].doing.gen = f.gen /\ peer'[s].doing.n = f.n
  <2>1. CASE peer[s].revoked
    BY <1>1, <2>1
  <2>2. CASE ~peer[s].revoked
    <3> DEFINE e == Carries(f)
    <3>1. e.gen = f.gen /\ e.n = f.n
      BY DEF Carries
    <3>2. peer' = [peer EXCEPT ![s].stage = "taken", ![s].doing = e]
      BY <1>1, <2>2
    <3> HIDE DEF e
    <3>3. /\ peer'[s].state = "attached" /\ peer'[s].acked = peer[s].acked
          /\ peer'[s].revoked = peer[s].revoked /\ peer'[s].stage = "taken"
          /\ peer'[s].doing = e
      BY <1>1, <1>2, <3>2 DEF Peers
    <3> QED
      BY <1>2, <2>2, <3>1, <3>2, <3>3
  <2> QED
    BY <2>1, <2>2
<1>5. \A t \in Socket : /\ peer'[t].state = peer[t].state /\ peer'[t].acked = peer[t].acked
                        /\ peer'[t].revoked = peer[t].revoked
  BY <1>1, <1>4
<1>6. \A t \in Socket : (Opened(t)' <=> Opened(t)) /\ (Live(t)' <=> Live(t))
  BY <1>5 DEF Opened, Live
(* No inventory is unread. *)
<1>7. \A t \in Socket : peer[t].state # "up"
  BY <1>1, OneLive DEF Live
<1>8. SendingOK'
  BY <1>2, <1>6, SendingKept DEF Sound, SocketStays, HeldStays
<1>9. PeersOK'
  <2>1. /\ \A t, u \in Socket : Live(t)' /\ Opened(u)' => u <= t
    BY <1>6 DEF Sound, PeersOK
  <2>2. sock # 0 => peer'[sock].state # "none"
    <3>1. sock # 0 => sock \in Socket /\ Opened(sock)
      BY DEF Sound, Faithful, Typed, Socket, PeersOK
    <3> QED
      BY <1>6, <3>1 DEF Opened
  <2>3. conn # 0 => peer'[conn].state # "up"
    <3>1. conn # 0 => conn \in Socket
      BY DEF Sound, Faithful, Typed, Socket
    <3> QED
      BY <1>5, <1>7, <3>1
  <2>4. \A t \in Socket : peer'[t].stage = "idle" => peer'[t].doing = None
    <3>1. \A t \in Socket : peer[t].stage = "idle" => peer[t].doing = None
      BY DEF Sound, PeersOK
    <3> QED
      BY <1>4, <3>1
  <2>5. \A t \in Socket : \A i \in 1..Len(down[t]) : Answers(t, i) =>
          /\ conn = 0 /\ peer[t].state # "up" /\ down[t][i].n \in 0..row.next
          /\ \A j \in 1..Len(down[t]) : Answers(t, j) => i = j
    BY DEF Sound, PeersOK
  <2>6. \A t \in Socket : peer'[t].state # "up"
    BY <1>5, <1>7
  <2>7. \A t \in Socket : \A i \in 1..Len(down'[t]) : Answers(t, i)' =>
          /\ conn' = 0 /\ down'[t][i].n \in 0..row'.next
          /\ \A j \in 1..Len(down'[t]) : Answers(t, j)' => i = j
    BY <1>1, <1>2, <2>5 DEF Answers
  <2> QED
    BY <1>1, <1>2, <2>1, <2>2, <2>3, <2>4, <2>6, <2>7 DEF PeersOK, Opened
<1>10. InventoryOK'
  BY <1>5, <1>7 DEF InventoryOK
<1>11. 1 \in 1..Len(up[s]) /\ f.gen \in Nat /\ f.n \in Int
  BY <1>3, Numbers DEF Sound
<1>12. LaneInTurn'
  <2> SUFFICES ASSUME NEW t \in Socket, Bound, peer'[t].stage # "idle",
                      peer'[t].doing.gen = row.gen
               PROVE  peer'[t].stage = "taken" /\ peer'[t].doing.n <= row.next
    BY <1>1 DEF LaneInTurn, Bound
  <2>1. CASE peer'[t] = peer[t]
    BY <2>1 DEF Sound, LanesOK, LaneInTurn
  <2>2. CASE t = s /\ ~peer[s].revoked
    <3>1. Reached(s, 1, f.n)
      <4>1. \A i \in 1..Len(up[s]) : up[s][i].gen = row.gen => Reached(s, i, up[s][i].n)
        BY <1>1, <2>2 DEF Sound, LanesOK, QueueInTurn
      <4>2. up[s][1].gen = row.gen /\ f = up[s][1]
        BY <1>3, <1>4, <2>2
      <4> QED
        BY <1>11, <4>1, <4>2
    <3>2. Ahead(s, 1).gen = 0
      <4>1. peer[s].doing = None
        BY <1>1 DEF Sound, PeersOK
      <4> QED
        BY <4>1 DEF Ahead, None
    <3>3. row.gen # 0
      BY DEF Sound, Faithful, SaidOK, Bound, Gen
    <3> QED
      BY <1>4, <2>2, <3>1, <3>2, <3>3 DEF Reached
  <2> QED
    BY <1>4, <2>1, <2>2
(* The queue moves up by one. *)
<1>13. ASSUME ~peer[s].revoked, NEW i \in 1..(Len(up'[s]) + 1)
       PROVE  /\ i + 1 \in 1..(Len(up[s]) + 1)
              /\ Ahead(s, i)'.gen = Ahead(s, i + 1).gen /\ Ahead(s, i)'.n = Ahead(s, i + 1).n
  <2>1. i + 1 \in 1..(Len(up[s]) + 1) /\ i + 1 # 1 /\ i + 1 - 1 = i
    BY <1>3
  <2>2. Ahead(s, i + 1).gen = up[s][i].gen /\ Ahead(s, i + 1).n = up[s][i].n
    BY <2>1 DEF Ahead
  <2>3. CASE i = 1
    BY <1>3, <1>4, <1>13, <2>1, <2>2, <2>3 DEF Ahead
  <2>4. CASE i # 1
    <3>1. i - 1 \in 1..Len(up'[s]) /\ i - 1 + 1 = i
      BY <1>3, <2>4
    <3>2. up'[s][i - 1] = up[s][i]
      BY <1>3, <3>1
    <3> QED
      BY <2>1, <2>2, <2>4, <3>2 DEF Ahead
  <2> QED
    BY <2>3, <2>4
<1>14. ASSUME NEW t \in Socket, t # s, NEW i \in 1..(Len(up[t]) + 1)
       PROVE  Ahead(t, i)' = Ahead(t, i)
  BY <1>3, <1>4, <1>14 DEF Ahead
<1>15. QueueInTurn'
  <2> SUFFICES ASSUME NEW t \in Socket, Bound, peer[t].state = "attached", ~peer[t].revoked,
                      NEW i \in 1..Len(up'[t]), up'[t][i].gen = row.gen
               PROVE  Reached(t, i, up[t][i].n)'
    BY <1>1, <1>5 DEF QueueInTurn, Bound
  <2>1. CASE t = s
    <3>1. i + 1 \in 1..Len(up[s]) /\ up'[s][i] = up[s][i + 1] /\ i \in 1..(Len(up'[s]) + 1)
      BY <1>3, <2>1
    <3>2. Reached(s, i + 1, up[s][i + 1].n)
      BY <2>1, <3>1 DEF Sound, LanesOK, QueueInTurn
    <3>3. Ahead(s, i)'.gen = Ahead(s, i + 1).gen /\ Ahead(s, i)'.n = Ahead(s, i + 1).n
      BY <1>13, <2>1, <3>1
    <3> QED
      BY <1>1, <2>1, <3>1, <3>2, <3>3 DEF Reached
  <2>2. CASE t # s
    <3>1. up'[t] = up[t] /\ i \in 1..Len(up[t]) /\ i \in 1..(Len(up[t]) + 1)
      BY <1>3, <2>2, Numbers DEF Sound
    <3>2. Reached(t, i, up[t][i].n)
      BY <3>1 DEF Sound, LanesOK, QueueInTurn
    <3>3. Ahead(t, i)' = Ahead(t, i)
      BY <1>14, <2>2, <3>1
    <3> QED
      BY <1>1, <3>1, <3>2, <3>3 DEF Reached
  <2> QED
    BY <2>1, <2>2
<1>16. PumpInTurn'
  <2> DEFINE m == held.sent + (IF Sends THEN 2 ELSE 1)
  <2>1. m' = m
    BY <1>2 DEF Sends
  <2>2. /\ Bound /\ held.gen = row.gen /\ held.phase # "revoked" /\ conn # 0
        /\ peer[conn].state = "attached" /\ ~peer[conn].revoked
        => Reached(conn, Len(up[conn]) + 1, m)
    BY DEF Sound, LanesOK, PumpInTurn
  <2> HIDE DEF m
  <2> SUFFICES ASSUME Bound, held.gen = row.gen, held.phase # "revoked", conn # 0,
                      peer[conn].state = "attached", ~peer[conn].revoked
               PROVE  (Reached(conn, Len(up[conn]) + 1, m))'
    <3>1. conn # 0 => conn \in Socket
      BY DEF Sound, Faithful, Typed, Socket
    <3> QED
      BY <1>1, <1>2, <1>5, <3>1 DEF PumpInTurn, Bound, m
  <2>3. Reached(conn, Len(up[conn]) + 1, m) /\ conn \in Socket
    BY <2>2 DEF Sound, Faithful, Typed, Socket
  <2>4. CASE conn = s
    <3>1. Len(up'[s]) + 1 \in 1..(Len(up'[s]) + 1) /\ Len(up'[s]) + 1 + 1 = Len(up[s]) + 1
      BY <1>3
    <3>2. /\ (Ahead(s, Len(up[s]) + 1)').gen = Ahead(s, Len(up[s]) + 1).gen
          /\ (Ahead(s, Len(up[s]) + 1)').n = Ahead(s, Len(up[s]) + 1).n
      <4>1. ASSUME NEW i \in 1..(Len(up'[s]) + 1), i = Len(up'[s]) + 1
            PROVE  /\ Ahead(s, i)'.gen = Ahead(s, Len(up[s]) + 1).gen
                   /\ Ahead(s, i)'.n = Ahead(s, Len(up[s]) + 1).n
        BY <1>13, <2>4, <3>1, <4>1
      <4> QED
        BY <3>1, <4>1 DEF Ahead
    <3> QED
      BY <1>1, <1>2, <2>1, <2>3, <2>4, <3>2 DEF Reached
  <2>5. CASE conn # s
    <3>1. up'[conn] = up[conn] /\ peer'[conn] = peer[conn]
      BY <1>3, <1>4, <2>3, <2>5
    <3> QED
      BY <1>1, <1>2, <2>1, <2>3, <3>1 DEF Reached, Ahead
  <2> QED
    BY <2>4, <2>5
<1>17. StartsOK' /\ NothingForgotten' /\ NeverFailed'
  <2>1. StartsOK /\ NothingForgotten /\ NeverFailed
    BY DEF Sound
  <2> QED
    BY <1>1, <1>2, <2>1 DEF StartsOK, NothingForgotten, NeverFailed, Stored, Begins, Bound
<1>18. AcksOK'
  <2>1. AcksOK
    BY DEF Sound
  <2> QED
    BY <1>1, <1>2, <1>5, <2>1 DEF AcksOK, Begins, Bound
<1> QED
  BY <1>8, <1>9, <1>10, <1>12, <1>15, <1>16, <1>17, <1>18 DEF Sound, LanesOK

(* The new attempt has said nothing and follows all that is recorded.      *)
LEMMA DispatchSound == ASSUME Sound, Faithful', NEW s \in Socket, Dispatch(s) PROVE Sound'
<1> DEFINE g == row.gen + 1
           x == Frame("execute", g, row.next)
<1>1. /\ row.status = "queued" /\ row.gen < MaxGen /\ peer[s].state = "attached"
      /\ row' = [row EXCEPT !.status = "bound", !.gen = @ + 1]
      /\ peer' = [peer EXCEPT ![s].owned = g, ![s].revoked = FALSE]
      /\ down' = Send(s, <<x>>)
      /\ UNCHANGED <<runner, up, muted, log>>
  BY DEF Dispatch
<1>2. /\ peer \in [Socket -> Peers] /\ row \in Rows
      /\ UNCHANGED <<held, sock, conn, sending, said>>
      /\ row.next \in Nat /\ row.gen \in Nat /\ row.lost \in Nat /\ held.gen \in Nat
      /\ row.next \in 0..MaxOrdinal
  BY <1>1, Numbers DEF Sound, Faithful, Typed, runner, Rows
<1>3. g \in 0..MaxGen /\ row.next \in -1..MaxOrdinal /\ g > row.gen /\ g \in Nat
  BY <1>1, <1>2, BoundAssumption DEF Rows
<1>4. /\ row'.gen = g /\ row'.next = row.next /\ row'.lost = row.lost /\ row'.status = "bound"
  BY <1>1, <1>2 DEF Rows
<1> HIDE DEF g
<1>5. x \in FrameSet /\ x.type = "execute" /\ x.gen = g /\ x.n = row.next
  BY <1>3, FrameTyped
<1> HIDE DEF x
<1>6. \A t \in Socket : /\ peer'[t].state = peer[t].state /\ peer'[t].acked = peer[t].acked
                        /\ peer'[t].stage = peer[t].stage /\ peer'[t].doing = peer[t].doing
                        /\ up'[t] = up[t]
  BY <1>1, <1>2 DEF Peers
<1>7. \A t \in Socket : (Opened(t)' <=> Opened(t)) /\ (Live(t)' <=> Live(t))
  BY <1>6 DEF Opened, Live
<1>8. Grows({x})
  <2>1. down' = Send(s, <<x>>)
    BY <1>1
  <2> QED
    BY <1>5, <2>1, GrowsSent
(* No inventory is unread. *)
<1>9. \A t \in Socket : peer[t].state # "up"
  BY <1>1, OneLive DEF Live
(* Nothing was said by the new attempt. *)
<1>10. \A e \in said : e.gen # g
  BY <1>3, Numbers DEF Sound, Faithful, SaidOK
<1>11. held.gen # g
  <2>1. held.gen = 0 \/ held.gen <= row.gen
    BY DEF Sound, Faithful, SaidOK
  <2> QED
    BY <1>2, <1>3, <2>1
<1>12. SendingOK'
  BY <1>2, <1>7, SendingKept DEF Sound, SocketStays, HeldStays
<1>13. PeersOK'
  <2>1. \A t, u \in Socket : Live(t)' /\ Opened(u)' => u <= t
    BY <1>7 DEF Sound, PeersOK
  <2>2. sock # 0 => peer'[sock].state # "none"
    <3>1. sock # 0 => sock \in Socket /\ Opened(sock)
      BY DEF Sound, Faithful, Typed, Socket, PeersOK
    <3> QED
      BY <1>7, <3>1 DEF Opened
  <2>3. conn # 0 => peer'[conn].state # "up"
    <3>1. conn # 0 => conn \in Socket
      BY DEF Sound, Faithful, Typed, Socket
    <3> QED
      BY <1>6, <1>9, <3>1
  <2>4. \A t \in Socket : /\ peer'[t].stage = "idle" => peer'[t].doing = None
                          /\ peer'[t].state # "up"
    BY <1>6, <1>9 DEF Sound, PeersOK
  <2>5. ASSUME NEW t \in Socket
        PROVE  \A i \in 1..Len(down'[t]) : Answers(t, i)' =>
                 /\ conn' = 0 /\ peer'[t].state # "up" /\ down'[t][i].n \in 0..row'.next
                 /\ \A j \in 1..Len(down'[t]) : Answers(t, j)' => i = j
    <3>1. row'.next >= row.next
      BY <1>2, <1>4
    <3> QED
      BY <1>2, <1>5, <1>6, <1>8, <3>1, AnswersKept
  <2> QED
    BY <1>2, <2>1, <2>2, <2>3, <2>4, <2>5 DEF PeersOK, Opened
<1>14. InventoryOK'
  BY <1>6, <1>9 DEF InventoryOK
<1>15. LanesOK'
  <2>1. LaneInTurn'
    <3>1. \A t \in Socket : peer[t].stage # "idle" => peer[t].doing \in said
      BY DEF Sound, Faithful, UpOK
    <3> QED
      BY <1>4, <1>6, <1>10, <3>1 DEF LaneInTurn
  <2>2. QueueInTurn'
    <3>1. \A t \in Socket : peer[t].state = "attached" =>
            \A i \in 1..Len(up[t]) : up[t][i].gen # g
      <4>1. \A t \in Socket : peer[t].state = "attached" =>
              \A i \in 1..Len(up[t]) : Carries(up[t][i]) \in said
        BY DEF Sound, Faithful, UpOK
      <4>2. \A f : Carries(f).gen = f.gen
        BY DEF Carries
      <4> QED
        BY <1>10, <4>1, <4>2
    <3> QED
      BY <1>4, <1>6, <3>1 DEF QueueInTurn
  <2>3. PumpInTurn'
    BY <1>2, <1>4, <1>11 DEF PumpInTurn
  <2> QED
    BY <2>1, <2>2, <2>3 DEF LanesOK
<1>16. Behind(s, x)
  <2>1. down' = Send(s, <<x>>)
    BY <1>1
  <2> QED
    BY <1>5, <2>1, Written
<1>17. StartsOK'
  <2>1. Stored' = Stored
    BY <1>1 DEF Stored
  <2>2. row'.lost <= row'.gen /\ row'.lost < row'.gen
    BY <1>2, <1>3, <1>4 DEF Sound, StartsOK
  <2>3. ASSUME NEW d \in Stored, NEW t \in Socket, NEW i \in 1..Len(down'[t]), Begins(t, i)',
               d.gen < down'[t][i].gen
        PROVE  d.n < down'[t][i].n
    <3>1. CASE i \in 1..Len(down[t]) /\ down'[t][i] = down[t][i]
      BY <2>3, <3>1 DEF Sound, StartsOK, Begins
    <3>2. CASE down'[t][i] = x
      <4>1. d.n < row.next
        BY DEF Sound, Faithful, LogOK
      <4> QED
        BY <1>5, <3>2, <4>1
    <3> QED
      BY <1>16, <3>1, <3>2 DEF Behind
  <2>4. \A d \in Stored : /\ \A e \in said : d.gen < e.gen => d.n < e.n
                          /\ d.gen < held.gen => d.n < held.next
    BY DEF Sound, StartsOK
  <2> QED
    BY <1>2, <2>1, <2>2, <2>3, <2>4 DEF StartsOK
<1>18. AcksOK'
  <2>1. \A t \in Socket : peer'[t].acked < row'.next
    BY <1>4, <1>6 DEF Sound, AcksOK
  <2>2. ASSUME NEW t \in Socket, NEW i \in 1..Len(down'[t]), down'[t][i].type = "ack",
               NEW j \in 1..Len(down'[t]), Begins(t, j)', down'[t][j].gen = g
        PROVE  i < j
    <3>1. i \in 1..Len(down[t])
      BY <1>5, <1>16, <2>2 DEF Behind
    <3>2. j = Len(down[t]) + 1
      <4>1. ~(j \in 1..Len(down[t]) /\ down'[t][j] = down[t][j])
        <5> SUFFICES ASSUME j \in 1..Len(down[t]), down'[t][j] = down[t][j] PROVE FALSE
          OBVIOUS
        <5>1. Begins(t, j)
          BY <2>2 DEF Begins
        <5>2. down[t][j].gen \in 1..row.gen
          BY <5>1 DEF Sound, Faithful, DownOK
        <5> QED
          BY <1>2, <1>3, <2>2, <5>2
      <4> QED
        BY <1>16, <2>2, <4>1 DEF Behind
    <3>3. Len(down[t]) \in Nat
      BY Numbers DEF Sound
    <3> QED
      BY <3>1, <3>2, <3>3
  <2> QED
    BY <1>2, <1>4, <1>11, <2>1, <2>2 DEF AcksOK
<1>19. NothingForgotten' /\ NeverFailed'
  BY <1>2, <1>4, <1>10 DEF NothingForgotten, NeverFailed
<1> QED
  BY <1>12, <1>13, <1>14, <1>15, <1>17, <1>18, <1>19 DEF Sound

-----------------------------------------------------------------------------
(* 12. The theorems about the attempt that holds the Run. *)

LEMMA HearSound == ASSUME Sound, Faithful', Hear PROVE Sound'
<1>1. CASE HearAttached(Head(down[sock])) /\ UNCHANGED row
  BY <1>1, HearAttachedSound
<1>2. ASSUME NEW f, HearRevoked(f), UNCHANGED row PROVE Sound'
  BY <1>2, HearRevokedCalm, CalmKeeps
<1>3. CASE HearAck(Head(down[sock])) /\ UNCHANGED row
  BY <1>3, HearAckCalm, CalmKeeps
<1>4. CASE HearExecute(Head(down[sock]))
  BY <1>4, HearExecuteSound
<1>5. ASSUME NEW f, RejectExecute(f) PROVE Sound'
  BY <1>5, RejectExecuteCalm, CalmKeeps
<1> QED
  BY <1>1, <1>2, <1>3, <1>4, <1>5 DEF Hear

LEMMA InitSound == Init => Sound
<1> SUFFICES ASSUME Init PROVE Sound
  OBVIOUS
<1>1. Faithful
  BY InitFaithful
<1>2. /\ held = NotHeld /\ sock = 0 /\ conn = 0 /\ sending = NotSending
      /\ row.status = "queued" /\ row.gen = 0 /\ row.next = 0 /\ row.lost = 0
      /\ said = {} /\ Stored = {}
      /\ \A s \in Socket : /\ Len(up[s]) = 0 /\ Len(down[s]) = 0
                           /\ peer[s].state = "none" /\ peer[s].stage = "idle"
                           /\ peer[s].doing = None /\ peer[s].acked = -1
  BY NoFrames DEF Init, NoPeer, Stored
<1>3. SendingOK
  BY <1>2, BoundAssumption DEF SendingOK, Sends, NotHeld
<1>4. PeersOK
  BY <1>2 DEF PeersOK, Live, Answers
<1>5. InventoryOK /\ LanesOK
  BY <1>2 DEF InventoryOK, LanesOK, LaneInTurn, QueueInTurn, PumpInTurn
<1>6. StartsOK
  BY <1>2 DEF StartsOK, Bound
<1>7. AcksOK
  BY <1>2 DEF AcksOK
<1>8. NothingForgotten /\ NeverFailed
  BY <1>2 DEF NothingForgotten, NeverFailed
<1> QED
  BY <1>1, <1>3, <1>4, <1>5, <1>6, <1>7, <1>8 DEF Sound

LEMMA SoundStep == ASSUME Sound, [Next]_vars PROVE Sound'
<1>1. Faithful'
  BY FaithfulStep DEF Sound
<1>2. CASE \E kind \in Kind : Emit(kind)
  BY <1>1, <1>2, EmitSound
<1>3. CASE SendNext \/ SendSettles
  BY <1>1, <1>3, SendNextSound, SendSettlesSound
<1>4. CASE Finish \/ Leave
  BY <1>1, <1>4, WindingCalm, CalmKeeps
<1>5. CASE Hear
  BY <1>1, <1>5, HearSound
<1>6. CASE LoseSocket \/ Crash
  BY <1>1, <1>6, LoseSocketCalm, CalmKeeps
<1>7. CASE Connect
  BY <1>1, <1>7, ConnectSound
<1>8. ASSUME NEW s \in Socket, Attach(s) \/ Take(s) \/ Dispatch(s) PROVE Sound'
  BY <1>1, <1>8, AttachSound, TakeSound, DispatchSound
<1>9. ASSUME NEW s \in Socket,
             \/ Commit(s) \/ FlushAcknowledgements(s) \/ Refuse(s) \/ RefuseEvent(s)
             \/ Drop(s) \/ CommitFails(s)
      PROVE  Sound'
  <2>1. Calm
    BY <1>9, CommitCalm, FlushCalm, RefuseCalm, RefuseEventCalm, DropCalm, CommitFailsCalm
  <2> QED
    BY <1>1, <2>1, CalmKeeps
<1>10. CASE Expire \/ Supersede \/ HostEnds
  BY <1>1, <1>10, RowStepCalm, CalmKeeps
<1>11. CASE UNCHANGED vars
  <2>1. /\ UNCHANGED <<runner, up, down, peer, row, muted, log>>
    BY <1>11 DEF vars
  <2>2. Eases /\ FramesStay /\ NeverFailed'
    BY <2>1, SameRow, FramesSame DEF Sound, NeverFailed
  <2>3. Calm
    BY <2>1, <2>2, RowCalm
  <2> QED
    BY <1>1, <2>3, CalmKeeps
<1> QED
  BY <1>2, <1>3, <1>4, <1>5, <1>6, <1>7, <1>8, <1>9, <1>10, <1>11 DEF Next, Delivery

(* What the attempt that holds the Run rests on: its events reach the Host *)
(* in turn (#pumpJournal, attachRunnerExecutions), and only what the Host  *)
(* has counted is acknowledged (#acknowledge).                             *)
THEOREM SoundHolds == Spec => []Sound
<1>1. Sound /\ [Next]_vars => Sound'
  BY SoundStep
<1> QED
  BY InitSound, <1>1, PTL DEF Spec

(* However often connections are lost, the Runner forgets no event of the  *)
(* attempt that holds the Run before the Host has counted it, and that     *)
(* attempt is neither refused nor failed (acknowledge, #refuseEvent).      *)
THEOREM JournalSoundAlways == Spec => []JournalSound
<1>1. Sound => JournalSound
  <2> SUFFICES ASSUME Sound PROVE JournalSound
    OBVIOUS
  <2>1. sending \in [on : 0..MaxSocket, event : Event \cup {None}]
    <3>1. CASE sending = NotSending
      BY <3>1, BoundAssumption DEF NotSending
    <3>2. CASE sending # NotSending
      <4>1. sending \in [on : Socket, event : said]
        BY <3>2 DEF Sound, SendingOK
      <4>2. said \subseteq Event
        BY DEF Sound, Faithful, Typed
      <4>3. Socket \subseteq 0..MaxSocket
        BY BoundAssumption DEF Socket
      <4> HIDE DEF Event
      <4> QED
        BY <4>1, <4>2, <4>3
    <3> QED
      BY <3>1, <3>2
  <2>2. held \in [phase : Phase, gen : 0..MaxGen, next : 0..MaxOrdinal,
                  kept : SUBSET Event, sent : -1..MaxOrdinal]
    BY DEF Sound, Faithful, Typed, Executions, SendingOK
  <2>3. TypeOK
    BY <2>1, <2>2 DEF Sound, Faithful, Typed, TypeOK, Peers, Rows
  <2> QED
    BY <2>3 DEF Sound, JournalSound
<1> QED
  BY SoundHolds, <1>1, PTL
=============================================================================
