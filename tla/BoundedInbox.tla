---------------------------- MODULE BoundedInbox ----------------------------
(***************************************************************************)
(* apps/runner/src/runtime/bounded-inbox.ts: the frames the Host has sent  *)
(* on one connection and the Runner has not read yet, bounded in number    *)
(* and bytes, with the reads that wait for one; and the socket handlers of *)
(* apps/runner/src/host/host-connection.ts that fill and close it.         *)
(***************************************************************************)
EXTENDS Integers, Sequences, SequencesExt, FiniteSetsExt, Subsequences

CONSTANTS
  Kind,      \* what a read can select frames by
  MaxItems,  \* maxItems
  MaxBytes,  \* maxBytes
  MaxPush,   \* bound of the model: frames that arrive
  MaxRead    \* bound of the model: reads

InboxAssumption ==
  /\ MaxItems \in Nat \ {0} /\ MaxBytes \in Nat \ {0}
  /\ MaxPush \in Nat /\ MaxRead \in Nat

Item == [n : 1..MaxPush, kind : Kind, bytes : 0..MaxBytes]
Waiter == [n : 1..MaxRead, wants : SUBSET Kind]

VARIABLES
  queue,    \* #queue
  waiters,  \* #waiters
  bytes,    \* #bytes
  closed,   \* #closed: open, null ("done"), or an error ("failed")
  arrived,  \* history: the items push took, in order
  answer    \* history: what each read was given, in the order of the reads

vars == <<queue, waiters, bytes, closed, arrived, answer>>

(* The answer of a read: none yet, a frame, or the end. *)
Gave(i) == [state |-> "given", n |-> i.n]
End(state) == [state |-> state, n |-> 0]
Pending == End("pending")
Ended == {"done", "failed"}

TypeOK ==
  /\ queue \in Seq(Item) /\ Len(queue) <= MaxItems
  /\ waiters \in Seq(Waiter) /\ Len(waiters) <= MaxRead
  /\ closed \in {"open"} \cup Ended
  /\ bytes \in 0..MaxBytes
  /\ arrived \in Seq(Item) /\ Len(arrived) <= MaxPush
  /\ answer \in Seq([state : Ended \cup {"pending", "given"}, n : 0..MaxPush])
  /\ Len(answer) <= MaxRead

Init ==
  /\ queue = <<>> /\ waiters = <<>> /\ bytes = 0 /\ closed = "open"
  /\ arrived = <<>> /\ answer = <<>>

(* close: what is queued is dropped, and every read that waits ends.       *)
CloseWith(error) ==
  /\ closed' = error /\ queue' = <<>> /\ bytes' = 0 /\ waiters' = <<>>
  /\ answer' = [w \in DOMAIN answer |-> IF answer[w] = Pending THEN End(error) ELSE answer[w]]
  /\ UNCHANGED arrived

(* The place of the read a frame goes to, 0 when none wants it.            *)
Server(kind) == SelectInSeq(waiters, LAMBDA w : kind \in w.wants)

Fits(i) == Len(queue) < MaxItems /\ bytes + i.bytes <= MaxBytes

(* push, of a frame the handler has read: a read that waits for one like   *)
(* it takes it, else it is queued.  When it does not fit, onMessage closes *)
(* the inbox with the error.                                               *)
Push(kind, size) ==
  LET i == [n |-> Len(arrived) + 1, kind |-> kind, bytes |-> size]
      at == Server(kind)
  IN  /\ closed = "open" /\ Len(arrived) < MaxPush
      /\ \/ /\ size <= MaxBytes /\ at # 0
            /\ answer' = [answer EXCEPT ![waiters[at].n] = Gave(i)]
            /\ waiters' = RemoveAt(waiters, at)
            /\ arrived' = Append(arrived, i)
            /\ UNCHANGED <<queue, bytes, closed>>
         \/ /\ size <= MaxBytes /\ at = 0 /\ Fits(i)
            /\ queue' = Append(queue, i) /\ bytes' = bytes + size
            /\ arrived' = Append(arrived, i)
            /\ UNCHANGED <<waiters, closed, answer>>
         \/ /\ size > MaxBytes \/ (at = 0 /\ ~Fits(i))
            /\ CloseWith("failed")

(* onClose, onError, and the finally of #connectOnce.                      *)
Close == closed = "open" /\ \E error \in Ended : CloseWith(error)

Found_Head(wants) == IF queue # <<>> /\ Head(queue).kind \in wants THEN 1 ELSE 0
Found(wants) == SelectInSeq(queue, LAMBDA i : i.kind \in wants)

Freed(i) == i.bytes

(* nextMatching, and next, which wants them all.                           *)
Read(wants) ==
  LET w == Len(answer) + 1
      at == Found(wants)
  IN  /\ w <= MaxRead
      /\ \/ /\ at # 0
            /\ answer' = Append(answer, Gave(queue[at]))
            /\ queue' = RemoveAt(queue, at) /\ bytes' = bytes - Freed(queue[at])
            /\ UNCHANGED waiters
         \/ /\ at = 0 /\ closed # "open" /\ answer' = Append(answer, End(closed))
            /\ UNCHANGED <<queue, bytes, waiters>>
         \/ /\ at = 0 /\ closed = "open" /\ answer' = Append(answer, Pending)
            /\ waiters' = Append(waiters, [n |-> w, wants |-> wants])
            /\ UNCHANGED <<queue, bytes>>
      /\ UNCHANGED <<closed, arrived>>

Next ==
  \/ \E kind \in Kind, size \in 0..MaxBytes + 1 : Push(kind, size)
  \/ \E wants \in {Kind} \cup {{k} : k \in Kind} : Read(wants)
  \/ Close

Spec == Init /\ [][Next]_vars

-----------------------------------------------------------------------------
(* Properties. *)

(* Frames never wait for the read that waits for them.                     *)
NoneIdle ==
  \A q \in ToSet(queue), w \in ToSet(waiters) : q.kind \notin w.wants

(* The bytes of frames, counted one by one.                                *)
BytesOf(q) ==
  {b \in (1..MaxPush) \X (1..MaxBytes) : \E i \in ToSet(q) : b[1] = i.n /\ b[2] <= i.bytes}

(* Until the inbox closes every frame is either queued, in order and with  *)
(* its bytes counted, or was given to exactly one read.                    *)
Given == {w \in DOMAIN answer : answer[w].state = "given"}

NothingLost ==
  closed = "open" =>
    /\ queue = Omit(arrived, {i \in ToSet(arrived) : \E w \in Given : answer[w].n = i.n})
    /\ bytes = Cardinality(BytesOf(queue))
    /\ \A v, w \in Given : answer[v] = answer[w] => v = w

(* Frames of a kind are read in the order they arrived in by the reads in  *)
(* the order they were made in, whether frame or read came first.          *)
InTurn ==
  \A i \in ToSet(arrived') :
    Gave(i) \in ToSet(answer') \ ToSet(answer) =>
      /\ \A q \in ToSet(queue) : q.kind = i.kind => i.n <= q.n
      /\ \A v \in ToSet(waiters) : i.kind \in v.wants =>
           \E w \in 1..v.n : answer'[w] = Gave(i)

ReadInOrder == [][InTurn]_vars

(* Once the inbox is closed nothing waits any more and nothing is given.   *)
ClosedEnds ==
  closed # "open" => queue = <<>> /\ waiters = <<>> /\ bytes = 0
                     /\ \A w \in DOMAIN answer : answer[w] # Pending

(* Every frame is read once and in its turn, or goes with the connection.  *)
FramesAreRead == [](TypeOK /\ NoneIdle /\ NothingLost /\ ClosedEnds) /\ ReadInOrder
=============================================================================
