------------------------ MODULE SteerDeliveryProofs -------------------------
(***************************************************************************)
(* SteerDelivery for every number of messages, Runs, attempts and faults:  *)
(* no message is heard twice, its row never says what is not true of it,   *)
(* none stays claimed for a Run that has ended, and no restart ends the    *)
(* Run.                                                                    *)
(*                                                                         *)
(* Receipts says nothing of where a message is on its way, so no step      *)
(* could rest on it.  Steered (section 2) follows each message through the *)
(* places it can be in: its row, a command that waits, the connection, an  *)
(* engine that is being told, an attempt that is about to start.  A steer  *)
(* that waits to be sent is its message's only one and has been nowhere    *)
(* (QueueOK); once it travels it is in one place, and not heard before     *)
(* (TravelOK); a message claimed by a restart is nobody else's, and the    *)
(* attempt that will start with it has not started (ClaimOK).  A restart   *)
(* command names an attempt that was replaced (CommandOK), so that its     *)
(* interrupt never is of the current one.                                  *)
(*                                                                         *)
(* Section 1 has what the commands that stay in a queue keep; after it     *)
(* there is one lemma per action, for the Host first and then the Runner.  *)
(***************************************************************************)
EXTENDS SteerDelivery, FiniteSetTheorems, FunctionTheorems, SequenceTheorems, TLAPS

-----------------------------------------------------------------------------
(* 1. The commands that stay in a queue. *)

(* Places of a sequence can be counted, and are no more than its elements. *)
LEMMA CountOfPlaces ==
  ASSUME NEW n \in Nat, NEW K, K \subseteq 1..n
  PROVE  /\ IsFiniteSet(K) /\ Cardinality(K) \in Nat /\ Cardinality(K) <= n
         /\ K \subseteq Int
<1>1. IsFiniteSet(1..n) /\ Cardinality(1..n) = n
  BY FS_Interval
<1>2. K \in SUBSET (1..n)
  OBVIOUS
<1>3. IsFiniteSet(K) /\ Cardinality(K) <= Cardinality(1..n)
  BY <1>1, <1>2, FS_Subset
<1>4. Cardinality(K) \in Nat
  BY <1>3, FS_CardinalityType
<1>5. K \subseteq Int
  OBVIOUS
<1> QED
  BY <1>1, <1>3, <1>4, <1>5

(* Every number up to their count is that of one of the places. *)
LEMMA PlaceIs ==
  ASSUME NEW n \in Nat, NEW K, K \subseteq 1..n, NEW i \in 1..Cardinality(K)
  PROVE  Place(K, i) \in K /\ Cardinality({j \in K : j < Place(K, i)}) = i - 1
<1> DEFINE Before(k) == {j \in K : j < k}
           c == Cardinality(K)
<1>1. IsFiniteSet(K) /\ c \in Nat /\ K \subseteq Int
  BY CountOfPlaces
<1>2. ASSUME NEW k \in K
      PROVE  /\ IsFiniteSet(Before(k)) /\ Cardinality(Before(k)) \in 0..(c - 1)
  <2>1. Before(k) \in SUBSET K /\ k \notin Before(k)
    OBVIOUS
  <2>2. /\ IsFiniteSet(Before(k)) /\ Cardinality(Before(k)) <= c
        /\ c = Cardinality(Before(k)) => K = Before(k)
    BY <1>1, <2>1, FS_Subset
  <2>3. Cardinality(Before(k)) \in Nat
    BY <2>2, FS_CardinalityType
  <2> HIDE DEF Before, c
  <2>4. Cardinality(Before(k)) # c
    BY <1>2, <2>1, <2>2
  <2> QED
    BY <1>1, <2>2, <2>3, <2>4
<1>3. ASSUME NEW k \in K, NEW l \in K, k < l
      PROVE  Cardinality(Before(k)) # Cardinality(Before(l))
  <2>1. Before(k) \in SUBSET Before(l) /\ k \in Before(l) /\ k \notin Before(k)
    <3>1. K \subseteq Int /\ k \in Int /\ l \in Int
      BY <1>1
    <3>2. \A x \in K : x < k => x < l
      BY <1>3, <3>1
    <3>3. ~(k < k)
      BY <3>1
    <3> QED
      BY <1>3, <3>2, <3>3
  <2>2. IsFiniteSet(Before(l))
    BY <1>2
  <2>3. Cardinality(Before(l)) = Cardinality(Before(k)) => Before(l) = Before(k)
    BY <2>1, <2>2, FS_Subset
  <2> QED
    BY <2>1, <2>3
<1>4. \E k \in K : Cardinality(Before(k)) = i - 1
  <2> SUFFICES ASSUME \A k \in K : Cardinality(Before(k)) # i - 1 PROVE FALSE
    OBVIOUS
  <2> DEFINE T == (0..(c - 1)) \ {i - 1}
             f == [k \in K |-> Cardinality(Before(k))]
  <2>1. f \in [K -> T]
    BY <1>2
  <2>2. IsFiniteSet(T) /\ Cardinality(T) = c - 1
    <3>1. IsFiniteSet(0..(c - 1)) /\ Cardinality(0..(c - 1)) = c /\ i - 1 \in 0..(c - 1)
      <4>1. i \in 1..c
        OBVIOUS
      <4> HIDE DEF c
      <4>2. 0 \in Int /\ c - 1 \in Int
        BY <1>1
      <4>3. /\ IsFiniteSet(0..(c - 1))
            /\ Cardinality(0..(c - 1)) = IF 0 > c - 1 THEN 0 ELSE (c - 1) - 0 + 1
        BY <4>2, FS_Interval
      <4> QED
        BY <1>1, <4>1, <4>3
    <3>2. /\ IsFiniteSet((0..(c - 1)) \ {i - 1})
          /\ Cardinality((0..(c - 1)) \ {i - 1})
             = IF i - 1 \in 0..(c - 1) THEN Cardinality(0..(c - 1)) - 1 ELSE Cardinality(0..(c - 1))
      BY <3>1, FS_RemoveElement
    <3> QED
      BY <3>1, <3>2
  <2>3. Cardinality(T) < Cardinality(K)
    <3> HIDE DEF T
    <3> QED
      BY <1>1, <2>2
  <2>4. \E k, l \in K : k # l /\ f[k] = f[l]
    <3> HIDE DEF T, f, c
    <3> QED
      BY <1>1, <2>1, <2>2, <2>3, FS_PigeonHole
  <2>5. PICK k \in K, l \in K : k # l /\ Cardinality(Before(k)) = Cardinality(Before(l))
    BY <2>4
  <2>6. k \in Int /\ l \in Int
    OBVIOUS
  <2> HIDE DEF Before
  <2>7. k < l \/ l < k
    BY <2>5, <2>6
  <2> QED
    BY <1>3, <2>5, <2>7
<1> QED
  BY <1>4 DEF Place

(* What Omit leaves of a sequence stays in its order, and the first element
   stays the first. *)
LEMMA OmitLeaves ==
  ASSUME NEW S, NEW s \in Seq(S), NEW T
  PROVE  /\ Omit(s, T) \in Seq(S)
         /\ \E f \in [DOMAIN Omit(s, T) -> DOMAIN s] :
              /\ \A i \in DOMAIN Omit(s, T) : Omit(s, T)[i] = s[f[i]] /\ s[f[i]] \notin T
              /\ \A i, j \in DOMAIN Omit(s, T) : f[i] = f[j] => i = j
              /\ s # <<>> /\ Head(s) \notin T => 1 \in DOMAIN Omit(s, T) /\ f[1] = 1
<1> DEFINE K == {k \in DOMAIN s : s[k] \notin T}
           t == Omit(s, T)
           c == Cardinality(K)
<1>1. /\ Len(s) \in Nat /\ DOMAIN s = 1..Len(s) /\ \A k \in 1..Len(s) : s[k] \in S
      /\ K \subseteq 1..Len(s)
  BY LenProperties, ElementOfSeq
<1>2. IsFiniteSet(K) /\ c \in Nat /\ K \subseteq Int
  BY <1>1, CountOfPlaces
<1>3. \A i \in 1..c : Place(K, i) \in K /\ Cardinality({j \in K : j < Place(K, i)}) = i - 1
  BY <1>1, PlaceIs
<1>4. t = [i \in 1..c |-> s[Place(K, i)]]
  BY DEF Omit, Subsequence
<1>5. \A k \in K : s[k] \in S /\ s[k] \notin T
  BY <1>1
<1>6. 1 \in DOMAIN s /\ Head(s) \notin T /\ s[1] = Head(s) => 1 \in K
  OBVIOUS
<1>7. s # <<>> => 1 \in DOMAIN s /\ s[1] = Head(s)
  BY <1>1, HeadTailProperties
<1> HIDE DEF t, c, K
<1>8. t \in Seq(S) /\ Len(t) = c /\ DOMAIN t = 1..c /\ \A i \in 1..c : t[i] = s[Place(K, i)]
  <2>1. \A i \in 1..c : s[Place(K, i)] \in S
    BY <1>3, <1>5
  <2> QED
    BY <1>2, <1>4, <2>1, IsASeq
<1>9. ASSUME NEW i \in 1..c, NEW j \in 1..c, Place(K, i) = Place(K, j) PROVE i = j
  <2>1. i - 1 = j - 1
    BY <1>3, <1>9
  <2> QED
    BY <1>2, <2>1
<1>10. ASSUME s # <<>>, Head(s) \notin T PROVE 1 \in 1..c /\ Place(K, 1) = 1
  <2>1. 1 \in K /\ s[1] = Head(s)
    BY <1>6, <1>7, <1>10
  <2>2. c # 0
    BY <1>2, <2>1, FS_EmptySet DEF c
  <2>3. 1 \in 1..c
    BY <1>2, <2>2
  <2>4. Place(K, 1) \in K /\ Cardinality({j \in K : j < Place(K, 1)}) = 0
    BY <1>3, <2>3
  <2> DEFINE p == Place(K, 1)
             before == {j \in K : j < p}
  <2>5. before = {}
    <3>1. IsFiniteSet(before)
      BY <1>2, FS_Subset
    <3>2. Cardinality(before) = 0
      BY <2>4
    <3> HIDE DEF before
    <3> QED
      BY <3>1, <3>2, FS_EmptySet
  <2>6. ~(1 < p) /\ p \in 1..Len(s)
    BY <1>1, <2>1, <2>4, <2>5
  <2> HIDE DEF p
  <2>7. p = 1
    BY <1>1, <2>6
  <2> QED
    BY <2>3, <2>7 DEF p
<1>11. \E f \in [DOMAIN t -> DOMAIN s] :
         /\ \A i \in DOMAIN t : t[i] = s[f[i]] /\ s[f[i]] \notin T
         /\ \A i, j \in DOMAIN t : f[i] = f[j] => i = j
         /\ s # <<>> /\ Head(s) \notin T => 1 \in DOMAIN t /\ f[1] = 1
  <2> DEFINE f == [i \in 1..c |-> Place(K, i)]
  <2>1. f \in [DOMAIN t -> DOMAIN s]
    BY <1>1, <1>3, <1>8
  <2>2. \A i \in DOMAIN t : t[i] = s[f[i]] /\ s[f[i]] \notin T
    BY <1>3, <1>5, <1>8
  <2>3. \A i, j \in DOMAIN t : f[i] = f[j] => i = j
    BY <1>8, <1>9
  <2>4. s # <<>> /\ Head(s) \notin T => 1 \in DOMAIN t /\ f[1] = 1
    BY <1>8, <1>10
  <2> HIDE DEF f
  <2> QED
    BY <2>1, <2>2, <2>3, <2>4
<1> QED
  BY <1>8, <1>11 DEF t

-----------------------------------------------------------------------------
(* 2. The invariant. *)

(* Where a message is, besides its row: in a command that waits or is sent, with
   an engine that is being told, or with one that is about to start. *)
IsSteer(c, m) == c.kind = "steer" /\ c.msg = m
InQueue(m)    == {i \in DOMAIN queue : IsSteer(queue[i], m)}
InNet(m)      == {a \in net : IsSteer(a.cmd, m)}
Loaded(m)     == eng.phase = "loaded" /\ m \in eng.batch
Untouched(m)  == heard[m] = 0 /\ asked[m] = 0 /\ InNet(m) = {} /\ ~Loaded(m)

(* The attempt that is current, and the one the Run is bound to. *)
RunOK ==
  /\ run.bound <= attempt.n /\ (attempt.sent <=> run.bound = attempt.n)
  /\ attempt.started => attempt.sent
  /\ run.status = "queued" => run.bound = 0
  /\ run.status = "running" /\ attempt.sent => attempt.started
  /\ run.outcome = "interrupted" => run.stopped

(* What a command is about: a restart is over once its attempt was replaced, and
   a stop is of a Run that was stopped. *)
CommandOK(c) ==
  /\ c.run <= run.n
  /\ c.kind = "restart" => c.gen < attempt.n
  /\ c.kind = "stop" /\ c.run = run.n => run.stopped
  /\ c.kind = "steer" => c.msg \in Message

CommandsOK ==
  /\ queue \in Seq(CommandType)
  /\ \A i \in DOMAIN queue : CommandOK(queue[i])
  /\ \A a \in net : CommandOK(a.cmd) /\ (a.at = "asked" => a.cmd.kind = "steer")

(* An engine is of an attempt that was sent, and of the Run of that attempt. *)
EngineOK ==
  /\ eng.phase = "none" => eng = Idle
  /\ eng.phase # "none" =>
       /\ eng.att \in 1..attempt.n /\ eng.run \in 1..run.n
       /\ eng.att = attempt.n => eng.run = run.n /\ attempt.sent
  /\ eng.phase = "settling" => eng.cause # "none"
  /\ eng.cause = "interrupted" /\ eng.att = attempt.n => run.stopped

Claims(m, by) == input[m].state = "claimed" /\ input[m].by = by

EventType == [type : {"started", "injected", "interrupted", "completed", "lost"},
              msg : Message \cup {NoMessage}, att : 1..MaxAttempt]

EventOK(e) ==
  /\ e.att <= attempt.n /\ (e.att = attempt.n => attempt.sent)
  /\ e.type = "injected" => e.msg \in Message /\ heard[e.msg] = 1
  /\ e.type = "interrupted" /\ e.att = attempt.n => run.stopped
  /\ e.type = "started" =>
       /\ eng.phase = "loaded" => eng.att # e.att
       /\ e.att = attempt.n => \A m \in Message : Claims(m, "restart") => heard[m] = 1

JournalOK == journal \in Seq(EventType) /\ \A i \in DOMAIN journal : EventOK(journal[i])

(* The steers of the queue are of the Run that is current, and one for a message.
   A message whose steer waits to be sent has not been anywhere yet.  While one
   is sent, what is on its way is of that one. *)
QueueOK ==
  /\ \A i \in DOMAIN queue : queue[i].kind = "steer" => queue[i].run = run.n /\ run.status # "ended"
  /\ \A i, j \in DOMAIN queue, m \in Message :
       IsSteer(queue[i], m) /\ IsSteer(queue[j], m) => i = j
  /\ \A i \in DOMAIN queue, m \in Message :
       IsSteer(queue[i], m) /\ (i # 1 \/ ~sent) => Claims(m, "steer") /\ input[m].cmd = "pending"
  /\ \A m \in Message :
       sent /\ IsSteer(Head(queue), m) => \A a \in InNet(m) : a.cmd = Head(queue)

(* A message that is claimed, by a steer or by a restart. *)
ClaimOK(m) ==
  input[m].state = "claimed" =>
    /\ input[m].run = run.n /\ run.status # "ended"
    /\ \/ input[m].by = "steer" /\ input[m].cmd = "pending" /\ Untouched(m)
       \/ input[m].by = "steer" /\ input[m].cmd = "dispatched"
       \/ /\ input[m].by = "restart" /\ input[m].cmd = "none"
          /\ attempt.reason = "steer_restart" /\ ~attempt.started
          /\ InQueue(m) = {} /\ InNet(m) = {} /\ asked[m] = 0
          /\ ~attempt.sent => Untouched(m)
          /\ eng.phase = "loaded" /\ eng.att = attempt.n => m \in eng.batch

(* On its way a message is in one place, and was not heard before. *)
TravelOK(m, a) ==
  /\ InNet(m) = {a}
  /\ \/ a.at = "sent" /\ heard[m] = 0 /\ asked[m] = 0
     \/ a.at = "asked" /\ heard[m] = 0 /\ asked[m] # 0
     \/ a.at = "accepted" /\ heard[m] = 1
     \/ a.at = "rejected" /\ heard[m] = 0 /\ asked[m] = 0
     \/ a.at = "uncertain" /\ asked[m] = 0

PlaceOK(m) ==
  /\ heard[m] \in {0, 1}
  /\ input[m].state \in {"pending", "cancelled"} => Untouched(m) /\ InQueue(m) = {}
  /\ input[m].state = "delivered" => heard[m] = 1
  /\ asked[m] # 0 => heard[m] = 0
  /\ Loaded(m) => heard[m] = 0 /\ asked[m] = 0 /\ InNet(m) = {}
  /\ \A a \in InNet(m) : TravelOK(m, a)

Messages == \A m \in Message : ClaimOK(m) /\ PlaceOK(m)

Steered == TypeOK /\ RunOK /\ CommandsOK /\ EngineOK /\ JournalOK /\ QueueOK /\ Messages

-----------------------------------------------------------------------------
(* 3. What leaves the parts of the invariant as they are. *)

(* The attempt and the Run only go on: a new attempt was not sent yet, and what
   was sent or stopped stays so. *)
Onward ==
  /\ attempt.n <= attempt'.n /\ run.n <= run'.n
  /\ attempt'.n = attempt.n => run'.n = run.n /\ (attempt.sent => attempt'.sent)
  /\ run'.n = run.n /\ run.stopped => run'.stopped

(* What is left of the queue was in it, and a steer that waits to be sent waited. *)
Remains ==
  /\ queue' \in Seq(CommandType) /\ sent' \in BOOLEAN
  /\ sent' => sent /\ queue' # <<>> /\ Head(queue') = Head(queue)
  /\ \A i, j \in DOMAIN queue', m \in Message :
       IsSteer(queue'[i], m) /\ IsSteer(queue'[j], m) => i = j
  /\ \A i \in DOMAIN queue' :
       \E j \in DOMAIN queue :
         /\ queue[j] = queue'[i]
         /\ queue'[i].kind = "steer" /\ (i # 1 \/ ~sent') => j # 1 \/ ~sent

(* A sequence with an element at its end. *)
LEMMA Appended ==
  ASSUME NEW S, NEW s \in Seq(S), NEW e \in S
  PROVE  /\ Append(s, e) \in Seq(S) /\ Append(s, e) # <<>>
         /\ DOMAIN Append(s, e) = DOMAIN s \cup {Len(s) + 1} /\ Len(s) + 1 \notin DOMAIN s
         /\ \A i \in DOMAIN s : Append(s, e)[i] = s[i]
         /\ Append(s, e)[Len(s) + 1] = e
         /\ s # <<>> => Head(Append(s, e)) = Head(s)
<1>1. DOMAIN s = 1..Len(s) /\ Len(s) \in Nat
  BY LenProperties
<1>2. /\ Append(s, e) \in Seq(S) /\ Len(Append(s, e)) = Len(s) + 1
      /\ \A i \in 1..Len(s) : Append(s, e)[i] = s[i]
      /\ Append(s, e)[Len(s) + 1] = e
  BY AppendProperties
<1>3. DOMAIN Append(s, e) = 1..(Len(s) + 1)
  BY <1>2, LenProperties
<1>4. Append(s, e) # <<>>
  BY <1>1, <1>2, EmptySeq
<1>5. s # <<>> => Head(Append(s, e)) = Head(s)
  BY <1>1, <1>2, <1>4, HeadTailProperties, EmptySeq
<1> QED
  BY <1>1, <1>2, <1>3, <1>4, <1>5

(* A sequence without its first element. *)
LEMMA Shortened ==
  ASSUME NEW S, NEW s \in Seq(S), s # <<>>
  PROVE  /\ Head(s) \in S /\ 1 \in DOMAIN s /\ s[1] = Head(s)
         /\ Tail(s) \in Seq(S)
         /\ \A i \in DOMAIN Tail(s) :
              i \in Nat /\ i + 1 \in DOMAIN s /\ i + 1 # 1 /\ Tail(s)[i] = s[i + 1]
<1>1. DOMAIN s = 1..Len(s) /\ Len(s) \in Nat /\ Len(s) # 0
  BY LenProperties, EmptySeq
<1>2. /\ Tail(s) \in Seq(S) /\ Head(s) \in S /\ Head(s) = s[1]
      /\ Len(Tail(s)) = Len(s) - 1
      /\ \A i \in 1..Len(Tail(s)) : Tail(s)[i] = s[i + 1]
  BY HeadTailProperties
<1>3. DOMAIN Tail(s) = 1..(Len(s) - 1)
  BY <1>2, LenProperties
<1> QED
  BY <1>1, <1>2, <1>3

(* The commands of a queue are commands. *)
LEMMA Enqueued ==
  ASSUME NEW S, NEW s \in Seq(S)
  PROVE  /\ \A c \in ToSet(s) : c \in S
         /\ \A i \in DOMAIN s : s[i] \in S /\ s[i] \in ToSet(s)
BY ElementOfSeq, LenProperties DEF ToSet

(* Commands are dropped from the queue. *)
LEMMA DropIs ==
  ASSUME queue \in Seq(CommandType), sent \in BOOLEAN, sent => queue # <<>>, QueueOK,
         NEW gone, Drop(gone)
  PROVE  Remains /\ \A i \in DOMAIN queue' : queue'[i] \notin gone
<1>1. queue' = Omit(queue, gone) /\ sent' = (sent /\ Head(queue) \notin gone)
  BY DEF Drop
<1>2. /\ queue' \in Seq(CommandType)
      /\ \E f \in [DOMAIN queue' -> DOMAIN queue] :
           /\ \A i \in DOMAIN queue' : queue'[i] = queue[f[i]] /\ queue[f[i]] \notin gone
           /\ \A i, j \in DOMAIN queue' : f[i] = f[j] => i = j
           /\ queue # <<>> /\ Head(queue) \notin gone => 1 \in DOMAIN queue' /\ f[1] = 1
  BY <1>1, OmitLeaves
<1>3. PICK f \in [DOMAIN queue' -> DOMAIN queue] :
           /\ \A i \in DOMAIN queue' : queue'[i] = queue[f[i]] /\ queue[f[i]] \notin gone
           /\ \A i, j \in DOMAIN queue' : f[i] = f[j] => i = j
           /\ queue # <<>> /\ Head(queue) \notin gone => 1 \in DOMAIN queue' /\ f[1] = 1
  BY <1>2
<1>4. queue # <<>> => queue[1] = Head(queue)
  BY HeadTailProperties
<1>5. sent' => sent /\ queue' # <<>> /\ Head(queue') = Head(queue)
  <2>1. SUFFICES ASSUME sent' PROVE sent /\ queue' # <<>> /\ Head(queue') = Head(queue)
    OBVIOUS
  <2>2. sent /\ queue # <<>> /\ Head(queue) \notin gone
    BY <1>1, <2>1
  <2>3. 1 \in DOMAIN queue' /\ queue'[1] = Head(queue)
    BY <1>3, <1>4, <2>2
  <2>4. queue' # <<>>
    BY <1>2, <2>3, LenProperties, EmptySeq
  <2> QED
    BY <1>2, <2>2, <2>3, <2>4, HeadTailProperties
<1>6. ASSUME NEW i \in DOMAIN queue', NEW j \in DOMAIN queue', NEW m \in Message,
             IsSteer(queue'[i], m), IsSteer(queue'[j], m)
      PROVE  i = j
  <2>1. f[i] \in DOMAIN queue /\ f[j] \in DOMAIN queue
    BY <1>3
  <2>2. f[i] = f[j]
    BY <1>3, <1>6, <2>1 DEF QueueOK
  <2> QED
    BY <1>3, <2>2
<1>7. ASSUME NEW i \in DOMAIN queue', i # 1 \/ ~sent'
      PROVE  f[i] # 1 \/ ~sent
  <2>1. SUFFICES ASSUME f[i] = 1, sent PROVE FALSE
    OBVIOUS
  <2>2. Head(queue) \notin gone
    BY <1>3, <1>4, <2>1
  <2>3. sent' /\ 1 \in DOMAIN queue' /\ f[1] = 1
    BY <1>1, <1>3, <2>1, <2>2
  <2>4. i = 1
    BY <1>3, <2>1, <2>3
  <2> QED
    BY <1>7, <2>3, <2>4
<1>8. \A i \in DOMAIN queue' :
       \E j \in DOMAIN queue : queue[j] = queue'[i] /\ (i # 1 \/ ~sent' => j # 1 \/ ~sent)
  BY <1>3, <1>7
<1>9. sent' \in BOOLEAN
  BY <1>1
<1> QED
  BY <1>2, <1>3, <1>5, <1>6, <1>8, <1>9 DEF Remains

(* What a command is about stays true. *)
LEMMA CommandStays ==
  ASSUME TypeOK, TypeOK', Onward
  PROVE  \A c \in CommandType : CommandOK(c) => CommandOK(c)'
<1>1. SUFFICES ASSUME NEW c \in CommandType, CommandOK(c) PROVE CommandOK(c)'
  OBVIOUS
<1>2. /\ run.n \in Int /\ run'.n \in Int /\ attempt.n \in Int /\ attempt'.n \in Int
      /\ c.run \in Int /\ c.gen \in Int
  BY SteerBounds DEF TypeOK, CommandType
<1> QED
  BY <1>1, <1>2 DEF CommandOK, Onward

LEMMA CommandsStay ==
  ASSUME TypeOK, TypeOK', CommandsOK, Onward, Remains, net' \subseteq net
  PROVE  CommandsOK'
<1>1. queue' \in Seq(CommandType)
  BY DEF Remains
<1>2. (\A i \in DOMAIN queue : CommandOK(queue[i]))'
  <2>1. \A i \in DOMAIN queue' : \E c \in CommandType : queue'[i] = c /\ CommandOK(c)
    <3>1. \A i \in DOMAIN queue' : \E j \in DOMAIN queue : queue[j] = queue'[i]
      BY DEF Remains
    <3> QED
      BY <3>1, Enqueued DEF CommandsOK
  <2>2. \A i \in DOMAIN queue' : \E c \in CommandType : queue'[i] = c /\ CommandOK(c)'
    BY <2>1, CommandStays
  <2> QED
    BY <2>2
<1>3. (\A a \in net : CommandOK(a.cmd) /\ (a.at = "asked" => a.cmd.kind = "steer"))'
  <2>1. \A a \in net : a.cmd \in CommandType
    BY DEF TypeOK
  <2>2. \A a \in net : CommandOK(a.cmd)'
    BY <2>1, CommandStays DEF CommandsOK
  <2> QED
    BY <2>2 DEF CommandsOK
<1> QED
  BY <1>1, <1>2, <1>3 DEF CommandsOK

(* The steers that are left wait for the same messages. *)
LEMMA QueueStays ==
  ASSUME QueueOK, Remains, net' \subseteq net,
         \A i \in DOMAIN queue' : queue'[i].kind = "steer" => run'.n = run.n /\ run'.status # "ended",
         \A i \in DOMAIN queue', m \in Message :
           IsSteer(queue'[i], m) /\ (i # 1 \/ ~sent') => input'[m] = input[m]
  PROVE  QueueOK'
<1>1. /\ sent' \in BOOLEAN /\ (sent' => sent /\ queue' # <<>> /\ Head(queue') = Head(queue))
      /\ \A i, j \in DOMAIN queue', m \in Message :
            IsSteer(queue'[i], m) /\ IsSteer(queue'[j], m) => i = j
      /\ \A i \in DOMAIN queue' :
           \E j \in DOMAIN queue :
             /\ queue[j] = queue'[i]
             /\ queue'[i].kind = "steer" /\ (i # 1 \/ ~sent') => j # 1 \/ ~sent
  BY DEF Remains
<1>2. (\A i \in DOMAIN queue : queue[i].kind = "steer" => queue[i].run = run.n /\ run.status # "ended")'
  BY <1>1 DEF QueueOK
<1>3. (\A i, j \in DOMAIN queue, m \in Message :
         IsSteer(queue[i], m) /\ IsSteer(queue[j], m) => i = j)'
  BY <1>1 DEF IsSteer
<1>4. (\A i \in DOMAIN queue, m \in Message :
         IsSteer(queue[i], m) /\ (i # 1 \/ ~sent) => Claims(m, "steer") /\ input[m].cmd = "pending")'
  <2>1. SUFFICES ASSUME NEW i \in DOMAIN queue', NEW m \in Message,
                        IsSteer(queue'[i], m), i # 1 \/ ~sent'
                 PROVE  input'[m].state = "claimed" /\ input'[m].by = "steer" /\ input'[m].cmd = "pending"
    BY DEF Claims, IsSteer
  <2>2. PICK j \in DOMAIN queue : queue[j] = queue'[i] /\ (j # 1 \/ ~sent)
    BY <1>1, <2>1 DEF IsSteer
  <2>3. Claims(m, "steer") /\ input[m].cmd = "pending"
    BY <2>1, <2>2 DEF QueueOK
  <2>4. input'[m] = input[m]
    BY <2>1
  <2> QED
    BY <2>3, <2>4 DEF Claims
<1>5. (\A m \in Message :
         sent /\ IsSteer(Head(queue), m) => \A a \in InNet(m) : a.cmd = Head(queue))'
  BY <1>1 DEF QueueOK, IsSteer, InNet
<1> QED
  BY <1>2, <1>3, <1>4, <1>5 DEF QueueOK

LEMMA EngineStays ==
  ASSUME TypeOK, TypeOK', EngineOK, Onward, eng' = eng
  PROVE  EngineOK'
<1>1. /\ run.n \in Int /\ run'.n \in Int /\ attempt.n \in Int /\ attempt'.n \in Int
      /\ eng.att \in Int /\ eng.run \in Int
  BY SteerBounds DEF TypeOK
<1> QED
  BY <1>1 DEF EngineOK, Onward, Idle

(* What an event says stays true. *)
EventsOnward ==
  /\ \A m \in Message : heard[m] = 1 => heard'[m] = 1
  /\ eng'.phase = "loaded" => eng.phase = "loaded" /\ eng'.att = eng.att
  /\ ~attempt'.sent \/ \A m \in Message : Claims(m, "restart")' => Claims(m, "restart")

LEMMA EventStays ==
  ASSUME TypeOK, TypeOK', Onward, EventsOnward
  PROVE  \A e \in EventType : EventOK(e) => EventOK(e)'
<1>1. SUFFICES ASSUME NEW e \in EventType, EventOK(e) PROVE EventOK(e)'
  OBVIOUS
<1>2. /\ run.n \in Int /\ run'.n \in Int /\ attempt.n \in Int /\ attempt'.n \in Int
      /\ e.att \in Int
  BY SteerBounds DEF TypeOK, EventType
<1>3. e.att <= attempt'.n
  BY <1>1, <1>2 DEF EventOK, Onward
<1>4. e.att = attempt'.n => attempt.n = attempt'.n /\ e.att = attempt.n /\ attempt.sent /\ attempt'.sent
  BY <1>1, <1>2 DEF EventOK, Onward
<1>5. e.type = "injected" => e.msg \in Message /\ heard'[e.msg] = 1
  BY <1>1 DEF EventOK, EventsOnward
<1>6. e.type = "interrupted" /\ e.att = attempt'.n => run'.stopped
  BY <1>1, <1>4 DEF EventOK, Onward
<1>7. e.type = "started" =>
        /\ eng'.phase = "loaded" => eng'.att # e.att
        /\ e.att = attempt'.n => \A m \in Message : Claims(m, "restart")' => heard'[m] = 1
  BY <1>1, <1>4 DEF EventOK, EventsOnward
<1> QED
  BY <1>3, <1>4, <1>5, <1>6, <1>7 DEF EventOK

LEMMA EventsStay ==
  ASSUME TypeOK, TypeOK', JournalOK, Onward, EventsOnward,
         journal' = journal \/ journal' = <<>> \/ (journal # <<>> /\ journal' = Tail(journal))
  PROVE  JournalOK'
<1>1. journal \in Seq(EventType) /\ \A i \in DOMAIN journal : journal[i] \in EventType
  BY Enqueued DEF JournalOK
<1>2. \A i \in DOMAIN journal : \E e \in EventType : journal[i] = e /\ EventOK(e)'
  BY <1>1, EventStays DEF JournalOK
<1>3. journal' \in Seq(EventType) /\ \A i \in DOMAIN journal' : \E j \in DOMAIN journal : journal'[i] = journal[j]
  <2>1. CASE journal' = journal
    BY <1>1, <2>1
  <2>2. CASE journal' = <<>>
    <3>1. <<>> \in Seq(EventType) /\ DOMAIN <<>> = {}
      OBVIOUS
    <3> QED
      BY <2>2, <3>1
  <2>3. CASE journal # <<>> /\ journal' = Tail(journal)
    BY <1>1, <2>3, Shortened
  <2> QED
    BY <2>1, <2>2, <2>3
<1>4. \A i \in DOMAIN journal' : \E e \in EventType : journal'[i] = e /\ EventOK(e)'
  BY <1>2, <1>3
<1> QED
  BY <1>3, <1>4 DEF JournalOK

LEMMA EventsGrow ==
  ASSUME TypeOK, TypeOK', JournalOK, Onward, EventsOnward,
         NEW e \in EventType, EventOK(e)', journal' = Append(journal, e)
  PROVE  JournalOK'
<1>1. journal \in Seq(EventType) /\ \A i \in DOMAIN journal : journal[i] \in EventType
  BY Enqueued DEF JournalOK
<1>2. \A i \in DOMAIN journal : \E x \in EventType : journal[i] = x /\ EventOK(x)'
  BY <1>1, EventStays DEF JournalOK
<1>3. /\ journal' \in Seq(EventType)
      /\ \A i \in DOMAIN journal' : (\E j \in DOMAIN journal : journal'[i] = journal[j]) \/ journal'[i] = e
  BY <1>1, Appended
<1>4. \A i \in DOMAIN journal' : \E x \in EventType : journal'[i] = x /\ EventOK(x)'
  BY <1>2, <1>3
<1> QED
  BY <1>3, <1>4 DEF JournalOK

(* Nothing happened to the message outside the tables. *)
Calm(m) ==
  /\ heard'[m] = heard[m] /\ asked'[m] = asked[m]
  /\ InNet(m)' \subseteq InNet(m) /\ (Loaded(m)' => Loaded(m))

LEMMA UntouchedStays ==
  ASSUME NEW m \in Message, Calm(m), Untouched(m) PROVE Untouched(m)'
BY DEF Calm, Untouched

LEMMA PlaceStays ==
  ASSUME NEW m \in Message, PlaceOK(m), Calm(m),
         input'[m].state \in {"pending", "cancelled"} => Untouched(m) /\ InQueue(m)' = {},
         input'[m].state = "delivered" => heard[m] = 1
  PROVE  PlaceOK(m)'
<1>1. \A a \in InNet(m)' : TravelOK(m, a)'
  BY DEF PlaceOK, Calm, TravelOK
<1> QED
  BY <1>1, UntouchedStays DEF PlaceOK, Calm

LEMMA ClaimStays ==
  ASSUME NEW m \in Message, ClaimOK(m), Calm(m), input'[m] = input[m],
         run'.n = run.n, run.status # "ended" => run'.status # "ended", attempt' = attempt,
         InQueue(m) = {} => InQueue(m)' = {},
         eng'.phase = "loaded" =>
           eng.phase = "loaded" /\ eng'.att = eng.att /\ eng'.batch = eng.batch
  PROVE  ClaimOK(m)'
BY UntouchedStays DEF ClaimOK, Calm

LEMMA EmptyStays ==
  ASSUME Remains, NEW m \in Message, InQueue(m) = {} PROVE InQueue(m)' = {}
BY DEF Remains, InQueue

(* Outside the tables nothing is moved. *)
LEMMA CalmOutside ==
  ASSUME NEW m \in Message, net' \subseteq net, UNCHANGED <<eng, asked, heard>>
  PROVE  Calm(m)
BY DEF Calm, InNet, Loaded

-----------------------------------------------------------------------------
(* 4. The end of a Run, and what becomes of its messages. *)

InputRow == [state : {"pending", "claimed", "delivered", "unknown", "cancelled"},
             run : 0..MaxRun, by : {"none", "steer", "restart"},
             cmd : {"none", "pending", "dispatched", "unknown", "failed", "succeeded"}]

(* A message that is not delivered yet, nor on its way, goes back to the queue;
   of any other the delivery is uncertain. *)
LEMMA SettledIs ==
  ASSUME TypeOK, NEW m \in Message, ClaimOK(m), NEW lost \in BOOLEAN
  PROVE  /\ SettledAtEnd(input[m], lost) \in InputRow
         /\ SettledAtEnd(input[m], lost).state # "claimed"
         /\ SettledAtEnd(input[m], lost).state \in {"pending", "cancelled"} =>
              input[m].state \in {"pending", "cancelled"} \/ Untouched(m)
         /\ SettledAtEnd(input[m], lost).state = "delivered" => input[m].state = "delivered"
<1> DEFINE i == input[m]
           r == SettledAtEnd(i, lost)
<1>1. i \in InputRow
  BY DEF TypeOK, InputRow
<1>2. CASE ~Outstanding(i)
  <2>1. r = i
    BY <1>2 DEF SettledAtEnd
  <2>2. i.state # "claimed"
    BY <1>2 DEF Outstanding, ClaimOK
  <2> QED
    BY <1>1, <2>1, <2>2
<1>3. CASE Outstanding(i) /\ NotDispatched(i)
  <2>1. r = Waiting
    BY <1>3 DEF SettledAtEnd
  <2>2. i.state = "claimed" /\ Untouched(m)
    <3>1. i.state = "claimed"
      BY <1>3 DEF Outstanding, NotDispatched
    <3>2. \/ i.by = "steer" /\ i.cmd = "pending" /\ Untouched(m)
          \/ i.by = "steer" /\ i.cmd = "dispatched"
          \/ i.by = "restart" /\ attempt.reason = "steer_restart" /\ ~attempt.started
             /\ (~attempt.sent => Untouched(m))
      BY <3>1 DEF ClaimOK
    <3> QED
      BY <1>3, <3>1, <3>2 DEF NotDispatched, Replacement
  <2>3. Waiting \in InputRow /\ Waiting.state = "pending"
    BY SteerBounds DEF Waiting, InputRow
  <2> QED
    BY <2>1, <2>2, <2>3
<1>4. CASE Outstanding(i) /\ ~NotDispatched(i)
  <2> DEFINE cmd == IF i.cmd \in {"dispatched", "unknown"}
                    THEN IF lost THEN "failed" ELSE "unknown"
                    ELSE i.cmd
  <2>1. r = [i EXCEPT !.state = "unknown", !.cmd = cmd]
    BY <1>4 DEF SettledAtEnd
  <2>2. cmd \in {"none", "pending", "dispatched", "unknown", "failed", "succeeded"}
    BY <1>1 DEF InputRow
  <2> HIDE DEF cmd, r, i
  <2>3. r \in InputRow /\ r.state = "unknown"
    BY <1>1, <2>1, <2>2 DEF InputRow
  <2> QED
    BY <2>3 DEF r, i
<1> QED
  BY <1>2, <1>3, <1>4

(* When the control commands of a Run end, no message is claimed and no steer
   waits. *)
LEMMA CleanupIs ==
  ASSUME Steered, NEW lost \in BOOLEAN, Cleanup(lost)
  PROVE  /\ input' \in [Message -> InputRow]
         /\ \A m \in Message :
              /\ input'[m].state # "claimed"
              /\ input'[m].state \in {"pending", "cancelled"} => Untouched(m) /\ InQueue(m)' = {}
              /\ input'[m].state = "delivered" => heard[m] = 1
         /\ Remains
         /\ \A i \in DOMAIN queue' : queue'[i].kind # "steer"
<1>1. TypeOK /\ QueueOK /\ queue \in Seq(CommandType)
      /\ sent \in BOOLEAN /\ (sent => queue # <<>>)
      /\ \A m \in Message : ClaimOK(m) /\ PlaceOK(m)
  BY DEF Steered, CommandsOK, Messages, TypeOK
<1>2. Drop({c \in ToSet(queue) : c.run = run.n})
  BY DEF Cleanup
<1>3. Remains /\ \A i \in DOMAIN queue' : queue'[i] \notin {c \in ToSet(queue) : c.run = run.n}
  BY <1>1, <1>2, DropIs
<1>4. ASSUME NEW i \in DOMAIN queue' PROVE queue'[i].kind # "steer"
  <2>1. PICK j \in DOMAIN queue : queue[j] = queue'[i]
    BY <1>3 DEF Remains
  <2>2. queue[j] \in ToSet(queue)
    BY <1>1, Enqueued
  <2>3. queue[j].run # run.n
    BY <1>3, <2>1, <2>2
  <2> QED
    BY <1>1, <2>1, <2>3 DEF QueueOK
<1>5. input' = [m \in Message |-> SettledAtEnd(input[m], lost)]
  BY DEF Cleanup
<1>6. input' \in [Message -> InputRow]
  BY <1>1, <1>5, SettledIs
<1>7. ASSUME NEW m \in Message
      PROVE  /\ input'[m].state # "claimed"
             /\ input'[m].state \in {"pending", "cancelled"} => Untouched(m) /\ InQueue(m)' = {}
             /\ input'[m].state = "delivered" => heard[m] = 1
  <2>1. input'[m] = SettledAtEnd(input[m], lost)
    BY <1>5
  <2>2. InQueue(m)' = {}
    BY <1>4 DEF InQueue, IsSteer
  <2>3. input[m].state \in {"pending", "cancelled"} => Untouched(m)
    BY <1>1 DEF PlaceOK
  <2>4. input[m].state = "delivered" => heard[m] = 1
    BY <1>1 DEF PlaceOK
  <2> QED
    BY <1>1, <2>1, <2>2, <2>3, <2>4, SettledIs
<1> QED
  BY <1>3, <1>4, <1>6, <1>7

RunRow == [n : 1..MaxRun, status : {"queued", "starting", "running", "ended"},
           bound : 0..MaxAttempt, grant : BOOLEAN, stopped : BOOLEAN,
           outcome : {"none", "completed", "interrupted", "failed"}]

AttemptRow == [n : 1..MaxAttempt, reason : {"initial", "steer_restart", "recovery"},
               sent : BOOLEAN, started : BOOLEAN]

(* The types, when the Host's tables change and little else does. *)
LEMMA TablesTyped ==
  ASSUME TypeOK, input' \in [Message -> InputRow], run' \in RunRow, attempt' \in AttemptRow,
         queue' \in Seq(CommandType), sent' \in BOOLEAN, sent' => queue' # <<>>,
         native' \in BOOLEAN, link' \in BOOLEAN, net' \subseteq net,
         UNCHANGED <<eng, asked, heard>>, faults' \in 0..MaxFault
  PROVE  TypeOK'
<1>1. \A c \in ToSet(queue') : c \in CommandType
  BY Enqueued
<1> QED
  BY <1>1 DEF TypeOK, InputRow, RunRow, AttemptRow

(* A step that ends the commands of the Run and leaves the Runner alone. *)
LEMMA RunSettles ==
  ASSUME Steered, NEW lost \in BOOLEAN, Cleanup(lost),
         run' \in RunRow, attempt' \in AttemptRow, RunOK', Onward,
         native' \in BOOLEAN, link' \in BOOLEAN, UNCHANGED <<net, eng, asked, heard, faults>>,
         journal' = journal \/ (journal # <<>> /\ journal' = Tail(journal))
  PROVE  Steered'
<1>1. /\ TypeOK /\ CommandsOK /\ EngineOK /\ JournalOK /\ QueueOK
      /\ \A m \in Message : PlaceOK(m)
  BY DEF Steered, Messages
<1>2. /\ input' \in [Message -> InputRow]
      /\ \A m \in Message :
           /\ input'[m].state # "claimed"
           /\ input'[m].state \in {"pending", "cancelled"} => Untouched(m) /\ InQueue(m)' = {}
           /\ input'[m].state = "delivered" => heard[m] = 1
      /\ Remains
      /\ \A i \in DOMAIN queue' : queue'[i].kind # "steer"
  BY CleanupIs
<1>3. TypeOK'
  <2>1. faults' \in 0..MaxFault
    BY <1>1 DEF TypeOK
  <2> QED
    BY <1>1, <1>2, <2>1, TablesTyped DEF Remains
<1>4. CommandsOK'
  BY <1>1, <1>2, <1>3, CommandsStay
<1>5. EngineOK'
  BY <1>1, <1>3, EngineStays
<1>6. JournalOK'
  <2>1. EventsOnward
    BY <1>2 DEF EventsOnward, Claims
  <2> QED
    BY <1>1, <1>3, <2>1, EventsStay
<1>7. QueueOK'
  BY <1>1, <1>2, QueueStays DEF IsSteer
<1>8. ASSUME NEW m \in Message PROVE ClaimOK(m)' /\ PlaceOK(m)'
  <2>1. Calm(m)
    BY CalmOutside
  <2> QED
    BY <1>1, <1>2, <2>1, PlaceStays DEF ClaimOK
<1> QED
  BY <1>3, <1>4, <1>5, <1>6, <1>7, <1>8 DEF Steered, Messages

(* The Run ends. *)
LEMMA FinalizeKeeps ==
  ASSUME Steered, NEW outcome \in {"completed", "interrupted", "failed"}, Finalize(outcome),
         outcome = "interrupted" => run.stopped,
         native' \in BOOLEAN, link' \in BOOLEAN, UNCHANGED <<net, eng, asked, heard, faults>>,
         journal' = journal \/ (journal # <<>> /\ journal' = Tail(journal))
  PROVE  Steered'
<1>1. run \in RunRow /\ attempt \in AttemptRow /\ RunOK
  BY DEF Steered, TypeOK, RunRow, AttemptRow
<1>2. /\ run' = [run EXCEPT !.status = "ended", !.grant = FALSE, !.outcome = outcome]
      /\ attempt' = attempt /\ Cleanup(FALSE)
  BY DEF Finalize
<1>3. /\ run' \in RunRow /\ run'.n = run.n /\ run'.bound = run.bound /\ run'.status = "ended"
      /\ run'.stopped = run.stopped /\ run'.outcome = outcome
  BY <1>1, <1>2 DEF RunRow
<1>4. Onward
  BY <1>1, <1>2, <1>3 DEF Onward, RunRow, AttemptRow
<1>5. RunOK'
  BY <1>1, <1>2, <1>3 DEF RunOK
<1> QED
  BY <1>1, <1>2, <1>3, <1>4, <1>5, RunSettles

(* The execution of the Run is lost. *)
LEMMA RecoverLostKeeps ==
  ASSUME Steered, RecoverLost,
         native' \in BOOLEAN, link' \in BOOLEAN, UNCHANGED <<net, eng, asked, heard, faults>>,
         journal' = journal \/ (journal # <<>> /\ journal' = Tail(journal))
  PROVE  Steered'
<1>1. run \in RunRow /\ attempt \in AttemptRow /\ RunOK
  BY DEF Steered, TypeOK, RunRow, AttemptRow
<1>2. CASE run.stopped \/ attempt.n = MaxAttempt
  <2>1. Finalize(IF run.stopped THEN "interrupted" ELSE "failed")
    BY <1>2 DEF RecoverLost
  <2> QED
    BY <2>1, FinalizeKeeps
<1>3. CASE ~(run.stopped \/ attempt.n = MaxAttempt)
  <2>1. /\ run' = [run EXCEPT !.status = "queued", !.bound = 0, !.grant = FALSE]
        /\ attempt' = [n |-> attempt.n + 1, reason |-> "recovery", sent |-> FALSE, started |-> FALSE]
        /\ Cleanup(TRUE)
    BY <1>3 DEF RecoverLost
  <2>2. /\ run' \in RunRow /\ run'.n = run.n /\ run'.bound = 0 /\ run'.status = "queued"
        /\ run'.stopped = run.stopped /\ run'.outcome = run.outcome
    <3>1. 0 \in 0..MaxAttempt
      BY SteerBounds
    <3> QED
      BY <1>1, <2>1, <3>1 DEF RunRow
  <2>3. attempt' \in AttemptRow /\ attempt'.n = attempt.n + 1 /\ ~attempt'.sent /\ ~attempt'.started
        /\ attempt.n \in Nat
    BY <1>1, <1>3, <2>1, SteerBounds DEF AttemptRow
  <2>4. Onward
    BY <1>1, <2>2, <2>3 DEF Onward, RunRow
  <2>5. RunOK'
    BY <1>1, <2>2, <2>3 DEF RunOK
  <2> QED
    BY <2>1, <2>2, <2>3, <2>4, <2>5, RunSettles
<1> QED
  BY <1>2, <1>3

-----------------------------------------------------------------------------
(* 5. The steps of the person and of the Host. *)

(* A step of the tables that moves no message and keeps the queue. *)
LEMMA TablesKeep ==
  ASSUME Steered, TypeOK', RunOK', Onward, EventsOnward, UNCHANGED <<eng, asked, heard, net, journal>>,
         CommandsOK', QueueOK', \A m \in Message : ClaimOK(m)' /\ PlaceOK(m)'
  PROVE  Steered'
<1>1. EngineOK'
  BY EngineStays DEF Steered
<1>2. JournalOK'
  BY EventsStay DEF Steered
<1> QED
  BY <1>1, <1>2 DEF Steered, Messages

(* The queue stays. *)
LEMMA SameQueue ==
  ASSUME queue \in Seq(CommandType), sent \in BOOLEAN, sent => queue # <<>>, QueueOK,
         UNCHANGED <<queue, sent>>
  PROVE  Remains
BY DEF Remains, QueueOK

LEMMA QueueTyped ==
  ASSUME Steered
  PROVE  queue \in Seq(CommandType) /\ sent \in BOOLEAN /\ (sent => queue # <<>>)
BY DEF Steered, TypeOK, CommandsOK

LEMMA WithdrawKeeps ==
  ASSUME Steered, NEW m \in Message, Withdraw(m)
  PROVE  Steered'
<1>1. /\ TypeOK /\ RunOK /\ CommandsOK /\ EngineOK /\ JournalOK /\ QueueOK
      /\ \A x \in Message : ClaimOK(x) /\ PlaceOK(x)
  BY DEF Steered, Messages
<1>2. /\ input[m].state = "pending" /\ input' = [input EXCEPT ![m].state = "cancelled"]
      /\ UNCHANGED <<run, attempt, queue, sent, native, link, net, eng, asked, journal, heard, faults>>
  BY DEF Withdraw, runnerVars
<1>3. /\ input' \in [Message -> InputRow] /\ input'[m].state = "cancelled"
      /\ \A x \in Message \ {m} : input'[x] = input[x]
  <2>1. input \in [Message -> InputRow]
    BY <1>1 DEF TypeOK, InputRow
  <2> QED
    BY <1>2, <2>1 DEF InputRow
<1>4. TypeOK'
  <2>1. /\ run' \in RunRow /\ attempt' \in AttemptRow /\ queue' \in Seq(CommandType)
        /\ sent' \in BOOLEAN /\ (sent' => queue' # <<>>) /\ native' \in BOOLEAN /\ link' \in BOOLEAN
        /\ faults' \in 0..MaxFault
    BY <1>1, <1>2, QueueTyped DEF TypeOK, RunRow, AttemptRow
  <2> QED
    BY <1>1, <1>2, <1>3, <2>1, TablesTyped
<1>5. Onward /\ RunOK'
  BY <1>1, <1>2, SteerBounds DEF Onward, RunOK, TypeOK
<1>6. Remains
  BY <1>1, <1>2, QueueTyped, SameQueue
<1>7. CommandsOK'
  BY <1>1, <1>2, <1>4, <1>5, <1>6, CommandsStay
<1>8. QueueOK'
  <2>1. ASSUME NEW i \in DOMAIN queue', NEW x \in Message, IsSteer(queue'[i], x), i # 1 \/ ~sent'
        PROVE  input'[x] = input[x]
    <3>1. Claims(x, "steer")
      BY <1>1, <1>2, <2>1 DEF QueueOK
    <3> QED
      BY <1>2, <1>3, <3>1 DEF Claims
  <2>2. \A i \in DOMAIN queue' : queue'[i].kind = "steer" => run'.n = run.n /\ run'.status # "ended"
    BY <1>1, <1>2 DEF QueueOK
  <2> QED
    BY <1>1, <1>2, <1>6, <2>1, <2>2, QueueStays
<1>9. EventsOnward
  BY <1>2, <1>3 DEF EventsOnward, Claims
<1>10. ASSUME NEW x \in Message PROVE ClaimOK(x)' /\ PlaceOK(x)'
  <2>1. Calm(x)
    BY <1>2, CalmOutside
  <2>2. InQueue(x)' = InQueue(x)
    BY <1>2 DEF InQueue
  <2>3. input'[x].state \in {"pending", "cancelled"} => input[x].state \in {"pending", "cancelled"}
    BY <1>2, <1>3
  <2>4. input'[x].state = "delivered" => input[x].state = "delivered"
    BY <1>2, <1>3
  <2>5. PlaceOK(x)'
    BY <1>1, <2>1, <2>2, <2>3, <2>4, PlaceStays DEF PlaceOK
  <2>6. ClaimOK(x)'
    <3>1. CASE x = m
      BY <1>3, <3>1 DEF ClaimOK
    <3>2. CASE x # m
      BY <1>1, <1>2, <1>3, <2>1, <2>2, <3>2, ClaimStays
    <3> QED
      BY <3>1, <3>2
  <2> QED
    BY <2>5, <2>6
<1> QED
  BY <1>1, <1>2, <1>4, <1>5, <1>7, <1>8, <1>9, <1>10, TablesKeep

(* A command is added to the queue. *)
LEMMA Added ==
  ASSUME queue \in Seq(CommandType), sent => queue # <<>>, sent \in BOOLEAN,
         NEW c \in CommandType, queue' = Append(queue, c), sent' = sent
  PROVE  /\ queue' \in Seq(CommandType) /\ (sent' => queue' # <<>> /\ Head(queue') = Head(queue))
         /\ DOMAIN queue \subseteq DOMAIN queue' /\ \A i \in DOMAIN queue : queue'[i] = queue[i]
         /\ \E k \in DOMAIN queue' : /\ k \notin DOMAIN queue /\ queue'[k] = c
                                     /\ DOMAIN queue' = DOMAIN queue \cup {k}
                                     /\ sent => k # 1
<1>1. /\ Append(queue, c) \in Seq(CommandType) /\ Append(queue, c) # <<>>
      /\ DOMAIN Append(queue, c) = DOMAIN queue \cup {Len(queue) + 1} /\ Len(queue) + 1 \notin DOMAIN queue
      /\ \A i \in DOMAIN queue : Append(queue, c)[i] = queue[i]
      /\ Append(queue, c)[Len(queue) + 1] = c
      /\ queue # <<>> => Head(Append(queue, c)) = Head(queue)
  BY Appended
<1>2. sent => 1 \in DOMAIN queue
  BY Shortened
<1> QED
  BY <1>1, <1>2

(* A restart or a stop is added to the queue. *)
LEMMA CommandsGrow ==
  ASSUME TypeOK, TypeOK', CommandsOK, Onward, net' = net,
         NEW c \in CommandType, CommandOK(c)', queue' = Append(queue, c), sent' = sent
  PROVE  CommandsOK'
<1>1. queue \in Seq(CommandType) /\ sent \in BOOLEAN /\ (sent => queue # <<>>)
      /\ \A i \in DOMAIN queue : queue[i] \in CommandType
  BY Enqueued DEF CommandsOK, TypeOK
<1>2. /\ queue' \in Seq(CommandType)
      /\ \A i \in DOMAIN queue' : queue'[i] = c \/ \E j \in DOMAIN queue : queue'[i] = queue[j]
  BY <1>1, Added
<1>3. \A i \in DOMAIN queue : \E x \in CommandType : queue[i] = x /\ CommandOK(x)'
  BY <1>1, CommandStays DEF CommandsOK
<1>4. \A i \in DOMAIN queue' : \E x \in CommandType : queue'[i] = x /\ CommandOK(x)'
  BY <1>2, <1>3
<1>5. (\A a \in net : CommandOK(a.cmd) /\ (a.at = "asked" => a.cmd.kind = "steer"))'
  <2>1. \A a \in net : a.cmd \in CommandType
    BY DEF TypeOK
  <2>2. \A a \in net : CommandOK(a.cmd)'
    BY <2>1, CommandStays DEF CommandsOK
  <2> QED
    BY <2>2 DEF CommandsOK
<1> QED
  BY <1>2, <1>4, <1>5 DEF CommandsOK

LEMMA QueueGrows ==
  ASSUME QueueOK, queue \in Seq(CommandType), sent \in BOOLEAN, sent => queue # <<>>,
         NEW c \in CommandType, c.kind # "steer", queue' = Append(queue, c), sent' = sent,
         net' = net, run'.n = run.n, run'.status = run.status,
         \A m \in Message : InQueue(m) # {} => input'[m] = input[m]
  PROVE  QueueOK' /\ \A m \in Message : InQueue(m) = {} => InQueue(m)' = {}
<1>1. PICK k \in DOMAIN queue' : k \notin DOMAIN queue /\ queue'[k] = c /\ DOMAIN queue' = DOMAIN queue \cup {k}
  BY Added
<1>2. /\ \A i \in DOMAIN queue : queue'[i] = queue[i]
      /\ sent' => queue' # <<>> /\ Head(queue') = Head(queue)
  BY Added
<1>3. ASSUME NEW i \in DOMAIN queue', queue'[i].kind = "steer" PROVE i \in DOMAIN queue /\ queue'[i] = queue[i]
  BY <1>1, <1>2, <1>3
<1>4. (\A i \in DOMAIN queue : queue[i].kind = "steer" => queue[i].run = run.n /\ run.status # "ended")'
  BY <1>3 DEF QueueOK
<1>5. (\A i, j \in DOMAIN queue, m \in Message :
         IsSteer(queue[i], m) /\ IsSteer(queue[j], m) => i = j)'
  BY <1>3 DEF QueueOK, IsSteer
<1>6. (\A i \in DOMAIN queue, m \in Message :
         IsSteer(queue[i], m) /\ (i # 1 \/ ~sent) => Claims(m, "steer") /\ input[m].cmd = "pending")'
  <2>1. SUFFICES ASSUME NEW i \in DOMAIN queue', NEW m \in Message,
                        IsSteer(queue'[i], m), i # 1 \/ ~sent'
                 PROVE  input'[m].state = "claimed" /\ input'[m].by = "steer" /\ input'[m].cmd = "pending"
    BY DEF Claims, IsSteer
  <2>2. i \in DOMAIN queue /\ IsSteer(queue[i], m)
    BY <1>3, <2>1 DEF IsSteer
  <2>3. Claims(m, "steer") /\ input[m].cmd = "pending" /\ i \in InQueue(m)
    BY <2>1, <2>2 DEF QueueOK, InQueue
  <2> QED
    BY <2>3 DEF Claims
<1>7. (\A m \in Message :
         sent /\ IsSteer(Head(queue), m) => \A a \in InNet(m) : a.cmd = Head(queue))'
  BY <1>2 DEF QueueOK, IsSteer, InNet
<1>8. \A m \in Message : InQueue(m) = {} => InQueue(m)' = {}
  BY <1>3 DEF InQueue, IsSteer
<1> QED
  BY <1>4, <1>5, <1>6, <1>7, <1>8 DEF QueueOK

LEMMA StopKeeps ==
  ASSUME Steered, Stop
  PROVE  Steered'
<1>1. /\ TypeOK /\ RunOK /\ CommandsOK /\ EngineOK /\ JournalOK /\ QueueOK
      /\ run \in RunRow /\ attempt \in AttemptRow
      /\ \A x \in Message : ClaimOK(x) /\ PlaceOK(x)
  BY DEF Steered, Messages, TypeOK, RunRow, AttemptRow
<1>2. /\ run.status # "ended" /\ ~run.stopped
      /\ UNCHANGED <<attempt, native, link, net, eng, asked, journal, heard, faults>>
  BY DEF Stop, runnerVars
<1>3. CASE run.status = "queued"
  <2>1. Cleanup(FALSE) /\ run' = [run EXCEPT !.status = "ended", !.stopped = TRUE, !.outcome = "interrupted"]
    BY <1>3 DEF Stop
  <2>2. /\ run' \in RunRow /\ run'.n = run.n /\ run'.bound = run.bound /\ run'.status = "ended" /\ run'.stopped
    BY <1>1, <2>1 DEF RunRow
  <2>3. Onward /\ RunOK'
    BY <1>1, <1>2, <2>2 DEF Onward, RunOK, RunRow, AttemptRow
  <2>4. native' \in BOOLEAN /\ link' \in BOOLEAN /\ attempt' \in AttemptRow
    BY <1>1, <1>2 DEF TypeOK
  <2> QED
    BY <1>2, <2>1, <2>2, <2>3, <2>4, RunSettles
<1>4. CASE run.status # "queued"
  <2>0. PICK c \in CommandType : c = Command("stop", NoMessage)
    BY <1>1 DEF Command, CommandType, RunRow
  <2>1. /\ run' = [run EXCEPT !.stopped = TRUE, !.grant = FALSE]
        /\ queue' = Append(queue, c) /\ UNCHANGED <<input, sent>>
    BY <1>4, <2>0 DEF Stop
  <2>2. /\ run' \in RunRow /\ run'.n = run.n /\ run'.bound = run.bound /\ run'.status = run.status
        /\ run'.stopped /\ run'.outcome = run.outcome
    BY <1>1, <2>1 DEF RunRow
  <2>3. Onward /\ RunOK'
    BY <1>1, <1>2, <2>2 DEF Onward, RunOK, RunRow, AttemptRow
  <2>4. c \in CommandType /\ c.kind = "stop" /\ c.run = run.n
    BY <2>0 DEF Command
  <2>5. queue' \in Seq(CommandType) /\ (sent' => queue' # <<>>)
    BY <1>1, <2>1, <2>4, Added, QueueTyped
  <2>6. TypeOK'
    <3>1. /\ input' \in [Message -> InputRow] /\ attempt' \in AttemptRow
          /\ sent' \in BOOLEAN /\ native' \in BOOLEAN /\ link' \in BOOLEAN
          /\ faults' \in 0..MaxFault
      BY <1>1, <1>2, <2>1 DEF TypeOK, InputRow
    <3> QED
      BY <1>1, <1>2, <2>2, <2>5, <3>1, TablesTyped
  <2>7. CommandOK(c)'
    BY <1>1, <2>2, <2>4 DEF CommandOK, RunRow
  <2>8. CommandsOK'
    BY <1>1, <1>2, <2>1, <2>3, <2>4, <2>6, <2>7, CommandsGrow
  <2>9. QueueOK' /\ \A m \in Message : InQueue(m) = {} => InQueue(m)' = {}
    BY <1>1, <1>2, <2>1, <2>2, <2>4, QueueTyped, QueueGrows
  <2>10. EventsOnward
    BY <1>2, <2>1 DEF EventsOnward, Claims
  <2>11. ASSUME NEW x \in Message PROVE ClaimOK(x)' /\ PlaceOK(x)'
    <3>1. Calm(x)
      BY <1>2, CalmOutside
    <3>2. ClaimOK(x)'
      BY <1>1, <1>2, <2>1, <2>2, <2>9, <3>1, ClaimStays
    <3>3. PlaceOK(x)'
      BY <1>1, <2>1, <2>9, <3>1, PlaceStays DEF PlaceOK
    <3> QED
      BY <3>2, <3>3
  <2> QED
    BY <1>2, <2>3, <2>6, <2>8, <2>9, <2>10, <2>11, TablesKeep
<1> QED
  BY <1>3, <1>4

LEMMA NextRunKeeps ==
  ASSUME Steered, NextRun
  PROVE  Steered'
<1>1. /\ TypeOK /\ RunOK /\ CommandsOK /\ EngineOK /\ JournalOK /\ QueueOK
      /\ run \in RunRow /\ attempt \in AttemptRow
      /\ \A x \in Message : ClaimOK(x) /\ PlaceOK(x)
  BY DEF Steered, Messages, TypeOK, RunRow, AttemptRow
<1>2. /\ run.status = "ended" /\ run.n < MaxRun /\ attempt.n < MaxAttempt
      /\ run' = Queued(run.n + 1) /\ attempt' = First(attempt.n + 1)
      /\ UNCHANGED <<input, queue, sent, native, link, net, eng, asked, journal, heard, faults>>
  BY DEF NextRun, runnerVars
<1>3. /\ run' \in RunRow /\ run'.n = run.n + 1 /\ run'.bound = 0 /\ run'.status = "queued"
      /\ run'.outcome = "none" /\ run.n \in Nat
  <2>1. run.n + 1 \in 1..MaxRun /\ 0 \in 0..MaxAttempt /\ run.n \in Nat
    BY <1>1, <1>2, SteerBounds DEF RunRow
  <2> QED
    BY <1>2, <2>1 DEF RunRow, Queued
<1>4. attempt' \in AttemptRow /\ attempt'.n = attempt.n + 1 /\ ~attempt'.sent /\ ~attempt'.started
      /\ attempt.n \in Nat
  <2>1. attempt.n + 1 \in 1..MaxAttempt /\ attempt.n \in Nat
    BY <1>1, <1>2, SteerBounds DEF AttemptRow
  <2> QED
    BY <1>2, <2>1 DEF AttemptRow, First
<1>5. Onward /\ RunOK'
  BY <1>3, <1>4 DEF Onward, RunOK
<1>6. Remains
  BY <1>1, <1>2, QueueTyped, SameQueue
<1>7. TypeOK'
  <2>1. /\ input' \in [Message -> InputRow] /\ native' \in BOOLEAN /\ link' \in BOOLEAN
        /\ faults' \in 0..MaxFault
    BY <1>1, <1>2 DEF TypeOK, InputRow
  <2> QED
    BY <1>1, <1>2, <1>3, <1>4, <1>6, <2>1, TablesTyped DEF Remains
<1>8. CommandsOK'
  BY <1>1, <1>2, <1>5, <1>6, <1>7, CommandsStay
<1>9. QueueOK'
  <2>1. \A i \in DOMAIN queue' : queue'[i].kind # "steer"
    BY <1>1, <1>2 DEF QueueOK
  <2> QED
    BY <1>1, <1>2, <1>6, <2>1, QueueStays DEF IsSteer
<1>10. EventsOnward
  BY <1>2 DEF EventsOnward, Claims
<1>11. ASSUME NEW x \in Message PROVE ClaimOK(x)' /\ PlaceOK(x)'
  <2>1. Calm(x) /\ InQueue(x)' = InQueue(x)
    BY <1>2, CalmOutside DEF InQueue
  <2>2. ClaimOK(x)'
    BY <1>1, <1>2 DEF ClaimOK
  <2>3. PlaceOK(x)'
    BY <1>1, <1>2, <2>1, PlaceStays DEF PlaceOK
  <2> QED
    BY <2>2, <2>3
<1> QED
  BY <1>2, <1>5, <1>7, <1>8, <1>9, <1>10, <1>11, TablesKeep

(* A message is claimed for a Run whose engine can be told it. *)
LEMMA SteerNativeKeeps ==
  ASSUME Steered, NEW m \in Message, input[m].state = "pending", run.status = "running",
         input' = [input EXCEPT ![m] = [state |-> "claimed", run |-> run.n, by |-> "steer", cmd |-> "pending"]],
         queue' = Append(queue, Command("steer", m)),
         UNCHANGED <<run, attempt, sent, native, link, net, eng, asked, journal, heard, faults>>
  PROVE  Steered'
<1>1. /\ TypeOK /\ RunOK /\ CommandsOK /\ EngineOK /\ JournalOK /\ QueueOK
      /\ run \in RunRow /\ attempt \in AttemptRow
      /\ queue \in Seq(CommandType) /\ sent \in BOOLEAN /\ (sent => queue # <<>>)
      /\ \A x \in Message : ClaimOK(x) /\ PlaceOK(x)
  BY DEF Steered, Messages, TypeOK, RunRow, AttemptRow, CommandsOK
<1>2. PICK c \in CommandType : c = Command("steer", m)
  BY <1>1 DEF Command, CommandType, RunRow
<1>3. c.kind = "steer" /\ c.run = run.n /\ c.msg = m
  BY <1>2 DEF Command
<1>4. queue' = Append(queue, c)
  BY <1>2
<1>5. /\ input' \in [Message -> InputRow]
      /\ input'[m] = [state |-> "claimed", run |-> run.n, by |-> "steer", cmd |-> "pending"]
      /\ \A x \in Message \ {m} : input'[x] = input[x]
  <2>1. input \in [Message -> InputRow]
    BY <1>1 DEF TypeOK, InputRow
  <2>2. [state |-> "claimed", run |-> run.n, by |-> "steer", cmd |-> "pending"] \in InputRow
    <3>1. run.n \in 0..MaxRun
      BY <1>1, SteerBounds DEF RunRow
    <3> QED
      BY <3>1 DEF InputRow
  <2> QED
    BY <2>1, <2>2
<1>6. Untouched(m) /\ InQueue(m) = {}
  BY <1>1 DEF PlaceOK
<1>7. PICK k \in DOMAIN queue' : /\ k \notin DOMAIN queue /\ queue'[k] = c
                                 /\ DOMAIN queue' = DOMAIN queue \cup {k} /\ (sent => k # 1)
  BY <1>1, <1>4, Added
<1>8. /\ queue' \in Seq(CommandType) /\ (sent' => queue' # <<>> /\ Head(queue') = Head(queue))
      /\ \A i \in DOMAIN queue : queue'[i] = queue[i]
  BY <1>1, <1>4, Added
<1>9. Onward /\ RunOK'
  BY <1>1 DEF Onward, RunOK, RunRow, AttemptRow
<1>10. TypeOK'
  <2>1. /\ sent' \in BOOLEAN /\ native' \in BOOLEAN /\ link' \in BOOLEAN /\ faults' \in 0..MaxFault
    BY <1>1 DEF TypeOK
  <2> QED
    BY <1>1, <1>5, <1>8, <2>1, TablesTyped
<1>11. CommandsOK'
  <2>1. CommandOK(c)'
    BY <1>1, <1>3 DEF CommandOK, RunRow
  <2> QED
    BY <1>1, <1>4, <1>9, <1>10, <2>1, CommandsGrow
<1>12. QueueOK'
  <2>1. ASSUME NEW i \in DOMAIN queue', NEW x \in Message, IsSteer(queue'[i], x)
        PROVE  IF x = m THEN i = k ELSE i \in DOMAIN queue /\ IsSteer(queue[i], x)
    BY <1>3, <1>6, <1>7, <1>8, <2>1 DEF IsSteer, InQueue
  <2>2. (\A i \in DOMAIN queue : queue[i].kind = "steer" => queue[i].run = run.n /\ run.status # "ended")'
    BY <1>1, <1>3, <1>7, <1>8 DEF QueueOK
  <2>3. (\A i, j \in DOMAIN queue, x \in Message :
           IsSteer(queue[i], x) /\ IsSteer(queue[j], x) => i = j)'
    <3>1. SUFFICES ASSUME NEW i \in DOMAIN queue', NEW j \in DOMAIN queue', NEW x \in Message,
                          IsSteer(queue'[i], x), IsSteer(queue'[j], x)
                   PROVE  i = j
      BY DEF IsSteer
    <3> QED
      BY <1>1, <2>1, <3>1 DEF QueueOK
  <2>4. (\A i \in DOMAIN queue, x \in Message :
           IsSteer(queue[i], x) /\ (i # 1 \/ ~sent) => Claims(x, "steer") /\ input[x].cmd = "pending")'
    <3>1. SUFFICES ASSUME NEW i \in DOMAIN queue', NEW x \in Message,
                          IsSteer(queue'[i], x), i # 1 \/ ~sent'
                   PROVE  input'[x].state = "claimed" /\ input'[x].by = "steer" /\ input'[x].cmd = "pending"
      BY DEF Claims, IsSteer
    <3>2. CASE x = m
      BY <1>5, <3>2
    <3>3. CASE x # m
      BY <1>1, <1>5, <2>1, <3>1, <3>3 DEF QueueOK, Claims
    <3> QED
      BY <3>2, <3>3
  <2>5. (\A x \in Message :
           sent /\ IsSteer(Head(queue), x) => \A a \in InNet(x) : a.cmd = Head(queue))'
    BY <1>1, <1>8 DEF QueueOK, IsSteer, InNet
  <2> QED
    BY <2>2, <2>3, <2>4, <2>5 DEF QueueOK
<1>13. EventsOnward
  BY <1>5 DEF EventsOnward, Claims
<1>14. ASSUME NEW x \in Message PROVE ClaimOK(x)' /\ PlaceOK(x)'
  <2>1. Calm(x)
    BY CalmOutside
  <2>2. CASE x = m
    <3>1. Untouched(x)'
      BY <1>6, <2>1, <2>2, UntouchedStays
    <3>2. ClaimOK(x)'
      BY <1>5, <2>2, <3>1 DEF ClaimOK
    <3>3. PlaceOK(x)'
      BY <1>1, <1>5, <2>1, <2>2, PlaceStays
    <3> QED
      BY <3>2, <3>3
  <2>3. CASE x # m
    <3>1. InQueue(x) = {} => InQueue(x)' = {}
      BY <1>3, <1>7, <1>8, <2>3 DEF InQueue, IsSteer
    <3>2. ClaimOK(x)'
      BY <1>1, <1>5, <2>1, <2>3, <3>1, ClaimStays
    <3>3. PlaceOK(x)'
      BY <1>1, <1>5, <2>1, <2>3, <3>1, PlaceStays DEF PlaceOK
    <3> QED
      BY <3>2, <3>3
  <2> QED
    BY <2>2, <2>3
<1> QED
  BY <1>9, <1>10, <1>11, <1>12, <1>13, <1>14, TablesKeep

(* A message is claimed for the attempt that replaces the one at work. *)
LEMMA SteerRestartKeeps ==
  ASSUME Steered, NEW m \in Message, input[m].state = "pending",
         Route = "restart", attempt.n < MaxAttempt \/ Replacement, Supersede,
         input' = [input EXCEPT ![m] = [state |-> "claimed", run |-> run.n, by |-> "restart", cmd |-> "none"]],
         queue' = Append(queue, Command("restart", m)),
         UNCHANGED <<sent, native, link, net, eng, asked, journal, heard, faults>>
  PROVE  Steered'
<1>1. /\ TypeOK /\ RunOK /\ CommandsOK /\ EngineOK /\ JournalOK /\ QueueOK
      /\ run \in RunRow /\ attempt \in AttemptRow
      /\ queue \in Seq(CommandType) /\ sent \in BOOLEAN /\ (sent => queue # <<>>)
      /\ \A x \in Message : ClaimOK(x) /\ PlaceOK(x)
  BY DEF Steered, Messages, TypeOK, RunRow, AttemptRow, CommandsOK
<1>2. PICK c \in CommandType : c = Command("restart", m)
  BY <1>1 DEF Command, CommandType, RunRow
<1>3. c.kind = "restart" /\ c.run = run.n /\ c.msg = m /\ c.gen = run.bound
  BY <1>2 DEF Command
<1>4. queue' = Append(queue, c)
  BY <1>2
<1>5. /\ input' \in [Message -> InputRow]
      /\ input'[m] = [state |-> "claimed", run |-> run.n, by |-> "restart", cmd |-> "none"]
      /\ \A x \in Message \ {m} : input'[x] = input[x]
  <2>1. input \in [Message -> InputRow]
    BY <1>1 DEF TypeOK, InputRow
  <2>2. [state |-> "claimed", run |-> run.n, by |-> "restart", cmd |-> "none"] \in InputRow
    <3>1. run.n \in 0..MaxRun
      BY <1>1, SteerBounds DEF RunRow
    <3> QED
      BY <3>1 DEF InputRow
  <2> QED
    BY <2>1, <2>2
<1>6. Untouched(m) /\ InQueue(m) = {}
  BY <1>1 DEF PlaceOK
<1>7. run.status = "running" /\ (Replacement => attempt.reason # "recovery" /\ ~attempt.sent)
  <2>1. run.status = "running" /\ (Replacement => attempt.reason # "recovery")
    BY DEF Route
  <2> QED
    BY <1>1, <2>1 DEF RunOK, Replacement
<1>8. /\ run' \in RunRow /\ run'.n = run.n /\ run'.bound = run.bound /\ run'.status = run.status
      /\ run'.stopped = run.stopped /\ run'.outcome = run.outcome
  BY <1>1 DEF Supersede, RunRow
<1>9. /\ attempt' \in AttemptRow /\ attempt'.reason = "steer_restart" /\ ~attempt'.sent /\ ~attempt'.started
      /\ attempt.n <= attempt'.n /\ (attempt'.n = attempt.n => ~attempt.sent)
  <2>1. CASE attempt.reason = "steer_restart" /\ ~attempt.sent
    <3>1. attempt' = attempt /\ ~attempt.started
      BY <1>1, <2>1 DEF Supersede, RunOK
    <3> QED
      BY <1>1, <2>1, <3>1 DEF AttemptRow
  <2>2. CASE ~(attempt.reason = "steer_restart" /\ ~attempt.sent)
    <3>1. attempt' = [n |-> attempt.n + 1, reason |-> "steer_restart", sent |-> FALSE, started |-> FALSE]
      BY <2>2 DEF Supersede
    <3>2. ~Replacement
      BY <1>1, <1>7, <2>2 DEF AttemptRow, Replacement
    <3>3. attempt.n + 1 \in 1..MaxAttempt /\ attempt.n \in Nat
      BY <1>1, <3>2, SteerBounds DEF AttemptRow
    <3> QED
      BY <3>1, <3>3 DEF AttemptRow
  <2> QED
    BY <2>1, <2>2
<1>10. run.bound < attempt'.n
  <2>1. run.bound \in Int /\ attempt.n \in Int /\ attempt'.n \in Int
    BY <1>1, <1>9, SteerBounds DEF RunRow, AttemptRow
  <2> QED
    BY <1>1, <1>9, <2>1 DEF RunOK
<1>11. Onward
  BY <1>1, <1>8, <1>9 DEF Onward, RunRow
<1>12. RunOK'
  <2>1. run'.bound \in Int /\ attempt'.n \in Int
    BY <1>8, <1>9, SteerBounds DEF RunRow, AttemptRow
  <2> QED
    BY <1>1, <1>8, <1>9, <1>10, <2>1 DEF RunOK
<1>13. queue' \in Seq(CommandType) /\ (sent' => queue' # <<>>)
  BY <1>1, <1>4, Added
<1>14. TypeOK'
  <2>1. /\ sent' \in BOOLEAN /\ native' \in BOOLEAN /\ link' \in BOOLEAN /\ faults' \in 0..MaxFault
    BY <1>1 DEF TypeOK
  <2> QED
    BY <1>1, <1>5, <1>8, <1>9, <1>13, <2>1, TablesTyped
<1>15. CommandsOK'
  <2>1. CommandOK(c)'
    BY <1>1, <1>3, <1>8, <1>10 DEF CommandOK, RunRow
  <2> QED
    BY <1>1, <1>4, <1>11, <1>14, <2>1, CommandsGrow
<1>16. QueueOK' /\ \A x \in Message : InQueue(x) = {} => InQueue(x)' = {}
  <2>1. \A x \in Message : InQueue(x) # {} => input'[x] = input[x]
    BY <1>5, <1>6
  <2> QED
    BY <1>1, <1>3, <1>4, <1>8, <2>1, QueueGrows
<1>17. EventsOnward
  BY <1>9 DEF EventsOnward
<1>18. ASSUME NEW x \in Message PROVE ClaimOK(x)' /\ PlaceOK(x)'
  <2>1. Calm(x) /\ (InQueue(x) = {} => InQueue(x)' = {})
    BY <1>16, CalmOutside
  <2>2. eng.phase = "loaded" => eng.att # attempt'.n
    <3>1. SUFFICES ASSUME eng.phase = "loaded", eng.att = attempt'.n PROVE FALSE
      OBVIOUS
    <3>2. eng.att <= attempt.n /\ (eng.att = attempt.n => attempt.sent)
      BY <1>1, <3>1 DEF EngineOK, AttemptRow
    <3>3. attempt.n \in Int /\ attempt'.n \in Int
      BY <1>1, <1>9, SteerBounds DEF AttemptRow
    <3> QED
      BY <1>9, <3>1, <3>2, <3>3
  <2>3. CASE x = m
    <3>1. Untouched(x)' /\ InQueue(x)' = {}
      BY <1>6, <2>1, <2>3, UntouchedStays
    <3>2. ClaimOK(x)'
      BY <1>5, <1>7, <1>8, <1>9, <2>2, <2>3, <3>1 DEF ClaimOK, Untouched
    <3>3. PlaceOK(x)'
      BY <1>1, <1>5, <2>1, <2>3, PlaceStays
    <3> QED
      BY <3>2, <3>3
  <2>4. CASE x # m
    <3>1. input'[x] = input[x]
      BY <1>5, <2>4
    <3>2. Untouched(x) => Untouched(x)'
      BY <2>1, UntouchedStays
    <3>3. ClaimOK(x)'
      <4>1. SUFFICES ASSUME input[x].state = "claimed" PROVE ClaimOK(x)'
        BY <3>1 DEF ClaimOK
      <4>2. input[x].by = "restart" => ~attempt.sent
        BY <1>1, <1>7, <4>1 DEF ClaimOK, RunOK
      <4>3. input[x].run = run.n
        BY <1>1, <4>1 DEF ClaimOK
      <4>4. \/ input[x].by = "steer" /\ input[x].cmd = "pending" /\ Untouched(x)
            \/ input[x].by = "steer" /\ input[x].cmd = "dispatched"
            \/ /\ input[x].by = "restart" /\ input[x].cmd = "none"
               /\ InQueue(x) = {} /\ Untouched(x)
        BY <1>1, <4>1, <4>2 DEF ClaimOK
      <4>5. Untouched(x)' => InNet(x)' = {} /\ asked'[x] = 0
        BY DEF Untouched
      <4> QED
        BY <1>7, <1>8, <1>9, <2>1, <2>2, <3>1, <3>2, <4>3, <4>4, <4>5 DEF ClaimOK
    <3>4. PlaceOK(x)'
      BY <1>1, <2>1, <3>1, PlaceStays DEF PlaceOK
    <3> QED
      BY <3>3, <3>4
  <2> QED
    BY <2>3, <2>4
<1> QED
  BY <1>11, <1>12, <1>14, <1>15, <1>16, <1>17, <1>18, TablesKeep

LEMMA SteerKeeps ==
  ASSUME Steered, NEW m \in Message, Steer(m)
  PROVE  Steered'
<1>1. CASE Route = "native"
  <2>1. run.status = "running"
    BY <1>1 DEF Route
  <2> QED
    BY <1>1, <2>1, SteerNativeKeeps DEF Steer, runnerVars
<1>2. CASE Route = "restart"
  BY <1>2, SteerRestartKeeps DEF Steer, runnerVars
<1> QED
  BY <1>1, <1>2 DEF Steer

(* The first command leaves the queue. *)
LEMMA TailRemains ==
  ASSUME queue \in Seq(CommandType), queue # <<>>, QueueOK, queue' = Tail(queue), sent' = FALSE
  PROVE  Remains /\ \A m \in Message : IsSteer(Head(queue), m) => InQueue(m)' = {}
<1>1. /\ 1 \in DOMAIN queue /\ queue[1] = Head(queue) /\ queue' \in Seq(CommandType)
      /\ \A i \in DOMAIN queue' :
           i \in Nat /\ i + 1 \in DOMAIN queue /\ i + 1 # 1 /\ queue'[i] = queue[i + 1]
  BY Shortened
<1>2. ASSUME NEW i \in DOMAIN queue', NEW j \in DOMAIN queue', NEW m \in Message,
             IsSteer(queue'[i], m), IsSteer(queue'[j], m)
      PROVE  i = j
  <2>1. i + 1 = j + 1
    BY <1>1, <1>2 DEF QueueOK
  <2> QED
    BY <1>1, <2>1
<1>3. ASSUME NEW m \in Message, IsSteer(Head(queue), m) PROVE InQueue(m)' = {}
  <2>1. ASSUME NEW i \in DOMAIN queue', IsSteer(queue'[i], m) PROVE FALSE
    BY <1>1, <1>3, <2>1 DEF QueueOK
  <2> QED
    BY <2>1 DEF InQueue, IsSteer
<1>4. \A i \in DOMAIN queue' :
       \E j \in DOMAIN queue : queue[j] = queue'[i] /\ (i # 1 \/ ~sent' => j # 1 \/ ~sent)
  BY <1>1
<1> QED
  BY <1>1, <1>2, <1>3, <1>4 DEF Remains

(* A step of the tables that settles some messages: the queue and the connection
   only lose commands, and the Run does not end. *)
LEMMA RowsKeep ==
  ASSUME Steered, input' \in [Message -> InputRow], run' \in RunRow, attempt' \in AttemptRow,
         RunOK', Onward, run'.n = run.n, run.status # "ended" => run'.status # "ended",
         native' \in BOOLEAN, link' \in BOOLEAN, faults' \in 0..MaxFault,
         Remains, net' \subseteq net, UNCHANGED <<eng, asked, heard>>,
         journal' = journal \/ journal' = <<>> \/ (journal # <<>> /\ journal' = Tail(journal)),
         \A x \in Message : ClaimOK(x)' \/ (input'[x] = input[x] /\ attempt' = attempt),
         \A x \in Message :
           \/ input'[x] = input[x]
           \/ /\ PlaceOK(x)'
              /\ Claims(x, "restart")' => Claims(x, "restart")
              /\ \A i \in DOMAIN queue' : ~(IsSteer(queue'[i], x) /\ (i # 1 \/ ~sent'))
  PROVE  Steered'
<1>1. /\ TypeOK /\ CommandsOK /\ EngineOK /\ JournalOK /\ QueueOK
      /\ \A x \in Message : ClaimOK(x) /\ PlaceOK(x)
  BY DEF Steered, Messages
<1>3. TypeOK'
  BY <1>1, TablesTyped DEF Remains
<1>4. CommandsOK'
  BY <1>1, <1>3, CommandsStay
<1>5. EngineOK'
  BY <1>1, <1>3, EngineStays
<1>6. JournalOK'
  <2>1. \A x \in Message : Claims(x, "restart")' => Claims(x, "restart")
    BY DEF Claims
  <2>2. EventsOnward
    BY <2>1 DEF EventsOnward
  <2> QED
    BY <1>1, <1>3, <2>2, EventsStay
<1>7. QueueOK'
  <2>1. ASSUME NEW i \in DOMAIN queue', NEW x \in Message, IsSteer(queue'[i], x), i # 1 \/ ~sent'
        PROVE  input'[x] = input[x]
    BY <2>1
  <2>2. \A i \in DOMAIN queue' : queue'[i].kind = "steer" => run'.n = run.n /\ run'.status # "ended"
    BY <1>1 DEF Remains, QueueOK
  <2> QED
    BY <1>1, <2>1, <2>2, QueueStays
<1>8. ASSUME NEW x \in Message PROVE ClaimOK(x)' /\ PlaceOK(x)'
  <2>1. Calm(x)
    BY CalmOutside
  <2>2. InQueue(x) = {} => InQueue(x)' = {}
    BY EmptyStays
  <2>3. ClaimOK(x)'
    BY <1>1, <2>1, <2>2, ClaimStays
  <2>4. PlaceOK(x)'
    BY <1>1, <2>1, <2>2, PlaceStays DEF PlaceOK
  <2> QED
    BY <2>3, <2>4
<1> QED
  BY <1>3, <1>4, <1>5, <1>6, <1>7, <1>8 DEF Steered, Messages

(* The Run and its attempt stay. *)
LEMMA SameRun ==
  ASSUME Steered, UNCHANGED <<run, attempt>>
  PROVE  run' \in RunRow /\ attempt' \in AttemptRow /\ RunOK' /\ Onward
<1>1. run \in RunRow /\ attempt \in AttemptRow /\ RunOK
  BY DEF Steered, TypeOK, RunRow, AttemptRow
<1> QED
  BY <1>1 DEF Onward, RunOK, RunRow, AttemptRow

(* A steer that can no longer be taken is refused before it is sent. *)
LEMMA RefusedKeeps ==
  ASSUME Steered, queue # <<>>, ~sent, Head(queue).kind = "steer",
         input' = [input EXCEPT ![Head(queue).msg] = SteerSettled(Head(queue).msg, "failed")],
         queue' = Tail(queue),
         UNCHANGED <<sent, net, run, attempt, native, link, eng, asked, journal, heard, faults>>
  PROVE  Steered'
<1>1. /\ TypeOK /\ QueueOK /\ queue \in Seq(CommandType)
      /\ \A i \in DOMAIN queue : CommandOK(queue[i])
      /\ \A x \in Message : ClaimOK(x) /\ PlaceOK(x)
  BY DEF Steered, Messages, CommandsOK
<1>2. 1 \in DOMAIN queue /\ queue[1] = Head(queue)
  BY <1>1, Shortened
<1>3. PICK m \in Message : m = Head(queue).msg
  BY <1>1, <1>2 DEF CommandOK
<1>4. IsSteer(Head(queue), m)
  BY <1>3 DEF IsSteer
<1>5. input[m].state = "claimed" /\ Untouched(m)
  <2>1. Claims(m, "steer") /\ input[m].cmd = "pending"
    BY <1>1, <1>2, <1>4 DEF QueueOK
  <2> QED
    BY <1>1, <2>1 DEF Claims, ClaimOK
<1>6. /\ input' \in [Message -> InputRow] /\ input'[m] = Waiting
      /\ \A x \in Message \ {m} : input'[x] = input[x]
  <2>1. input \in [Message -> InputRow] /\ Waiting \in InputRow
    BY <1>1, SteerBounds DEF TypeOK, InputRow, Waiting
  <2>2. SteerSettled(m, "failed") = Waiting
    BY <1>5 DEF SteerSettled
  <2> QED
    BY <1>3, <2>1, <2>2
<1>7. Remains /\ InQueue(m)' = {}
  <2>1. sent' = FALSE
    BY <1>1 DEF TypeOK
  <2> QED
    BY <1>1, <1>4, <2>1, TailRemains
<1>8. Waiting.state = "pending"
  BY DEF Waiting
<1>9. ClaimOK(m)'
  BY <1>6, <1>8 DEF ClaimOK
<1>10. PlaceOK(m)'
  BY <1>1, <1>5, <1>6, <1>7, <1>8, CalmOutside, PlaceStays
<1>11. native' \in BOOLEAN /\ link' \in BOOLEAN /\ faults' \in 0..MaxFault
  BY <1>1 DEF TypeOK
<1>12. \A i \in DOMAIN queue' : ~IsSteer(queue'[i], m)
  BY <1>7 DEF InQueue, IsSteer
<1>13. Claims(m, "restart")' => Claims(m, "restart")
  BY <1>6, <1>8 DEF Claims
<1>14. run' \in RunRow /\ attempt' \in AttemptRow /\ RunOK' /\ Onward
  BY SameRun
<1> QED
  BY <1>6, <1>7, <1>9, <1>10, <1>11, <1>12, <1>13, <1>14, RowsKeep

(* The first command is sent. *)
LEMMA SendKeeps ==
  ASSUME Steered, queue # <<>>, ~sent, sent' = TRUE,
         net' = net \cup {[cmd |-> Head(queue), at |-> "sent"]},
         input' = IF Head(queue).kind = "steer"
                  THEN [input EXCEPT ![Head(queue).msg].cmd = "dispatched"] ELSE input,
         UNCHANGED <<queue, run, attempt, native, link, eng, asked, journal, heard, faults>>
  PROVE  Steered'
<1>1. /\ TypeOK /\ RunOK /\ QueueOK /\ queue \in Seq(CommandType) /\ JournalOK /\ EngineOK
      /\ CommandsOK /\ run \in RunRow /\ attempt \in AttemptRow
      /\ \A i \in DOMAIN queue : CommandOK(queue[i])
      /\ \A x \in Message : ClaimOK(x) /\ PlaceOK(x)
  BY DEF Steered, Messages, CommandsOK, TypeOK, RunRow, AttemptRow
<1>2. /\ 1 \in DOMAIN queue /\ queue[1] = Head(queue) /\ Head(queue) \in CommandType
  BY <1>1, Shortened
<1>3. PICK a \in {[cmd |-> Head(queue), at |-> "sent"]} : TRUE
  OBVIOUS
<1>4. /\ a.cmd = Head(queue) /\ a.at = "sent" /\ net' = net \cup {a}
      /\ a \in [cmd : CommandType, at : {"sent", "asked", "accepted", "rejected", "uncertain"}]
  BY <1>2, <1>3
<1>5. ASSUME NEW m \in Message, IsSteer(Head(queue), m)
      PROVE  input[m].state = "claimed" /\ input[m].by = "steer" /\ Untouched(m)
  <2>1. Claims(m, "steer") /\ input[m].cmd = "pending"
    BY <1>1, <1>2, <1>5 DEF QueueOK
  <2> QED
    BY <1>1, <2>1 DEF Claims, ClaimOK
<1>6. ASSUME NEW x \in Message, ~IsSteer(Head(queue), x)
      PROVE  input'[x] = input[x] /\ InNet(x)' = InNet(x) /\ Calm(x)
  <2>1. input'[x] = input[x]
    BY <1>1, <1>6 DEF IsSteer, TypeOK
  <2>2. InNet(x)' = InNet(x)
    BY <1>4, <1>6 DEF InNet
  <2> QED
    BY <2>1, <2>2 DEF Calm, Loaded
<1>7. ASSUME NEW m \in Message, IsSteer(Head(queue), m)
      PROVE  /\ InNet(m)' = {a}
             /\ input'[m].state = "claimed" /\ input'[m].by = "steer"
             /\ input'[m].cmd = "dispatched" /\ input'[m].run = input[m].run
  <2>1. InNet(m)' = {a}
    <3>1. InNet(m) = {}
      BY <1>5, <1>7 DEF Untouched
    <3> QED
      BY <1>4, <1>7, <3>1 DEF InNet
  <2>2. input' = [input EXCEPT ![m].cmd = "dispatched"] /\ input \in [Message -> InputRow]
    BY <1>1, <1>7 DEF IsSteer, TypeOK, InputRow
  <2>3. input'[m] = [input[m] EXCEPT !.cmd = "dispatched"] /\ input[m] \in InputRow
    BY <2>2
  <2> QED
    BY <1>5, <1>7, <2>1, <2>3 DEF InputRow
<1>8. Onward /\ RunOK'
  BY <1>1 DEF Onward, RunOK, RunRow, AttemptRow
<1>9. TypeOK'
  <2>1. input' \in [Message -> InputRow]
    <3>1. input \in [Message -> InputRow]
      BY <1>1 DEF TypeOK, InputRow
    <3>2. CASE Head(queue).kind # "steer"
      BY <3>1, <3>2
    <3>3. CASE Head(queue).kind = "steer"
      <4>1. Head(queue).msg \in Message
        BY <1>1, <1>2, <3>3 DEF CommandOK
      <4>2. input' = [input EXCEPT ![Head(queue).msg] = [input[Head(queue).msg] EXCEPT !.cmd = "dispatched"]]
        BY <3>3
      <4>3. [input[Head(queue).msg] EXCEPT !.cmd = "dispatched"] \in InputRow
        BY <3>1, <4>1 DEF InputRow
      <4> QED
        BY <3>1, <4>1, <4>2, <4>3
    <3> QED
      BY <3>2, <3>3
  <2>2. \A c \in ToSet(queue') : c \in CommandType
    BY <1>1 DEF TypeOK
  <2> QED
    BY <1>1, <1>4, <2>1, <2>2 DEF TypeOK, InputRow
<1>10. CommandsOK'
  <2>1. (\A i \in DOMAIN queue : CommandOK(queue[i]))'
    BY <1>1 DEF CommandOK
  <2>2. (\A y \in net : CommandOK(y.cmd) /\ (y.at = "asked" => y.cmd.kind = "steer"))'
    BY <1>1, <1>2, <1>4 DEF CommandsOK, CommandOK
  <2> QED
    BY <1>1, <2>1, <2>2 DEF CommandsOK
<1>11. EngineOK'
  BY <1>1, <1>8, <1>9, EngineStays
<1>12. JournalOK'
  <2>1. \A x \in Message : Claims(x, "restart")' => Claims(x, "restart")
    BY <1>6, <1>7 DEF Claims
  <2>2. EventsOnward
    BY <2>1 DEF EventsOnward
  <2> QED
    BY <1>1, <1>8, <1>9, <2>2, EventsStay
<1>13. QueueOK'
  <2>1. (\A i \in DOMAIN queue : queue[i].kind = "steer" => queue[i].run = run.n /\ run.status # "ended")'
    BY <1>1 DEF QueueOK
  <2>2. (\A i, j \in DOMAIN queue, x \in Message :
           IsSteer(queue[i], x) /\ IsSteer(queue[j], x) => i = j)'
    BY <1>1 DEF QueueOK, IsSteer
  <2>3. (\A i \in DOMAIN queue, x \in Message :
           IsSteer(queue[i], x) /\ (i # 1 \/ ~sent) => Claims(x, "steer") /\ input[x].cmd = "pending")'
    <3>1. SUFFICES ASSUME NEW i \in DOMAIN queue, NEW x \in Message, IsSteer(queue[i], x), i # 1
                   PROVE  input'[x].state = "claimed" /\ input'[x].by = "steer" /\ input'[x].cmd = "pending"
      BY DEF Claims, IsSteer
    <3>2. ~IsSteer(Head(queue), x)
      BY <1>1, <1>2, <3>1 DEF QueueOK
    <3>3. Claims(x, "steer") /\ input[x].cmd = "pending"
      BY <1>1, <3>1 DEF QueueOK
    <3> QED
      BY <1>6, <3>2, <3>3 DEF Claims
  <2>4. (\A x \in Message :
           sent /\ IsSteer(Head(queue), x) => \A y \in InNet(x) : y.cmd = Head(queue))'
    BY <1>4, <1>7 DEF IsSteer
  <2> QED
    BY <2>1, <2>2, <2>3, <2>4 DEF QueueOK
<1>14. ASSUME NEW x \in Message PROVE ClaimOK(x)' /\ PlaceOK(x)'
  <2>1. InQueue(x)' = InQueue(x)
    BY DEF InQueue
  <2>2. CASE IsSteer(Head(queue), x)
    <3>1. heard'[x] = 0 /\ asked'[x] = 0 /\ ~Loaded(x)'
      BY <1>5, <2>2 DEF Untouched, Loaded
    <3>2. ClaimOK(x)'
      BY <1>1, <1>5, <1>7, <2>2 DEF ClaimOK
    <3>3. TravelOK(x, a)'
      BY <1>4, <1>7, <2>2, <3>1 DEF TravelOK
    <3>4. \A y \in InNet(x)' : y = a
      BY <1>7, <2>2
    <3>5. input'[x].state = "claimed"
      BY <1>7, <2>2
    <3>6. PlaceOK(x)'
      BY <3>1, <3>3, <3>4, <3>5 DEF PlaceOK
    <3> QED
      BY <3>2, <3>6
  <2>3. CASE ~IsSteer(Head(queue), x)
    <3>1. ClaimOK(x)'
      BY <1>1, <1>6, <2>1, <2>3, ClaimStays
    <3>2. PlaceOK(x)'
      BY <1>1, <1>6, <2>1, <2>3, PlaceStays DEF PlaceOK
    <3> QED
      BY <3>1, <3>2
  <2> QED
    BY <2>2, <2>3
<1> QED
  BY <1>8, <1>9, <1>10, <1>11, <1>12, <1>13, <1>14 DEF Steered, Messages

LEMMA DispatchKeeps ==
  ASSUME Steered, Dispatch
  PROVE  Steered'
<1>1. CASE Head(queue).kind = "steer" /\ ~(Takes(Head(queue)) /\ link)
  BY <1>1, RefusedKeeps DEF Dispatch, runnerVars
<1>2. CASE ~(Head(queue).kind = "steer" /\ ~(Takes(Head(queue)) /\ link))
  BY <1>2, SendKeeps DEF Dispatch, runnerVars
<1> QED
  BY <1>1, <1>2

(* What an answer makes of its message, and of one whose connection is gone. *)
LEMMA AnsweredIs ==
  ASSUME input \in [Message -> InputRow], NEW m \in Message, NEW at \in {"accepted", "rejected", "uncertain"},
         ClaimOK(m), ~Untouched(m), InNet(m) # {}
  PROVE  /\ Answered(m, at) \in InputRow
         /\ Answered(m, at) # input[m] => Answered(m, at).state # "claimed"
         /\ Answered(m, at).state \in {"pending", "cancelled"} =>
              \/ input[m].state = Answered(m, at).state
              \/ at = "rejected" /\ input[m].state = "claimed" /\ input[m].cmd = "dispatched"
         /\ Answered(m, at).state = "delivered" => input[m].state = "delivered" \/ at = "accepted"
<1> DEFINE i == input[m]
           r == Answered(m, at)
<1>1. i \in InputRow
  OBVIOUS
<1>2. i.state = "claimed" => i.by = "steer" /\ i.cmd = "dispatched"
  BY DEF ClaimOK
<1>3. CASE at = "accepted" /\ i.cmd \in {"dispatched", "unknown"}
  <2> DEFINE state == IF i.state \in {"claimed", "unknown"} THEN "delivered" ELSE i.state
  <2>1. r = [i EXCEPT !.cmd = "succeeded", !.state = state]
    BY <1>3 DEF Answered
  <2>2. state \in {"pending", "delivered", "cancelled"} /\ (state = "pending" => i.state = "pending")
        /\ (state = "cancelled" => i.state = "cancelled")
    BY <1>1 DEF InputRow
  <2> HIDE DEF state, r, i
  <2>3. r \in InputRow /\ r.state = state
    BY <1>1, <2>1, <2>2 DEF InputRow
  <2> QED
    BY <1>3, <2>2, <2>3 DEF r, i
<1>4. CASE at # "accepted" /\ i.cmd = "dispatched"
  <2> DEFINE out == IF at = "rejected" THEN "failed" ELSE "unknown"
  <2>1. r = SteerSettled(m, out)
    BY <1>4 DEF Answered
  <2>2. CASE i.state = "claimed" /\ out = "failed"
    <3>1. r = Waiting
      BY <2>1, <2>2 DEF SteerSettled
    <3>2. Waiting \in InputRow /\ Waiting.state = "pending"
      BY SteerBounds DEF Waiting, InputRow
    <3> QED
      BY <1>4, <2>2, <3>1, <3>2
  <2>3. CASE i.state = "claimed" /\ out # "failed"
    <3>1. r = [i EXCEPT !.state = "unknown", !.cmd = "unknown"]
      BY <2>1, <2>3 DEF SteerSettled
    <3> HIDE DEF r, i
    <3>2. r \in InputRow /\ r.state = "unknown"
      BY <1>1, <3>1 DEF InputRow
    <3> QED
      BY <3>2 DEF r, i
  <2>4. CASE i.state # "claimed"
    <3>1. r = [i EXCEPT !.cmd = out]
      BY <2>1, <2>4 DEF SteerSettled
    <3>2. out \in {"failed", "unknown"}
      OBVIOUS
    <3> HIDE DEF r, i, out
    <3>3. r \in InputRow /\ r.state = i.state
      BY <1>1, <3>1, <3>2 DEF InputRow
    <3> QED
      BY <2>4, <3>3 DEF r, i
  <2> QED
    BY <2>2, <2>3, <2>4
<1>5. CASE ~(at = "accepted" /\ i.cmd \in {"dispatched", "unknown"})
           /\ ~(at # "accepted" /\ i.cmd = "dispatched")
  <2>1. r = i
    BY <1>5 DEF Answered
  <2> QED
    BY <1>1, <2>1
<1> QED
  BY <1>3, <1>4, <1>5

(* A message that is on its way has no steer that waits to be sent. *)
LEMMA OnItsWay ==
  ASSUME Steered, NEW m \in Message, ~Untouched(m), Remains
  PROVE  \A i \in DOMAIN queue' : ~(IsSteer(queue'[i], m) /\ (i # 1 \/ ~sent'))
<1>1. QueueOK /\ ClaimOK(m)
  BY DEF Steered, Messages
<1>2. ASSUME NEW i \in DOMAIN queue', IsSteer(queue'[i], m), i # 1 \/ ~sent' PROVE FALSE
  <2>1. PICK j \in DOMAIN queue : queue[j] = queue'[i] /\ (j # 1 \/ ~sent)
    BY <1>2 DEF Remains, IsSteer
  <2>2. Claims(m, "steer") /\ input[m].cmd = "pending"
    BY <1>1, <1>2, <2>1 DEF QueueOK
  <2> QED
    BY <1>1, <2>2 DEF ClaimOK, Claims
<1> QED
  BY <1>2

LEMMA HearAnswerKeeps ==
  ASSUME Steered, HearAnswer
  PROVE  Steered'
<1>1. /\ TypeOK /\ QueueOK /\ queue \in Seq(CommandType) /\ sent \in BOOLEAN /\ (sent => queue # <<>>)
      /\ input \in [Message -> InputRow] /\ \A y \in net : CommandOK(y.cmd)
      /\ \A x \in Message : ClaimOK(x) /\ PlaceOK(x)
  BY DEF Steered, Messages, CommandsOK, TypeOK, InputRow
<1>2. PICK a \in net :
        /\ a.at \notin {"sent", "asked"} /\ link
        /\ net' = net \ {a}
        /\ Drop({a.cmd})
        /\ input' = IF a.cmd.kind = "steer" /\ input[a.cmd.msg].run = a.cmd.run
                    THEN [input EXCEPT ![a.cmd.msg] = Answered(a.cmd.msg, a.at)] ELSE input
        /\ UNCHANGED <<run, attempt, native, link, eng, asked, journal, heard, faults>>
  BY DEF HearAnswer, runnerVars
<1>3. Remains /\ \A i \in DOMAIN queue' : queue'[i] \notin {a.cmd}
  BY <1>1, <1>2, DropIs
<1>4. run' \in RunRow /\ attempt' \in AttemptRow /\ RunOK' /\ Onward
  BY <1>2, SameRun
<1>5. native' \in BOOLEAN /\ link' \in BOOLEAN /\ faults' \in 0..MaxFault
  BY <1>1, <1>2 DEF TypeOK
<1>6. CASE ~(a.cmd.kind = "steer" /\ input[a.cmd.msg].run = a.cmd.run)
  <2>1. input' = input
    BY <1>2, <1>6
  <2>2. net' \subseteq net
    BY <1>2
  <2> QED
    BY <1>1, <1>2, <1>3, <1>4, <1>5, <2>1, <2>2, RowsKeep
<1>7. CASE a.cmd.kind = "steer" /\ input[a.cmd.msg].run = a.cmd.run
  <2>1. PICK m \in Message : m = a.cmd.msg
    BY <1>1, <1>7 DEF CommandOK
  <2>2. a \in InNet(m) /\ a.at \in {"accepted", "rejected", "uncertain"}
    BY <1>1, <1>2, <1>7, <2>1 DEF InNet, IsSteer, TypeOK
  <2>3. ~Untouched(m) /\ TravelOK(m, a)
    BY <1>1, <2>2 DEF Untouched, PlaceOK
  <2>4. input' = [input EXCEPT ![m] = Answered(m, a.at)]
    BY <1>2, <1>7, <2>1
  <2>5. /\ Answered(m, a.at) \in InputRow
        /\ Answered(m, a.at) # input[m] => Answered(m, a.at).state # "claimed"
        /\ Answered(m, a.at).state \in {"pending", "cancelled"} =>
             \/ input[m].state = Answered(m, a.at).state
             \/ a.at = "rejected" /\ input[m].state = "claimed" /\ input[m].cmd = "dispatched"
        /\ Answered(m, a.at).state = "delivered" => input[m].state = "delivered" \/ a.at = "accepted"
    BY <1>1, <2>2, <2>3, AnsweredIs
  <2>6. /\ input' \in [Message -> InputRow] /\ input'[m] = Answered(m, a.at)
        /\ \A x \in Message \ {m} : input'[x] = input[x]
    BY <1>1, <2>4, <2>5
  <2>7. \A i \in DOMAIN queue' : ~(IsSteer(queue'[i], m) /\ (i # 1 \/ ~sent'))
    BY <1>3, <2>3, OnItsWay
  <2>8. InQueue(m)' = {}
    <3>1. SUFFICES ASSUME NEW i \in DOMAIN queue', IsSteer(queue'[i], m) PROVE FALSE
      BY DEF InQueue, IsSteer
    <3>2. i = 1 /\ sent'
      BY <2>7, <3>1
    <3>3. queue'[i] = Head(queue) /\ sent
      <4>1. queue' \in Seq(CommandType) /\ queue' # <<>> /\ Head(queue') = Head(queue) /\ sent
        BY <1>3, <3>2 DEF Remains
      <4> QED
        BY <3>2, <4>1, Shortened
    <3>4. a.cmd = Head(queue)
      BY <1>1, <2>2, <3>1, <3>3 DEF QueueOK
    <3> QED
      BY <1>3, <3>3, <3>4
  <2>9. InNet(m)' = {} /\ ~Loaded(m)' /\ heard'[m] = heard[m] /\ asked'[m] = asked[m]
    <3>1. InNet(m) = {a}
      BY <2>3 DEF TravelOK
    <3>2. InNet(m)' = {}
      BY <1>2, <3>1 DEF InNet
    <3> QED
      BY <1>1, <1>2, <2>2, <3>2 DEF PlaceOK, Loaded
  <2>10. PlaceOK(m)'
    <3>1. ASSUME input'[m].state \in {"pending", "cancelled"} PROVE heard[m] = 0 /\ asked[m] = 0
      <4>1. input[m].state \notin {"pending", "cancelled"}
        BY <1>1, <2>3 DEF PlaceOK
      <4>2. a.at = "rejected"
        BY <2>5, <2>6, <3>1, <4>1
      <4> QED
        BY <2>3, <4>2 DEF TravelOK
    <3>2. input'[m].state \in {"pending", "cancelled"} => Untouched(m)'
      BY <2>9, <3>1 DEF Untouched
    <3>3. ASSUME input'[m].state = "delivered" PROVE heard[m] = 1
      <4>1. input[m].state = "delivered" \/ a.at = "accepted"
        BY <2>5, <2>6, <3>3
      <4> QED
        BY <1>1, <2>3, <4>1 DEF PlaceOK, TravelOK
    <3> QED
      BY <1>1, <2>8, <2>9, <3>2, <3>3 DEF PlaceOK
  <2>11. ClaimOK(m)' \/ input'[m] = input[m]
    BY <2>5, <2>6 DEF ClaimOK
  <2>12. Claims(m, "restart")' => Claims(m, "restart")
    BY <2>5, <2>6 DEF Claims
  <2>13. net' \subseteq net
    BY <1>2
  <2> QED
    BY <1>2, <1>3, <1>4, <1>5, <2>6, <2>7, <2>10, <2>11, <2>12, <2>13, RowsKeep
<1> QED
  BY <1>6, <1>7

-----------------------------------------------------------------------------
(* 6. The events the Host commits. *)

(* Nothing changes but the journal, and which Runner is attached. *)
LEMMA TablesStayKeeps ==
  ASSUME Steered, UNCHANGED hostVars, native' \in BOOLEAN, link' \in BOOLEAN,
         journal' = journal \/ (journal # <<>> /\ journal' = Tail(journal)),
         UNCHANGED <<net, eng, asked, heard, faults>>
  PROVE  Steered'
<1>1. /\ TypeOK /\ QueueOK /\ queue \in Seq(CommandType) /\ sent \in BOOLEAN /\ (sent => queue # <<>>)
      /\ input \in [Message -> InputRow]
  BY DEF Steered, CommandsOK, TypeOK, InputRow
<1>2. /\ input' = input /\ run' = run /\ attempt' = attempt /\ queue' = queue /\ sent' = sent
      /\ net' \subseteq net
  BY DEF hostVars
<1>3. Remains
  BY <1>1, <1>2, SameQueue
<1>4. run' \in RunRow /\ attempt' \in AttemptRow /\ RunOK' /\ Onward
  BY <1>2, SameRun
<1>5. faults' \in 0..MaxFault
  BY <1>1 DEF TypeOK
<1> QED
  BY <1>1, <1>2, <1>3, <1>4, <1>5, RowsKeep

(* The Run of a superseded attempt goes back to be dispatched. *)
LEMMA RequeueKeeps ==
  ASSUME Steered, Requeue, ~attempt.sent, run.status # "ended",
         journal # <<>>, journal' = Tail(journal),
         UNCHANGED <<native, link, net, eng, asked, heard, faults>>
  PROVE  Steered'
<1>1. /\ TypeOK /\ QueueOK /\ queue \in Seq(CommandType) /\ sent \in BOOLEAN /\ (sent => queue # <<>>)
      /\ input \in [Message -> InputRow] /\ run \in RunRow /\ attempt \in AttemptRow /\ RunOK
  BY DEF Steered, CommandsOK, TypeOK, InputRow, RunRow, AttemptRow
<1>2. /\ input' = input /\ attempt' = attempt /\ queue' = queue /\ sent' = sent /\ net' \subseteq net
      /\ run' = [run EXCEPT !.status = "queued", !.bound = 0]
  BY DEF Requeue
<1>3. Remains
  BY <1>1, <1>2, SameQueue
<1>4. /\ run' \in RunRow /\ run'.n = run.n /\ run'.bound = 0 /\ run'.status = "queued"
      /\ run'.stopped = run.stopped /\ run'.outcome = run.outcome
  <2>1. 0 \in 0..MaxAttempt
    BY SteerBounds
  <2> QED
    BY <1>1, <1>2, <2>1 DEF RunRow
<1>5. Onward /\ RunOK'
  BY <1>1, <1>2, <1>4 DEF Onward, RunOK, RunRow, AttemptRow
<1>6. native' \in BOOLEAN /\ link' \in BOOLEAN /\ faults' \in 0..MaxFault /\ attempt' \in AttemptRow
  BY <1>1, <1>2 DEF TypeOK
<1> QED
  BY <1>1, <1>2, <1>3, <1>4, <1>5, <1>6, RowsKeep

(* The attempt has started: what was claimed for it is delivered. *)
LEMMA StartedKeeps ==
  ASSUME Steered, Started, NEW e \in EventType, EventOK(e), e.type = "started", e.att = attempt.n,
         run.status # "ended", run.bound = attempt.n, journal # <<>>, journal' = Tail(journal),
         UNCHANGED <<native, link, net, eng, asked, heard, faults>>
  PROVE  Steered'
<1>1. /\ TypeOK /\ QueueOK /\ queue \in Seq(CommandType) /\ sent \in BOOLEAN /\ (sent => queue # <<>>)
      /\ input \in [Message -> InputRow] /\ run \in RunRow /\ attempt \in AttemptRow /\ RunOK
      /\ \A x \in Message : ClaimOK(x) /\ PlaceOK(x)
  BY DEF Steered, Messages, CommandsOK, TypeOK, InputRow, RunRow, AttemptRow
<1>2. /\ queue' = queue /\ sent' = sent /\ net' \subseteq net
      /\ run' = [run EXCEPT !.status = "running"] /\ attempt' = [attempt EXCEPT !.started = TRUE]
      /\ input' = [m \in Message |->
                    IF input[m].run = run.n /\ input[m].by = "restart" /\ input[m].state = "claimed"
                    THEN [input[m] EXCEPT !.state = "delivered"] ELSE input[m]]
  BY DEF Started
<1>3. Remains
  BY <1>1, <1>2, SameQueue
<1>4. /\ run' \in RunRow /\ run'.n = run.n /\ run'.bound = run.bound /\ run'.status = "running"
      /\ run'.stopped = run.stopped /\ run'.outcome = run.outcome
  BY <1>1, <1>2 DEF RunRow
<1>5. /\ attempt' \in AttemptRow /\ attempt'.n = attempt.n /\ attempt'.reason = attempt.reason
      /\ attempt'.sent = attempt.sent /\ attempt'.started
  BY <1>1, <1>2 DEF AttemptRow
<1>6. Onward /\ RunOK'
  BY <1>1, <1>4, <1>5 DEF Onward, RunOK, RunRow, AttemptRow
<1>7. native' \in BOOLEAN /\ link' \in BOOLEAN /\ faults' \in 0..MaxFault
  BY <1>1 DEF TypeOK
<1>8. ASSUME NEW x \in Message, Claims(x, "restart")
      PROVE  input'[x] \in InputRow /\ input'[x].state = "delivered" /\ heard[x] = 1 /\ InQueue(x)' = {}
  <2>1. input[x].run = run.n /\ InQueue(x) = {}
    BY <1>1, <1>8 DEF ClaimOK, Claims
  <2>2. input'[x] = [input[x] EXCEPT !.state = "delivered"] /\ input[x] \in InputRow
    BY <1>1, <1>2, <1>8, <2>1 DEF Claims
  <2>3. heard[x] = 1
    BY <1>8 DEF EventOK
  <2>4. InQueue(x)' = {}
    BY <1>3, <2>1, EmptyStays
  <2> QED
    BY <2>2, <2>3, <2>4 DEF InputRow
<1>9. ASSUME NEW x \in Message, ~Claims(x, "restart") PROVE input'[x] = input[x]
  BY <1>2, <1>9 DEF Claims
<1>10. input' \in [Message -> InputRow]
  <2>1. \A x \in Message : input'[x] \in InputRow
    BY <1>1, <1>8, <1>9
  <2> QED
    BY <1>2, <2>1
<1>11. ASSUME NEW x \in Message PROVE ClaimOK(x)'
  <2>1. CASE Claims(x, "restart")
    BY <1>8, <2>1 DEF ClaimOK
  <2>2. CASE ~Claims(x, "restart")
    <3>1. Untouched(x) => Untouched(x)'
      BY CalmOutside, UntouchedStays
    <3> QED
      BY <1>1, <1>4, <1>9, <2>2, <3>1 DEF ClaimOK, Claims
  <2> QED
    BY <2>1, <2>2
<1>12. ASSUME NEW x \in Message, Claims(x, "restart")
       PROVE  /\ PlaceOK(x)' /\ ~Claims(x, "restart")'
              /\ \A i \in DOMAIN queue' : ~IsSteer(queue'[i], x)
  <2>1. input'[x].state = "delivered" /\ heard[x] = 1 /\ InQueue(x)' = {}
    BY <1>8, <1>12
  <2>2. PlaceOK(x)'
    BY <1>1, <2>1, CalmOutside, PlaceStays
  <2> QED
    BY <2>1, <2>2 DEF Claims, InQueue, IsSteer
<1> QED
  BY <1>3, <1>4, <1>5, <1>6, <1>7, <1>9, <1>10, <1>11, <1>12, RowsKeep

(* The engine has told that it took a message. *)
LEMMA InjectedKeeps ==
  ASSUME Steered, NEW m \in Message, Injected(m), heard[m] = 1,
         run.status # "ended", journal # <<>>, journal' = Tail(journal),
         UNCHANGED <<native, link, net, eng, asked, heard, faults>>
  PROVE  Steered'
<1>1. /\ TypeOK /\ QueueOK /\ queue \in Seq(CommandType) /\ sent \in BOOLEAN /\ (sent => queue # <<>>)
      /\ input \in [Message -> InputRow]
      /\ \A x \in Message : ClaimOK(x) /\ PlaceOK(x)
  BY DEF Steered, Messages, CommandsOK, TypeOK, InputRow
<1>2. CASE ~(input[m].run = run.n /\ input[m].state \in {"claimed", "unknown"})
  BY <1>1, <1>2, TablesStayKeeps DEF Injected, hostVars, TypeOK
<1>3. CASE input[m].run = run.n /\ input[m].state \in {"claimed", "unknown"}
  <2>1. /\ input' = [input EXCEPT ![m].state = "delivered", ![m].cmd = "succeeded"]
        /\ Drop({c \in ToSet(queue) : c.kind = "steer" /\ c.msg = m})
        /\ UNCHANGED <<run, attempt>>
    BY <1>3 DEF Injected
  <2>2. Remains /\ \A i \in DOMAIN queue' : queue'[i] \notin {c \in ToSet(queue) : c.kind = "steer" /\ c.msg = m}
    BY <1>1, <2>1, DropIs
  <2>3. \A i \in DOMAIN queue' : ~IsSteer(queue'[i], m)
    BY <1>1, <2>2, Enqueued DEF Remains, IsSteer
  <2>4. run' \in RunRow /\ attempt' \in AttemptRow /\ RunOK' /\ Onward
    BY <2>1, SameRun
  <2>5. /\ input' \in [Message -> InputRow] /\ input'[m].state = "delivered"
        /\ \A x \in Message \ {m} : input'[x] = input[x]
    BY <1>1, <2>1 DEF InputRow
  <2>6. native' \in BOOLEAN /\ link' \in BOOLEAN /\ faults' \in 0..MaxFault
    BY <1>1 DEF TypeOK
  <2>7. PlaceOK(m)'
    BY <1>1, <2>5, CalmOutside, PlaceStays
  <2>8. ClaimOK(m)' /\ ~Claims(m, "restart")'
    BY <2>5 DEF ClaimOK, Claims
  <2> QED
    BY <2>1, <2>2, <2>3, <2>4, <2>5, <2>6, <2>7, <2>8, RowsKeep
<1> QED
  BY <1>2, <1>3

LEMMA CommitEventKeeps ==
  ASSUME Steered, CommitEvent
  PROVE  Steered'
<1>1. /\ journal # <<>> /\ journal' = Tail(journal)
      /\ UNCHANGED <<native, link, net, eng, asked, heard, faults>>
  BY DEF CommitEvent
<1>2. /\ TypeOK /\ RunOK /\ run \in RunRow /\ attempt \in AttemptRow
      /\ native' \in BOOLEAN /\ link' \in BOOLEAN
  BY <1>1 DEF Steered, TypeOK, RunRow, AttemptRow
<1>3. Head(journal) \in EventType /\ EventOK(Head(journal))
  <2>1. journal \in Seq(EventType) /\ \A i \in DOMAIN journal : EventOK(journal[i])
    BY DEF Steered, JournalOK
  <2>2. Head(journal) \in EventType /\ 1 \in DOMAIN journal /\ journal[1] = Head(journal)
    BY <1>1, <2>1, Shortened
  <2> QED
    BY <2>1, <2>2
<1>4. PICK e \in EventType : e = Head(journal) /\ EventOK(e)
  BY <1>3
<1>5. CASE run.status = "ended" \/ e.att # run.bound
  <2>1. UNCHANGED hostVars
    BY <1>4, <1>5 DEF CommitEvent
  <2> QED
    BY <1>1, <1>2, <2>1, TablesStayKeeps
<1>6. CASE ~(run.status = "ended" \/ e.att # run.bound)
  <2>1. IF e.type = "lost" THEN RecoverLost
        ELSE IF EndsRun(e) THEN Finalize(e.type)
        ELSE IF e.type = "interrupted" THEN Requeue
        ELSE IF Superseded THEN UNCHANGED hostVars
        ELSE IF e.type = "started" THEN Started
        ELSE Injected(e.msg)
    BY <1>4, <1>6 DEF CommitEvent
  <2>2. run.bound \in 1..MaxAttempt /\ run.bound = e.att /\ run.status # "ended"
    BY <1>6 DEF EventType
  <2>3. ~Superseded => run.bound = attempt.n
    BY <1>6, <2>2 DEF Superseded
  <2>4. CASE e.type = "lost"
    BY <1>1, <1>2, <2>1, <2>4, RecoverLostKeeps
  <2>5. CASE e.type # "lost" /\ EndsRun(e)
    <3>1. e.type \in {"completed", "interrupted", "failed"}
      BY <2>5 DEF EndsRun
    <3>2. e.type = "interrupted" => run.stopped
      BY <1>4, <2>2, <2>3, <2>5 DEF EndsRun, EventOK
    <3>3. Finalize(e.type)
      BY <2>1, <2>5
    <3> QED
      BY <1>1, <1>2, <3>1, <3>2, <3>3, FinalizeKeeps
  <2>6. CASE e.type = "interrupted" /\ ~EndsRun(e)
    <3>1. Requeue /\ Superseded
      BY <2>1, <2>6 DEF EndsRun
    <3>2. ~attempt.sent
      BY <1>2, <3>1 DEF Superseded, RunOK
    <3> QED
      BY <1>1, <2>2, <3>1, <3>2, RequeueKeeps
  <2>7. CASE e.type \notin {"lost", "interrupted"} /\ ~EndsRun(e) /\ Superseded
    BY <1>1, <1>2, <2>1, <2>7, TablesStayKeeps
  <2>8. CASE e.type = "started" /\ ~Superseded
    <3>1. Started
      BY <2>1, <2>8 DEF EndsRun
    <3> QED
      BY <1>1, <1>4, <2>2, <2>3, <2>8, <3>1, StartedKeeps
  <2>9. CASE e.type \notin {"lost", "interrupted", "started"} /\ ~EndsRun(e) /\ ~Superseded
    <3>1. e.type = "injected"
      BY <2>9 DEF EndsRun, EventType
    <3>2. Injected(e.msg) /\ e.msg \in Message /\ heard[e.msg] = 1
      BY <1>4, <2>1, <2>9, <3>1 DEF EventOK
    <3> QED
      BY <1>1, <2>2, <3>2, InjectedKeeps
  <2> QED
    BY <2>4, <2>5, <2>6, <2>7, <2>8, <2>9
<1> QED
  BY <1>5, <1>6

-----------------------------------------------------------------------------
(* 7. What goes wrong. *)

(* A steer that was sent is uncertain once its connection is gone. *)
LEMMA UnansweredIs ==
  ASSUME Steered, Unanswered
  PROVE  /\ Remains /\ input' \in [Message -> InputRow]
         /\ \A x \in Message :
              \/ input'[x] = input[x]
              \/ /\ input'[x].state # "claimed" /\ InQueue(x)' = {}
                 /\ input'[x].state \in {"pending", "cancelled", "delivered"} => input'[x].state = input[x].state
<1>1. /\ TypeOK /\ QueueOK /\ queue \in Seq(CommandType) /\ sent \in BOOLEAN /\ (sent => queue # <<>>)
      /\ input \in [Message -> InputRow]
      /\ \A i \in DOMAIN queue : CommandOK(queue[i])
  BY DEF Steered, CommandsOK, TypeOK, InputRow
<1>2. CASE sent /\ Head(queue).kind = "steer"
  <2>1. /\ sent' = FALSE /\ queue' = Tail(queue) /\ queue # <<>>
        /\ input' = [input EXCEPT ![Head(queue).msg] = SteerSettled(Head(queue).msg, "unknown")]
    BY <1>1, <1>2 DEF Unanswered
  <2>2. PICK m \in Message : m = Head(queue).msg
    BY <1>1, <1>2, <2>1, Shortened DEF CommandOK
  <2>3. Remains /\ InQueue(m)' = {}
    BY <1>1, <1>2, <2>1, <2>2, TailRemains DEF IsSteer
  <2> DEFINE i == input[m]
             r == SteerSettled(m, "unknown")
  <2>4. i \in InputRow
    BY <1>1
  <2>5. /\ r \in InputRow /\ r.state # "claimed"
        /\ r.state \in {"pending", "cancelled", "delivered"} => r.state = i.state
    <3>1. r = IF i.state = "claimed" THEN [i EXCEPT !.state = "unknown", !.cmd = "unknown"]
              ELSE [i EXCEPT !.cmd = "unknown"]
      BY DEF SteerSettled
    <3> HIDE DEF r, i
    <3> QED
      BY <2>4, <3>1 DEF InputRow
  <2>6. input' = [input EXCEPT ![m] = r]
    BY <2>1, <2>2
  <2> HIDE DEF r
  <2>7. /\ input' \in [Message -> InputRow] /\ input'[m] = r
        /\ \A x \in Message \ {m} : input'[x] = input[x]
    BY <1>1, <2>5, <2>6
  <2> QED
    BY <2>3, <2>5, <2>7
<1>3. CASE ~(sent /\ Head(queue).kind = "steer")
  <2>1. sent' = FALSE /\ queue' = queue /\ input' = input
    BY <1>3 DEF Unanswered
  <2>2. \A i \in DOMAIN queue' : queue'[i].kind = "steer" => i # 1 \/ ~sent
    BY <1>1, <1>3, <2>1, Shortened
  <2>3. /\ queue' \in Seq(CommandType) /\ sent' \in BOOLEAN /\ ~sent'
        /\ \A i, j \in DOMAIN queue', m \in Message :
              IsSteer(queue'[i], m) /\ IsSteer(queue'[j], m) => i = j
    BY <1>1, <2>1 DEF QueueOK
  <2> QED
    BY <1>1, <2>1, <2>2, <2>3 DEF Remains
<1> QED
  BY <1>2, <1>3

LEMMA DisconnectKeeps ==
  ASSUME Steered, Disconnect
  PROVE  Steered'
<1>1. /\ faults < MaxFault /\ link' = FALSE /\ net' = {} /\ faults' = faults + 1 /\ Unanswered
      /\ UNCHANGED <<run, attempt, native, eng, asked, journal, heard>>
  BY DEF Disconnect, runnerVars
<1>2. /\ Remains /\ input' \in [Message -> InputRow]
      /\ \A x \in Message :
           \/ input'[x] = input[x]
           \/ /\ input'[x].state # "claimed" /\ InQueue(x)' = {}
              /\ input'[x].state \in {"pending", "cancelled", "delivered"} => input'[x].state = input[x].state
  BY <1>1, UnansweredIs
<1>3. TypeOK /\ \A x \in Message : PlaceOK(x)
  BY DEF Steered, Messages
<1>4. /\ run' \in RunRow /\ attempt' \in AttemptRow /\ RunOK' /\ Onward
      /\ native' \in BOOLEAN /\ link' \in BOOLEAN /\ faults' \in 0..MaxFault /\ net' \subseteq net
  <2>1. faults + 1 \in 0..MaxFault
    BY <1>1, <1>3, SteerBounds DEF TypeOK
  <2> QED
    BY <1>1, <1>3, <2>1, SameRun DEF TypeOK
<1>5. ASSUME NEW x \in Message, input'[x] # input[x]
      PROVE  /\ ClaimOK(x)' /\ PlaceOK(x)' /\ ~Claims(x, "restart")'
             /\ \A i \in DOMAIN queue' : ~IsSteer(queue'[i], x)
  <2>1. /\ input'[x].state # "claimed" /\ InQueue(x)' = {}
        /\ input'[x].state \in {"pending", "cancelled", "delivered"} => input'[x].state = input[x].state
    BY <1>2, <1>5
  <2>2. PlaceOK(x)'
    BY <1>1, <1>3, <1>4, <2>1, CalmOutside, PlaceStays DEF PlaceOK
  <2> QED
    BY <2>1, <2>2 DEF ClaimOK, Claims, InQueue, IsSteer
<1> QED
  BY <1>1, <1>2, <1>4, <1>5, RowsKeep

EngineRow == [run : 0..MaxRun, att : 0..MaxAttempt, phase : {"none", "loaded", "running", "settling"},
              batch : SUBSET Message, cause : {"none", "interrupted", "completed", "lost"}]

LEMMA IdleTyped == Idle \in EngineRow
<1>1. 0 \in 0..MaxRun /\ 0 \in 0..MaxAttempt
  BY SteerBounds
<1> QED
  BY <1>1 DEF Idle, EngineRow

LEMMA CrashKeeps ==
  ASSUME Steered, Crash
  PROVE  Steered'
<1>1. /\ faults < MaxFault /\ link' = FALSE /\ net' = {} /\ faults' = faults + 1 /\ Unanswered
      /\ eng' = Idle /\ journal' = <<>> /\ asked' = [m \in Message |-> 0]
      /\ UNCHANGED <<run, attempt, native>>
  BY DEF Crash
<1>2. /\ Remains /\ input' \in [Message -> InputRow]
      /\ \A x \in Message :
           \/ input'[x] = input[x]
           \/ /\ input'[x].state # "claimed" /\ InQueue(x)' = {}
              /\ input'[x].state \in {"pending", "cancelled", "delivered"} => input'[x].state = input[x].state
  BY <1>1, UnansweredIs
<1>3. /\ TypeOK /\ CommandsOK /\ QueueOK /\ RunOK /\ \A x \in Message : ClaimOK(x) /\ PlaceOK(x)
  BY DEF Steered, Messages
<1>4. run' \in RunRow /\ attempt' \in AttemptRow /\ RunOK' /\ Onward
  BY <1>1, SameRun
<1>5. PICK took \in {0, 1} :
        heard' = [m \in Message |->
                    heard[m] + (IF (eng.phase = "loaded" /\ m \in eng.batch) \/ asked[m] # 0
                                THEN took ELSE 0)]
  BY DEF Crash
<1>6. ASSUME NEW x \in Message
      PROVE  /\ heard'[x] \in {0, 1} /\ (heard[x] = 1 => heard'[x] = 1)
             /\ Untouched(x) => Untouched(x)'
  <2>1. heard[x] \in {0, 1} /\ (Loaded(x) \/ asked[x] # 0 => heard[x] = 0)
    BY <1>3 DEF PlaceOK
  <2>2. heard'[x] = heard[x] + (IF Loaded(x) \/ asked[x] # 0 THEN took ELSE 0)
    BY <1>5 DEF Loaded
  <2>3. heard'[x] \in {0, 1} /\ (heard[x] = 1 => heard'[x] = 1)
    BY <2>1, <2>2
  <2>4. Untouched(x) => heard'[x] = 0
    BY <2>2 DEF Untouched
  <2>5. asked'[x] = 0 /\ InNet(x)' = {} /\ ~Loaded(x)'
    BY <1>1 DEF InNet, Loaded, Idle
  <2> QED
    BY <2>3, <2>4, <2>5 DEF Untouched
<1>7. TypeOK'
  <2>1. faults + 1 \in 0..MaxFault /\ 0 \in 0..MaxAttempt
    BY <1>1, <1>3, SteerBounds DEF TypeOK
  <2>2. heard' \in [Message -> Nat]
    <3>1. \A x \in Message : heard'[x] \in Nat
      BY <1>6
    <3> QED
      BY <1>5, <3>1
  <2>3. /\ \A c \in ToSet(queue') : c \in CommandType
        /\ sent' \in BOOLEAN /\ (sent' => queue' # <<>>)
    BY <1>2, Enqueued DEF Remains
  <2> QED
    BY <1>1, <1>2, <1>3, <1>4, <2>1, <2>2, <2>3, IdleTyped
    DEF TypeOK, InputRow, RunRow, AttemptRow, EngineRow
<1>8. CommandsOK'
  <2>1. net' \subseteq net
    BY <1>1
  <2> QED
    BY <1>2, <1>3, <1>4, <1>7, <2>1, CommandsStay
<1>9. EngineOK'
  BY <1>1 DEF EngineOK, Idle
<1>10. JournalOK'
  <2>1. <<>> \in Seq(EventType) /\ DOMAIN <<>> = {}
    OBVIOUS
  <2> QED
    BY <1>1, <2>1 DEF JournalOK
<1>11. QueueOK'
  <2>1. ASSUME NEW i \in DOMAIN queue', NEW x \in Message, IsSteer(queue'[i], x)
        PROVE  input'[x] = input[x]
    BY <1>2, <2>1 DEF InQueue, IsSteer
  <2>2. \A i \in DOMAIN queue' : queue'[i].kind = "steer" => run'.n = run.n /\ run'.status # "ended"
    BY <1>1, <1>2, <1>3 DEF Remains, QueueOK
  <2>3. net' \subseteq net
    BY <1>1
  <2> QED
    BY <1>2, <1>3, <2>1, <2>2, <2>3, QueueStays
<1>12. ASSUME NEW x \in Message PROVE ClaimOK(x)' /\ PlaceOK(x)'
  <2>1. asked'[x] = 0 /\ InNet(x)' = {} /\ ~Loaded(x)' /\ eng'.phase = "none"
    BY <1>1 DEF InNet, Loaded, Idle
  <2>2. InQueue(x) = {} => InQueue(x)' = {}
    BY <1>2, EmptyStays
  <2>3. ClaimOK(x)'
    <3>1. CASE input'[x] = input[x]
      BY <1>1, <1>3, <1>6, <2>1, <2>2, <3>1 DEF ClaimOK
    <3>2. CASE input'[x] # input[x]
      BY <1>2, <3>2 DEF ClaimOK
    <3> QED
      BY <3>1, <3>2
  <2>4. PlaceOK(x)'
    <3>1. input'[x].state \in {"pending", "cancelled", "delivered"} => input'[x].state = input[x].state
      BY <1>2
    <3>2. input'[x].state \in {"pending", "cancelled"} => Untouched(x)' /\ InQueue(x)' = {}
      BY <1>3, <1>6, <2>2, <3>1 DEF PlaceOK
    <3>3. input'[x].state = "delivered" => heard'[x] = 1
      BY <1>3, <1>6, <3>1 DEF PlaceOK
    <3> QED
      BY <1>6, <2>1, <3>2, <3>3 DEF PlaceOK
  <2> QED
    BY <2>3, <2>4
<1> QED
  BY <1>4, <1>7, <1>8, <1>9, <1>10, <1>11, <1>12 DEF Steered, Messages

LEMMA ReconnectKeeps ==
  ASSUME Steered, Reconnect
  PROVE  Steered'
<1>1. /\ native' \in BOOLEAN /\ link' \in BOOLEAN /\ UNCHANGED <<net, eng, asked, heard, faults>>
      /\ journal' = journal
  BY DEF Reconnect, runnerVars
<1>2. RecoverLost \/ UNCHANGED hostVars
  BY DEF Reconnect
<1> QED
  BY <1>1, <1>2, RecoverLostKeeps, TablesStayKeeps

-----------------------------------------------------------------------------
(* 8. The attempt is dispatched. *)

LEMMA ExecuteKeeps ==
  ASSUME Steered, Execute
  PROVE  Steered'
<1>1. /\ TypeOK /\ RunOK /\ CommandsOK /\ EngineOK /\ JournalOK /\ QueueOK
      /\ queue \in Seq(CommandType) /\ sent \in BOOLEAN /\ (sent => queue # <<>>)
      /\ run \in RunRow /\ attempt \in AttemptRow /\ input \in [Message -> InputRow]
      /\ \A x \in Message : ClaimOK(x) /\ PlaceOK(x)
  BY DEF Steered, Messages, TypeOK, RunRow, AttemptRow, InputRow, CommandsOK
<1>2. /\ run.status = "queued" /\ eng.phase = "none"
      /\ run' = [run EXCEPT !.status = "starting", !.bound = attempt.n, !.grant = TRUE]
      /\ attempt' = [attempt EXCEPT !.sent = TRUE]
      /\ eng' = [run |-> run.n, att |-> attempt.n, phase |-> "loaded", batch |-> Batch, cause |-> "none"]
      /\ UNCHANGED <<input, queue, sent, native, link, net, asked, journal, heard, faults>>
  BY DEF Execute
<1>3. run.bound = 0 /\ attempt.n \in 1..MaxAttempt /\ ~attempt.sent /\ ~attempt.started
  BY <1>1, <1>2 DEF RunOK, AttemptRow
<1>4. /\ run' \in RunRow /\ run'.n = run.n /\ run'.bound = attempt.n /\ run'.status = "starting"
      /\ run'.stopped = run.stopped /\ run'.outcome = run.outcome
  <2>1. attempt.n \in 0..MaxAttempt
    BY <1>3
  <2> QED
    BY <1>1, <1>2, <2>1 DEF RunRow
<1>5. /\ attempt' \in AttemptRow /\ attempt'.n = attempt.n /\ attempt'.reason = attempt.reason
      /\ attempt'.sent /\ ~attempt'.started
  BY <1>1, <1>2, <1>3 DEF AttemptRow
<1>6. Onward /\ RunOK'
  BY <1>1, <1>3, <1>4, <1>5 DEF Onward, RunOK, RunRow
<1>7. /\ eng' \in EngineRow /\ eng'.run = run.n /\ eng'.att = attempt.n /\ eng'.phase = "loaded"
      /\ eng'.batch = Batch /\ eng'.cause = "none"
  <2>1. run.n \in 0..MaxRun /\ attempt.n \in 0..MaxAttempt /\ Batch \subseteq Message
    BY <1>1, <1>3, SteerBounds DEF RunRow, Batch
  <2> QED
    BY <1>2, <2>1 DEF EngineRow
<1>8. TypeOK'
  <2>1. \A c \in ToSet(queue') : c \in CommandType
    BY <1>1, <1>2 DEF TypeOK
  <2> QED
    BY <1>1, <1>2, <1>4, <1>5, <1>7, <2>1 DEF TypeOK, RunRow, AttemptRow, EngineRow
<1>9. Remains
  BY <1>1, <1>2, SameQueue
<1>10. CommandsOK'
  BY <1>1, <1>2, <1>6, <1>8, <1>9, CommandsStay
<1>11. EngineOK'
  BY <1>1, <1>3, <1>4, <1>5, <1>7 DEF EngineOK, RunRow
<1>12. JournalOK'
  <2>1. \A e \in EventType : EventOK(e) => EventOK(e)'
    <3>1. SUFFICES ASSUME NEW e \in EventType, EventOK(e) PROVE EventOK(e)'
      OBVIOUS
    <3>2. e.att <= attempt.n /\ e.att # attempt.n
      BY <1>3, <3>1 DEF EventOK
    <3> QED
      BY <1>2, <1>5, <1>7, <3>1, <3>2 DEF EventOK
  <2>2. \A i \in DOMAIN journal : journal[i] \in EventType
    BY <1>1, Enqueued DEF JournalOK
  <2>3. \A i \in DOMAIN journal : \E e \in EventType : journal[i] = e /\ EventOK(e)'
    BY <1>1, <2>1, <2>2 DEF JournalOK
  <2> QED
    BY <1>1, <1>2, <2>3 DEF JournalOK
<1>13. QueueOK'
  <2>1. \A i \in DOMAIN queue' : queue'[i].kind = "steer" => run'.n = run.n /\ run'.status # "ended"
    BY <1>4
  <2> QED
    BY <1>1, <1>2, <1>9, <2>1, QueueStays
<1>14. ASSUME NEW x \in Message PROVE ClaimOK(x)' /\ PlaceOK(x)'
  <2>1. /\ InQueue(x)' = InQueue(x) /\ InNet(x)' = InNet(x) /\ heard'[x] = heard[x]
        /\ asked'[x] = asked[x] /\ input'[x] = input[x]
    BY <1>2 DEF InQueue, InNet
  <2>2. CASE Claims(x, "restart")
    <3>1. Untouched(x) /\ input[x].run = run.n /\ attempt.reason = "steer_restart" /\ InQueue(x) = {}
          /\ input[x].cmd = "none"
      BY <1>1, <1>3, <2>2 DEF ClaimOK, Claims
    <3>2. x \in Batch
      BY <2>2, <3>1 DEF Batch, Claims
    <3>3. ClaimOK(x)'
      BY <1>4, <1>5, <1>7, <2>1, <2>2, <3>1, <3>2 DEF ClaimOK, Claims, Untouched
    <3>4. PlaceOK(x)'
      BY <1>1, <2>1, <2>2, <3>1 DEF PlaceOK, Claims, Untouched
    <3> QED
      BY <3>3, <3>4
  <2>3. CASE ~Claims(x, "restart")
    <3>1. Calm(x)
      BY <1>7, <2>1, <2>3 DEF Calm, Loaded, Batch, Claims
    <3>2. ClaimOK(x)'
      BY <1>1, <1>4, <2>1, <2>3, <3>1, UntouchedStays DEF ClaimOK, Claims
    <3>3. PlaceOK(x)'
      BY <1>1, <2>1, <3>1, PlaceStays DEF PlaceOK
    <3> QED
      BY <3>2, <3>3
  <2> QED
    BY <2>2, <2>3
<1> QED
  BY <1>6, <1>8, <1>10, <1>11, <1>12, <1>13, <1>14 DEF Steered, Messages

-----------------------------------------------------------------------------
(* 9. The steps of the Runner. *)

NetRow == [cmd : CommandType, at : {"sent", "asked", "accepted", "rejected", "uncertain"}]

(* On the connection are the commands that were there, answered or not. *)
NetKept ==
  /\ net' \subseteq NetRow
  /\ \A b \in net' : \E a \in net : a.cmd = b.cmd /\ (b.at = "asked" => b.cmd.kind = "steer")

(* A step of the Runner: the tables stay. *)
LEMMA RunnerTyped ==
  ASSUME Steered, UNCHANGED <<hostVars, native, link, faults>>, NetKept,
         eng' \in EngineRow, asked' \in [Message -> 0..MaxAttempt], heard' \in [Message -> Nat]
  PROVE  TypeOK'
<1>1. TypeOK /\ input' = input /\ run' = run /\ attempt' = attempt /\ queue' = queue /\ sent' = sent
  BY DEF Steered, hostVars
<1> QED
  BY <1>1 DEF TypeOK, NetKept, NetRow, EngineRow

LEMMA RunnerKeeps ==
  ASSUME Steered, UNCHANGED hostVars, NetKept,
         TypeOK', EngineOK', JournalOK', \A x \in Message : ClaimOK(x)' /\ PlaceOK(x)',
         \A x \in Message : \A b \in InNet(x)' : \E a \in InNet(x) : a.cmd = b.cmd
  PROVE  Steered'
<1>1. /\ CommandsOK /\ QueueOK /\ TypeOK
      /\ input' = input /\ run' = run /\ attempt' = attempt /\ queue' = queue /\ sent' = sent
  BY DEF Steered, hostVars
<1>2. RunOK' /\ Onward
  BY <1>1, SameRun
<1>3. CommandsOK'
  <2>1. (\A i \in DOMAIN queue : CommandOK(queue[i]))'
    BY <1>1 DEF CommandsOK, CommandOK
  <2>2. \A a \in net : CommandOK(a.cmd)
    BY <1>1 DEF CommandsOK
  <2>3. (\A b \in net : CommandOK(b.cmd) /\ (b.at = "asked" => b.cmd.kind = "steer"))'
    BY <1>1, <2>2 DEF NetKept, CommandOK
  <2> QED
    BY <1>1, <2>1, <2>3 DEF CommandsOK
<1>4. QueueOK'
  <2>1. (\A x \in Message : sent /\ IsSteer(Head(queue), x) => \A b \in InNet(x) : b.cmd = Head(queue))'
    BY <1>1 DEF QueueOK, IsSteer
  <2>2. (\A i \in DOMAIN queue : queue[i].kind = "steer" => queue[i].run = run.n /\ run.status # "ended")'
    BY <1>1 DEF QueueOK
  <2>3. (\A i, j \in DOMAIN queue, m \in Message :
           IsSteer(queue[i], m) /\ IsSteer(queue[j], m) => i = j)'
    BY <1>1 DEF QueueOK, IsSteer
  <2>4. (\A i \in DOMAIN queue, m \in Message :
           IsSteer(queue[i], m) /\ (i # 1 \/ ~sent) => Claims(m, "steer") /\ input[m].cmd = "pending")'
    BY <1>1 DEF QueueOK, IsSteer, Claims
  <2> QED
    BY <2>1, <2>2, <2>3, <2>4 DEF QueueOK
<1> QED
  BY <1>2, <1>3, <1>4 DEF Steered, Messages

(* The journal stays or gains an event. *)
LEMMA JournalGoesOn ==
  ASSUME Steered, TypeOK', UNCHANGED <<run, attempt>>, EventsOnward,
         journal' = journal \/ \E e \in EventType : EventOK(e)' /\ journal' = Append(journal, e)
  PROVE  JournalOK'
<1>1. TypeOK /\ JournalOK /\ Onward
  BY SameRun DEF Steered
<1> QED
  BY <1>1, EventsStay, EventsGrow

LEMMA SameNet ==
  ASSUME Steered, UNCHANGED net
  PROVE  NetKept
BY DEF Steered, TypeOK, CommandsOK, NetKept, NetRow

(* The engine starts, ends or is gone: its messages may be heard. *)
LEMMA EngineMoves ==
  ASSUME Steered, UNCHANGED <<hostVars, native, link, net, asked, faults>>,
         eng' \in EngineRow, EngineOK', eng'.phase # "loaded", heard' \in [Message -> Int],
         \A x \in Message : heard'[x] = heard[x] \/ (Loaded(x) /\ heard'[x] = 1),
         journal' = journal \/ \E e \in EventType : EventOK(e)' /\ journal' = Append(journal, e)
  PROVE  Steered'
<1>1. /\ TypeOK /\ \A x \in Message : ClaimOK(x) /\ PlaceOK(x)
      /\ input' = input /\ run' = run /\ attempt' = attempt /\ queue' = queue /\ sent' = sent
  BY DEF Steered, Messages, hostVars
<1>2. ASSUME NEW x \in Message
      PROVE  /\ heard'[x] \in {0, 1} /\ (heard[x] = 1 => heard'[x] = 1)
             /\ Untouched(x) => Untouched(x)'
             /\ asked[x] # 0 \/ InNet(x) # {} => heard'[x] = heard[x]
             /\ InNet(x)' = InNet(x) /\ InQueue(x)' = InQueue(x) /\ ~Loaded(x)' /\ asked'[x] = asked[x]
  <2>1. InNet(x)' = InNet(x) /\ InQueue(x)' = InQueue(x) /\ ~Loaded(x)' /\ asked'[x] = asked[x]
    BY <1>1 DEF InNet, InQueue, Loaded
  <2>2. heard[x] \in {0, 1} /\ (Loaded(x) => heard[x] = 0 /\ asked[x] = 0 /\ InNet(x) = {})
    BY <1>1 DEF PlaceOK
  <2>3. heard'[x] = heard[x] \/ (Loaded(x) /\ heard'[x] = 1)
    OBVIOUS
  <2> QED
    BY <2>1, <2>2, <2>3 DEF Untouched
<1>3. NetKept
  BY SameNet
<1>4. TypeOK'
  <2>1. heard' \in [Message -> Nat]
    BY <1>2
  <2>2. asked' \in [Message -> 0..MaxAttempt]
    BY <1>1 DEF TypeOK
  <2> QED
    BY <1>3, <2>1, <2>2, RunnerTyped
<1>5. JournalOK'
  <2>1. EventsOnward
    BY <1>1, <1>2 DEF EventsOnward, Claims
  <2> QED
    BY <1>1, <1>4, <2>1, JournalGoesOn
<1>6. ASSUME NEW x \in Message PROVE ClaimOK(x)' /\ PlaceOK(x)'
  <2>1. ClaimOK(x)'
    BY <1>1, <1>2 DEF ClaimOK
  <2>2. \A a \in InNet(x)' : TravelOK(x, a)'
    BY <1>1, <1>2 DEF PlaceOK, TravelOK
  <2>3. PlaceOK(x)'
    BY <1>1, <1>2, <2>2 DEF PlaceOK
  <2> QED
    BY <2>1, <2>3
<1>7. \A x \in Message : \A b \in InNet(x)' : \E a \in InNet(x) : a.cmd = b.cmd
  BY <1>2
<1> QED
  BY <1>3, <1>4, <1>5, <1>6, <1>7, RunnerKeeps

LEMMA StartKeeps ==
  ASSUME Steered, Start
  PROVE  Steered'
<1>1. /\ TypeOK /\ EngineOK /\ attempt \in AttemptRow
      /\ \A x \in Message : ClaimOK(x) /\ PlaceOK(x)
  BY DEF Steered, Messages, TypeOK, AttemptRow
<1>2. /\ eng.phase = "loaded" /\ eng.cause = "none"
      /\ eng' = [eng EXCEPT !.phase = "running"]
      /\ heard' = [m \in Message |-> heard[m] + (IF m \in eng.batch THEN 1 ELSE 0)]
      /\ journal' = Append(journal, Event("started", NoMessage, eng.att))
      /\ UNCHANGED <<hostVars, native, link, net, asked, faults>>
  BY DEF Start
<1>3. /\ eng' \in EngineRow /\ eng'.run = eng.run /\ eng'.att = eng.att /\ eng'.phase = "running"
      /\ eng'.cause = eng.cause /\ eng.att \in 1..MaxAttempt
      /\ run' = run /\ attempt' = attempt /\ input' = input
  <2>1. eng \in EngineRow
    BY <1>1 DEF TypeOK, EngineRow
  <2>2. eng.att \in 1..attempt.n
    BY <1>1, <1>2 DEF EngineOK
  <2>3. eng.att \in 1..MaxAttempt
    BY <1>1, <2>2, SteerBounds DEF AttemptRow
  <2> QED
    BY <1>2, <2>1, <2>3 DEF EngineRow, hostVars
<1>4. EngineOK'
  BY <1>1, <1>2, <1>3 DEF EngineOK
<1>5. \A x \in Message : heard'[x] = heard[x] \/ (Loaded(x) /\ heard'[x] = 1)
  BY <1>1, <1>2 DEF PlaceOK, Loaded
<1>6. heard' \in [Message -> Int]
  BY <1>1, <1>2 DEF PlaceOK
<1>7. PICK e \in EventType : e = Event("started", NoMessage, eng.att)
  BY <1>3 DEF Event, EventType
<1>8. e.type = "started" /\ e.att = eng.att
  BY <1>7 DEF Event
<1>9. EventOK(e)'
  <2>1. e.att = attempt.n => \A m \in Message : Claims(m, "restart") => heard'[m] = 1
    <3>1. SUFFICES ASSUME e.att = attempt.n, NEW m \in Message, Claims(m, "restart") PROVE heard'[m] = 1
      OBVIOUS
    <3>2. m \in eng.batch
      BY <1>1, <1>2, <1>8, <3>1 DEF ClaimOK, Claims
    <3>3. heard[m] = 0
      BY <1>1, <1>2, <3>2 DEF PlaceOK, Loaded
    <3> QED
      BY <1>2, <3>2, <3>3
  <2>2. e.att <= attempt.n /\ (e.att = attempt.n => attempt.sent)
    BY <1>1, <1>2, <1>8 DEF EngineOK, AttemptRow
  <2> QED
    BY <1>3, <1>8, <2>1, <2>2 DEF EventOK, Claims
<1> QED
  BY <1>2, <1>3, <1>4, <1>5, <1>6, <1>7, <1>9, EngineMoves

LEMMA FinishesKeeps ==
  ASSUME Steered, Finishes
  PROVE  Steered'
<1>1. TypeOK /\ EngineOK
  BY DEF Steered
<1>2. /\ eng.phase = "running" /\ eng.cause = "none"
      /\ eng' = [eng EXCEPT !.phase = "settling", !.cause = "completed"]
      /\ UNCHANGED <<hostVars, native, link, net, asked, journal, heard, faults>>
  BY DEF Finishes
<1>3. /\ eng' \in EngineRow /\ eng'.run = eng.run /\ eng'.att = eng.att /\ eng'.phase = "settling"
      /\ eng'.cause = "completed" /\ run' = run /\ attempt' = attempt
  BY <1>1, <1>2 DEF TypeOK, EngineRow, hostVars
<1>4. EngineOK'
  BY <1>1, <1>2, <1>3 DEF EngineOK
<1>5. heard' \in [Message -> Int]
  BY <1>1, <1>2 DEF TypeOK
<1> QED
  BY <1>2, <1>3, <1>4, <1>5, EngineMoves

LEMMA StoppedKeeps ==
  ASSUME Steered, Stopped
  PROVE  Steered'
<1>1. /\ TypeOK /\ EngineOK /\ \A x \in Message : PlaceOK(x)
  BY DEF Steered, Messages
<1>2. /\ eng.phase \in {"loaded", "running"} /\ eng.cause # "none"
      /\ eng' = [eng EXCEPT !.phase = "settling"]
      /\ UNCHANGED <<hostVars, native, link, net, asked, journal, faults>>
  BY DEF Stopped
<1>3. PICK took \in IF eng.phase = "loaded" THEN {0, 1} ELSE {0} :
        heard' = [m \in Message |-> heard[m] + (IF m \in eng.batch THEN took ELSE 0)]
  BY DEF Stopped
<1>4. /\ eng' \in EngineRow /\ eng'.run = eng.run /\ eng'.att = eng.att /\ eng'.phase = "settling"
      /\ eng'.cause = eng.cause /\ run' = run /\ attempt' = attempt
  BY <1>1, <1>2 DEF TypeOK, EngineRow, hostVars
<1>5. EngineOK'
  BY <1>1, <1>2, <1>4 DEF EngineOK
<1>6. \A x \in Message : heard'[x] \in Int /\ (heard'[x] = heard[x] \/ (Loaded(x) /\ heard'[x] = 1))
  <2>1. ASSUME NEW x \in Message
        PROVE  heard'[x] \in Int /\ (heard'[x] = heard[x] \/ (Loaded(x) /\ heard'[x] = 1))
    <3>1. heard[x] \in {0, 1} /\ (Loaded(x) => heard[x] = 0)
      BY <1>1 DEF PlaceOK
    <3>2. heard'[x] = heard[x] + (IF x \in eng.batch THEN took ELSE 0)
      BY <1>3
    <3>3. took \in {0, 1} /\ (took = 1 => eng.phase = "loaded")
      OBVIOUS
    <3> QED
      BY <3>1, <3>2, <3>3 DEF Loaded
  <2> QED
    BY <2>1
<1>7. heard' \in [Message -> Int]
  BY <1>3, <1>6
<1> QED
  BY <1>2, <1>4, <1>5, <1>6, <1>7, EngineMoves

LEMMA TerminalKeeps ==
  ASSUME Steered, Terminal
  PROVE  Steered'
<1>1. TypeOK /\ EngineOK /\ attempt \in AttemptRow
  BY DEF Steered, TypeOK, AttemptRow
<1>2. /\ eng.phase = "settling" /\ eng' = Idle
      /\ journal' = Append(journal, Event(eng.cause, NoMessage, eng.att))
      /\ UNCHANGED <<hostVars, native, link, net, asked, heard, faults>>
  BY DEF Terminal
<1>3. eng.cause \in {"interrupted", "completed", "lost"} /\ eng.att \in 1..MaxAttempt
      /\ run' = run /\ attempt' = attempt
  BY <1>1, <1>2 DEF TypeOK, EngineOK, hostVars, AttemptRow
<1>4. eng' \in EngineRow /\ eng'.phase # "loaded" /\ EngineOK'
  BY <1>2, IdleTyped DEF EngineOK, Idle
<1>5. PICK e \in EventType : e = Event(eng.cause, NoMessage, eng.att)
  BY <1>3 DEF Event, EventType
<1>6. e.type = eng.cause /\ e.att = eng.att
  BY <1>5 DEF Event
<1>7. EventOK(e)'
  <2>1. /\ e.att <= attempt.n /\ (e.att = attempt.n => attempt.sent)
        /\ e.type = "interrupted" /\ e.att = attempt.n => run.stopped
    BY <1>1, <1>2, <1>6 DEF EngineOK, AttemptRow
  <2> QED
    BY <1>3, <1>6, <2>1 DEF EventOK
<1>8. heard' \in [Message -> Int]
  BY <1>1, <1>2 DEF TypeOK
<1> QED
  BY <1>2, <1>4, <1>5, <1>7, <1>8, EngineMoves

(* The engine is told to stop, or its lease is over. *)
LEMMA CauseChanges ==
  ASSUME Steered, UNCHANGED <<hostVars, native, link, asked, journal, heard, faults>>, NetKept,
         eng' \in EngineRow, EngineOK',
         eng'.run = eng.run /\ eng'.att = eng.att /\ eng'.phase = eng.phase /\ eng'.batch = eng.batch,
         \A x \in Message : InNet(x)' = InNet(x)
  PROVE  Steered'
<1>1. /\ TypeOK /\ \A x \in Message : ClaimOK(x) /\ PlaceOK(x)
      /\ input' = input /\ run' = run /\ attempt' = attempt /\ queue' = queue /\ sent' = sent
  BY DEF Steered, Messages, hostVars
<1>2. TypeOK'
  <2>1. asked' \in [Message -> 0..MaxAttempt] /\ heard' \in [Message -> Nat]
    BY <1>1 DEF TypeOK
  <2> QED
    BY <2>1, RunnerTyped
<1>3. JournalOK'
  <2>1. EventsOnward
    BY <1>1 DEF EventsOnward, Claims
  <2> QED
    BY <1>1, <1>2, <2>1, JournalGoesOn
<1>4. ASSUME NEW x \in Message PROVE ClaimOK(x)' /\ PlaceOK(x)'
  <2>1. Calm(x) /\ InQueue(x)' = InQueue(x)
    BY <1>1 DEF Calm, Loaded, InQueue
  <2>2. ClaimOK(x)'
    BY <1>1, <2>1, ClaimStays
  <2>3. PlaceOK(x)'
    BY <1>1, <2>1, PlaceStays DEF PlaceOK
  <2> QED
    BY <2>2, <2>3
<1> QED
  BY <1>2, <1>3, <1>4, RunnerKeeps

LEMMA LeaseLostKeeps ==
  ASSUME Steered, LeaseLost
  PROVE  Steered'
<1>1. TypeOK /\ EngineOK
  BY DEF Steered
<1>2. /\ eng.phase \in {"loaded", "running"} /\ eng' = [eng EXCEPT !.cause = "lost"]
      /\ UNCHANGED <<hostVars, native, link, net, asked, journal, heard, faults>>
  BY DEF LeaseLost
<1>3. /\ eng' \in EngineRow /\ eng'.run = eng.run /\ eng'.att = eng.att /\ eng'.phase = eng.phase
      /\ eng'.batch = eng.batch /\ eng'.cause = "lost" /\ run' = run /\ attempt' = attempt
  BY <1>1, <1>2 DEF TypeOK, EngineRow, hostVars
<1>4. EngineOK'
  BY <1>1, <1>2, <1>3 DEF EngineOK
<1>5. \A x \in Message : InNet(x)' = InNet(x)
  BY <1>2 DEF InNet
<1> QED
  BY <1>2, <1>3, <1>4, <1>5, SameNet, CauseChanges

(* A command on the connection is answered, or handed to the engine. *)
LEMMA ReplyIs ==
  ASSUME Steered, NEW a \in net, NEW at \in {"asked", "accepted", "rejected"},
         at = "asked" => a.cmd.kind = "steer", Reply(a, at)
  PROVE  /\ NetKept
         /\ \A x \in Message :
              IF ~IsSteer(a.cmd, x) THEN InNet(x)' = InNet(x)
              ELSE InNet(x) = {a} => \E b : InNet(x)' = {b} /\ b.cmd = a.cmd /\ b.at = at
<1>1. net \subseteq NetRow /\ a \in NetRow /\ \A y \in net : (y.at = "asked" => y.cmd.kind = "steer")
  BY DEF Steered, TypeOK, CommandsOK, NetRow
<1>2. PICK b \in NetRow : b = [a EXCEPT !.at = at]
  BY <1>1 DEF NetRow
<1>3. b.cmd = a.cmd /\ b.at = at
  BY <1>1, <1>2 DEF NetRow
<1>4. net' = (net \ {a}) \cup {b}
  BY <1>2 DEF Reply
<1>5. NetKept
  BY <1>1, <1>3, <1>4 DEF NetKept
<1>6. ASSUME NEW x \in Message, ~IsSteer(a.cmd, x) PROVE InNet(x)' = InNet(x)
  BY <1>3, <1>4, <1>6 DEF InNet, IsSteer
<1>7. ASSUME NEW x \in Message, IsSteer(a.cmd, x), InNet(x) = {a} PROVE InNet(x)' = {b}
  <2>1. b \in InNet(x)'
    BY <1>3, <1>4, <1>7 DEF InNet, IsSteer
  <2>2. ASSUME NEW y \in InNet(x)' PROVE y = b
    <3>1. y \in net' /\ IsSteer(y.cmd, x)
      BY <2>2 DEF InNet, IsSteer
    <3>2. y \in net /\ y # a => y \in InNet(x)
      BY <3>1 DEF InNet
    <3> QED
      BY <1>4, <1>7, <3>1, <3>2
  <2> QED
    BY <2>1, <2>2
<1> QED
  BY <1>3, <1>5, <1>6, <1>7

LEMMA DeliverInterruptKeeps ==
  ASSUME Steered, DeliverInterrupt
  PROVE  Steered'
<1>1. /\ TypeOK /\ EngineOK /\ CommandsOK /\ run \in RunRow /\ attempt \in AttemptRow
  BY DEF Steered, TypeOK, RunRow, AttemptRow
<1>2. PICK a \in net :
        /\ a.at = "sent" /\ a.cmd.kind # "steer" /\ link
        /\ eng' = IF eng.phase # "none" /\ eng.cause # "lost" /\ Interrupts(a.cmd)
                  THEN [eng EXCEPT !.cause = "interrupted"] ELSE eng
        /\ Reply(a, "accepted")
        /\ UNCHANGED <<hostVars, native, link, asked, journal, heard, faults>>
  BY DEF DeliverInterrupt
<1>3. NetKept /\ \A x \in Message : InNet(x)' = InNet(x)
  BY <1>2, ReplyIs DEF IsSteer
<1>4. run' = run /\ attempt' = attempt
  BY <1>2 DEF hostVars
<1>5. CASE ~(eng.phase # "none" /\ eng.cause # "lost" /\ Interrupts(a.cmd))
  <2>1. eng' = eng /\ eng' \in EngineRow
    BY <1>1, <1>2, <1>5 DEF TypeOK, EngineRow
  <2>2. EngineOK'
    BY <1>1, <1>4, <2>1 DEF EngineOK, Idle
  <2> QED
    BY <1>2, <1>3, <2>1, <2>2, CauseChanges
<1>6. CASE eng.phase # "none" /\ eng.cause # "lost" /\ Interrupts(a.cmd)
  <2>1. /\ eng' \in EngineRow /\ eng'.run = eng.run /\ eng'.att = eng.att /\ eng'.phase = eng.phase
        /\ eng'.batch = eng.batch /\ eng'.cause = "interrupted"
    BY <1>1, <1>2, <1>6 DEF TypeOK, EngineRow
  <2>2. eng.att = attempt.n => run.stopped
    <3>1. SUFFICES ASSUME eng.att = attempt.n PROVE run.stopped
      OBVIOUS
    <3>2. eng.run = run.n /\ eng.run = a.cmd.run
      BY <1>1, <1>6, <3>1 DEF EngineOK, Interrupts
    <3>3. a.cmd \in CommandType /\ CommandOK(a.cmd)
      BY <1>1 DEF TypeOK, CommandsOK
    <3>4. a.cmd.kind # "restart"
      <4>1. SUFFICES ASSUME a.cmd.kind = "restart" PROVE FALSE
        OBVIOUS
      <4>2. a.cmd.gen = attempt.n /\ a.cmd.gen < attempt.n /\ attempt.n \in Int
        BY <1>1, <1>6, <3>1, <3>3, <4>1, SteerBounds DEF Interrupts, CommandOK, AttemptRow
      <4> QED
        BY <4>2
    <3>5. a.cmd.kind = "stop"
      BY <1>2, <3>3, <3>4 DEF CommandType
    <3> QED
      BY <3>2, <3>3, <3>5 DEF CommandOK
  <2>3. EngineOK'
    BY <1>1, <1>4, <1>6, <2>1, <2>2 DEF EngineOK
  <2> QED
    BY <1>2, <1>3, <2>1, <2>3, CauseChanges
<1> QED
  BY <1>5, <1>6

(* One message goes on: the engine is told it, or has answered. *)
LEMMA MessageMoves ==
  ASSUME Steered, NEW m \in Message, NetKept,
         UNCHANGED <<hostVars, native, link, eng, faults>>,
         asked' \in [Message -> 0..MaxAttempt], heard' \in [Message -> {0, 1}],
         \A x \in Message \ {m} :
           heard'[x] = heard[x] /\ asked'[x] = asked[x] /\ InNet(x)' = InNet(x),
         ~Untouched(m), asked[m] # 0 \/ InNet(m) # {},
         heard[m] = 1 => heard'[m] = 1, asked'[m] # 0 => heard'[m] = 0,
         \A b \in InNet(m)' : TravelOK(m, b)' /\ \E a \in InNet(m) : a.cmd = b.cmd,
         journal' = journal \/ \E e \in EventType : EventOK(e)' /\ journal' = Append(journal, e)
  PROVE  Steered'
<1>1. /\ TypeOK /\ EngineOK /\ \A x \in Message : ClaimOK(x) /\ PlaceOK(x)
      /\ input' = input /\ run' = run /\ attempt' = attempt /\ queue' = queue /\ sent' = sent
  BY DEF Steered, Messages, hostVars
<1>2. TypeOK'
  <2>1. eng' \in EngineRow /\ heard' \in [Message -> Nat]
    BY <1>1 DEF TypeOK, EngineRow
  <2> QED
    BY <2>1, RunnerTyped
<1>3. EngineOK'
  BY <1>1 DEF EngineOK, Idle
<1>4. JournalOK'
  <2>1. EventsOnward
    BY <1>1 DEF EventsOnward, Claims
  <2> QED
    BY <1>1, <1>2, <2>1, JournalGoesOn
<1>5. ASSUME NEW x \in Message PROVE ClaimOK(x)' /\ PlaceOK(x)'
  <2>1. InQueue(x)' = InQueue(x) /\ Loaded(x)' = Loaded(x)
    BY <1>1 DEF InQueue, Loaded
  <2>2. CASE x = m
    <3>1. ~Loaded(m) /\ input[m].state \notin {"pending", "cancelled"}
      BY <1>1 DEF PlaceOK
    <3>2. ~Claims(m, "restart") /\ ~(Claims(m, "steer") /\ input[m].cmd = "pending")
      BY <1>1 DEF ClaimOK, Claims
    <3>3. ClaimOK(m)'
      BY <1>1, <3>2 DEF ClaimOK, Claims
    <3>4. heard'[m] \in {0, 1} /\ (input[m].state = "delivered" => heard'[m] = 1)
      BY <1>1 DEF PlaceOK
    <3>5. ~Loaded(m)'
      BY <1>1, <3>1 DEF Loaded
    <3>6. PlaceOK(m)'
      BY <1>1, <3>1, <3>4, <3>5 DEF PlaceOK
    <3> QED
      BY <2>2, <3>3, <3>6
  <2>3. CASE x # m
    <3>1. Calm(x)
      BY <2>1, <2>3 DEF Calm
    <3>2. ClaimOK(x)'
      BY <1>1, <2>1, <3>1, ClaimStays
    <3>3. PlaceOK(x)'
      BY <1>1, <2>1, <3>1, PlaceStays DEF PlaceOK
    <3> QED
      BY <3>2, <3>3
  <2> QED
    BY <2>2, <2>3
<1>6. \A x \in Message : \A b \in InNet(x)' : \E a \in InNet(x) : a.cmd = b.cmd
  OBVIOUS
<1> QED
  BY <1>2, <1>3, <1>4, <1>5, <1>6, RunnerKeeps

LEMMA DeliverSteerKeeps ==
  ASSUME Steered, DeliverSteer
  PROVE  Steered'
<1>1. /\ TypeOK /\ EngineOK /\ \A x \in Message : PlaceOK(x)
      /\ \A y \in net : CommandOK(y.cmd)
  BY DEF Steered, Messages, CommandsOK
<1>2. PICK a \in net :
        /\ a.at = "sent" /\ a.cmd.kind = "steer" /\ link
        /\ IF eng.run = a.cmd.run /\ eng.phase = "running"
           THEN asked' = [asked EXCEPT ![a.cmd.msg] = eng.att] /\ Reply(a, "asked")
           ELSE UNCHANGED asked /\ Reply(a, "rejected")
        /\ UNCHANGED <<hostVars, native, link, eng, journal, heard, faults>>
  BY DEF DeliverSteer
<1>3. PICK m \in Message : IsSteer(a.cmd, m)
  BY <1>1, <1>2 DEF CommandOK, IsSteer
<1>4. InNet(m) = {a} /\ heard[m] = 0 /\ asked[m] = 0 /\ ~Untouched(m)
  <2>1. a \in InNet(m)
    BY <1>3 DEF InNet
  <2> QED
    BY <1>1, <1>2, <2>1 DEF PlaceOK, TravelOK, Untouched
<1>5. \A x \in Message \ {m} : ~IsSteer(a.cmd, x)
  BY <1>3 DEF IsSteer
<1>6. heard' \in [Message -> {0, 1}]
  BY <1>1, <1>2 DEF TypeOK, PlaceOK
<1>7. CASE eng.run = a.cmd.run /\ eng.phase = "running"
  <2>1. asked' = [asked EXCEPT ![m] = eng.att] /\ Reply(a, "asked")
    BY <1>2, <1>3, <1>7 DEF IsSteer
  <2>2. /\ NetKept /\ \A x \in Message \ {m} : InNet(x)' = InNet(x)
        /\ \E b : InNet(m)' = {b} /\ b.cmd = a.cmd /\ b.at = "asked"
    BY <1>2, <1>3, <1>4, <1>5, <2>1, ReplyIs
  <2>3. /\ asked' \in [Message -> 0..MaxAttempt] /\ asked'[m] = eng.att /\ eng.att # 0
        /\ \A x \in Message \ {m} : asked'[x] = asked[x]
    BY <1>1, <1>7, <2>1 DEF TypeOK, EngineOK
  <2>4. \A b \in InNet(m)' : TravelOK(m, b)' /\ \E y \in InNet(m) : y.cmd = b.cmd
    BY <1>2, <1>4, <2>2, <2>3 DEF TravelOK
  <2> QED
    BY <1>2, <1>4, <1>6, <2>2, <2>3, <2>4, MessageMoves
<1>8. CASE ~(eng.run = a.cmd.run /\ eng.phase = "running")
  <2>1. asked' = asked /\ Reply(a, "rejected")
    BY <1>2, <1>8
  <2>2. /\ NetKept /\ \A x \in Message \ {m} : InNet(x)' = InNet(x)
        /\ \E b : InNet(m)' = {b} /\ b.cmd = a.cmd /\ b.at = "rejected"
    BY <1>2, <1>3, <1>4, <1>5, <2>1, ReplyIs
  <2>3. asked' \in [Message -> 0..MaxAttempt]
    BY <1>1, <2>1 DEF TypeOK
  <2>4. \A b \in InNet(m)' : TravelOK(m, b)' /\ \E y \in InNet(m) : y.cmd = b.cmd
    BY <1>2, <1>4, <2>1, <2>2 DEF TravelOK
  <2> QED
    BY <1>2, <1>4, <1>6, <2>1, <2>2, <2>3, <2>4, MessageMoves
<1> QED
  BY <1>7, <1>8

(* The answer of the engine goes to the command that told it, if there is one. *)
LEMMA ToldIs ==
  ASSUME Steered, NEW m \in Message, NEW at \in {"accepted", "rejected", "uncertain"},
         Told(m, at), asked[m] # 0
  PROVE  /\ NetKept /\ \A x \in Message \ {m} : InNet(x)' = InNet(x)
         /\ \A b \in InNet(m)' :
              InNet(m)' = {b} /\ b.at = at /\ \E a \in InNet(m) : a.cmd = b.cmd
<1> DEFINE moved(a) == IF a.cmd.msg = m /\ a.at = "asked" THEN [a EXCEPT !.at = at] ELSE a
<1>1. /\ net \subseteq NetRow /\ \A y \in net : (y.at = "asked" => y.cmd.kind = "steer")
      /\ PlaceOK(m)
  BY DEF Steered, Messages, TypeOK, CommandsOK, NetRow
<1>2. net' = {moved(a) : a \in net}
  BY DEF Told
<1>3. ASSUME NEW a \in net
      PROVE  /\ moved(a) \in NetRow /\ moved(a).cmd = a.cmd
             /\ moved(a).at = "asked" => a.at = "asked"
             /\ IsSteer(a.cmd, m) /\ a.at = "asked" => moved(a).at = at
             /\ ~IsSteer(a.cmd, m) => moved(a) = a
  <2>1. a \in NetRow
    BY <1>1
  <2> QED
    BY <1>1, <2>1 DEF NetRow, IsSteer
<1> HIDE DEF moved
<1>4. NetKept
  <2>1. \A b \in net' : \E a \in net : b = moved(a)
    BY <1>2
  <2> QED
    BY <1>1, <1>3, <2>1 DEF NetKept
<1>5. ASSUME NEW x \in Message \ {m} PROVE InNet(x)' = InNet(x)
  <2>1. \A a \in net : IsSteer(a.cmd, x) => moved(a) = a
    BY <1>3 DEF IsSteer
  <2>2. ASSUME NEW b \in InNet(x)' PROVE b \in InNet(x)
    <3>1. PICK a \in net : b = moved(a) /\ IsSteer(b.cmd, x)
      BY <1>2, <2>2 DEF InNet, IsSteer
    <3>2. IsSteer(a.cmd, x)
      BY <1>3, <3>1 DEF IsSteer
    <3> QED
      BY <2>1, <3>1, <3>2 DEF InNet
  <2>3. ASSUME NEW a \in InNet(x) PROVE a \in InNet(x)'
    <3>1. a \in net /\ IsSteer(a.cmd, x) /\ moved(a) = a
      BY <2>1 DEF InNet
    <3>2. a \in net'
      BY <1>2, <3>1
    <3> QED
      BY <3>1, <3>2 DEF InNet, IsSteer
  <2> QED
    BY <2>2, <2>3
<1>6. ASSUME NEW b \in InNet(m)'
      PROVE  InNet(m)' = {b} /\ b.at = at /\ \E a \in InNet(m) : a.cmd = b.cmd
  <2>1. ASSUME NEW c \in InNet(m)' PROVE \E a \in InNet(m) : c = moved(a)
    <3>1. PICK a \in net : c = moved(a) /\ IsSteer(c.cmd, m)
      BY <1>2, <2>1 DEF InNet, IsSteer
    <3>2. IsSteer(a.cmd, m)
      BY <1>3, <3>1 DEF IsSteer
    <3> QED
      BY <3>1, <3>2 DEF InNet
  <2>2. PICK a \in InNet(m) : b = moved(a)
    BY <2>1
  <2>3. InNet(m) = {a} /\ a.at = "asked" /\ a \in net /\ IsSteer(a.cmd, m)
    BY <1>1, <2>2 DEF PlaceOK, TravelOK, InNet
  <2>4. \A c \in InNet(m)' : c = b
    BY <2>1, <2>2, <2>3
  <2> QED
    BY <1>3, <2>2, <2>3, <2>4
<1> QED
  BY <1>4, <1>5, <1>6

(* The engine has answered what it was told. *)
LEMMA EngineAnswers ==
  ASSUME Steered, NEW m \in Message, NEW at \in {"accepted", "rejected", "uncertain"},
         Told(m, at), asked[m] # 0, asked' = [asked EXCEPT ![m] = 0],
         NEW took \in {0, 1}, heard' = [heard EXCEPT ![m] = @ + took],
         at = "accepted" => took = 1, at = "rejected" => took = 0,
         UNCHANGED <<hostVars, native, link, eng, faults>>,
         journal' = journal \/ \E e \in EventType : EventOK(e)' /\ journal' = Append(journal, e)
  PROVE  Steered'
<1>1. TypeOK /\ \A x \in Message : PlaceOK(x)
  BY DEF Steered, Messages
<1>2. heard[m] = 0 /\ ~Untouched(m)
  BY <1>1 DEF PlaceOK, Untouched
<1>3. /\ NetKept /\ \A x \in Message \ {m} : InNet(x)' = InNet(x)
      /\ \A b \in InNet(m)' :
           InNet(m)' = {b} /\ b.at = at /\ \E a \in InNet(m) : a.cmd = b.cmd
  BY ToldIs
<1>4. /\ heard' \in [Message -> {0, 1}] /\ heard'[m] = took
      /\ \A x \in Message \ {m} : heard'[x] = heard[x]
  <2>1. heard \in [Message -> {0, 1}]
    BY <1>1 DEF TypeOK, PlaceOK
  <2>2. heard' = [heard EXCEPT ![m] = took]
    BY <1>2, <2>1
  <2> QED
    BY <2>1, <2>2
<1>5. /\ asked' \in [Message -> 0..MaxAttempt] /\ asked'[m] = 0
      /\ \A x \in Message \ {m} : asked'[x] = asked[x]
  <2>1. 0 \in 0..MaxAttempt
    BY SteerBounds
  <2> QED
    BY <1>1, <2>1 DEF TypeOK
<1>6. \A b \in InNet(m)' : TravelOK(m, b)' /\ \E a \in InNet(m) : a.cmd = b.cmd
  BY <1>3, <1>4, <1>5 DEF TravelOK
<1> QED
  BY <1>2, <1>3, <1>4, <1>5, <1>6, MessageMoves

LEMMA EngineTakesKeeps ==
  ASSUME Steered, NEW m \in Message, EngineTakes(m)
  PROVE  Steered'
<1>1. /\ asked[m] # 0 /\ asked' = [asked EXCEPT ![m] = 0]
      /\ heard' = [heard EXCEPT ![m] = @ + 1]
      /\ journal' = IF eng.att = asked[m] THEN Append(journal, Event("injected", m, eng.att)) ELSE journal
      /\ Told(m, "accepted")
      /\ UNCHANGED <<hostVars, native, link, eng, faults>>
  BY DEF EngineTakes
<1>2. /\ TypeOK /\ EngineOK /\ PlaceOK(m) /\ attempt \in AttemptRow
      /\ run' = run /\ attempt' = attempt
  BY <1>1 DEF Steered, Messages, TypeOK, AttemptRow, hostVars
<1>3. heard'[m] = 1
  BY <1>1, <1>2 DEF TypeOK, PlaceOK
<1>4. journal' = journal \/ \E e \in EventType : EventOK(e)' /\ journal' = Append(journal, e)
  <2>1. SUFFICES ASSUME eng.att = asked[m]
                 PROVE  \E e \in EventType : EventOK(e)' /\ journal' = Append(journal, e)
    BY <1>1
  <2>2. eng.phase # "none"
    BY <1>1, <1>2, <2>1 DEF EngineOK, Idle
  <2>3. eng.att \in 1..MaxAttempt /\ eng.att <= attempt.n /\ (eng.att = attempt.n => attempt.sent)
    <3>1. eng.att \in 1..attempt.n /\ (eng.att = attempt.n => attempt.sent)
      BY <1>2, <2>2 DEF EngineOK
    <3> QED
      BY <1>2, <3>1, SteerBounds DEF AttemptRow
  <2>4. PICK e \in EventType : e = Event("injected", m, eng.att)
    BY <2>3 DEF Event, EventType
  <2>5. e.type = "injected" /\ e.msg = m /\ e.att = eng.att
    BY <2>4 DEF Event
  <2>6. EventOK(e)'
    BY <1>2, <1>3, <2>3, <2>5 DEF EventOK
  <2> QED
    BY <1>1, <2>1, <2>4, <2>6
<1> QED
  BY <1>1, <1>4, EngineAnswers

LEMMA EngineRefusesKeeps ==
  ASSUME Steered, NEW m \in Message, EngineRefuses(m)
  PROVE  Steered'
<1>1. /\ asked[m] # 0 /\ asked' = [asked EXCEPT ![m] = 0] /\ Told(m, "rejected")
      /\ UNCHANGED <<hostVars, native, link, eng, journal, heard, faults>>
  BY DEF EngineRefuses
<1>2. heard' = [heard EXCEPT ![m] = @ + 0]
  BY <1>1 DEF Steered, TypeOK
<1> QED
  BY <1>1, <1>2, EngineAnswers

LEMMA EngineUnsureKeeps ==
  ASSUME Steered, NEW m \in Message, EngineUnsure(m)
  PROVE  Steered'
<1>1. /\ asked[m] # 0 /\ asked' = [asked EXCEPT ![m] = 0] /\ Told(m, "uncertain")
      /\ UNCHANGED <<hostVars, native, link, eng, journal, faults>>
  BY DEF EngineUnsure
<1>2. PICK took \in {0, 1} : heard' = [heard EXCEPT ![m] = @ + took]
  BY DEF EngineUnsure
<1> QED
  BY <1>1, <1>2, EngineAnswers

-----------------------------------------------------------------------------
(* 10. The theorems. *)

LEMMA SteeredInitially ==
  ASSUME Init PROVE Steered
<1>1. /\ 0 \in 0..MaxRun /\ 1 \in 1..MaxRun /\ 0 \in 0..MaxAttempt /\ 1 \in 1..MaxAttempt
      /\ 0 \in 0..MaxFault
  BY SteerBounds
<1>2. /\ input = [m \in Message |-> Waiting] /\ run = Queued(1) /\ attempt = First(1)
      /\ queue = <<>> /\ sent = FALSE /\ native \in BOOLEAN /\ link = TRUE /\ net = {} /\ eng = Idle
      /\ asked = [m \in Message |-> 0] /\ journal = <<>> /\ heard = [m \in Message |-> 0] /\ faults = 0
  BY DEF Init
<1>3. /\ <<>> \in Seq(CommandType) /\ <<>> \in Seq(EventType) /\ DOMAIN <<>> = {} /\ ToSet(<<>>) = {}
  BY DEF ToSet
<1>4. Waiting \in InputRow /\ Queued(1) \in RunRow /\ First(1) \in AttemptRow
  BY <1>1 DEF Waiting, Queued, First, InputRow, RunRow, AttemptRow
<1>5. TypeOK
  <2>1. /\ input \in [Message -> InputRow] /\ run \in RunRow /\ attempt \in AttemptRow /\ eng \in EngineRow
        /\ asked \in [Message -> 0..MaxAttempt] /\ heard \in [Message -> Nat] /\ faults \in 0..MaxFault
    BY <1>1, <1>2, <1>4, IdleTyped
  <2>2. /\ \A c \in ToSet(queue) : c \in CommandType
        /\ sent \in BOOLEAN /\ ~sent /\ native \in BOOLEAN /\ link \in BOOLEAN /\ net = {}
    BY <1>2, <1>3
  <2> QED
    BY <2>1, <2>2 DEF TypeOK, InputRow, RunRow, AttemptRow, EngineRow
<1>6. RunOK
  BY <1>2 DEF RunOK, Queued, First
<1>7. CommandsOK /\ JournalOK /\ QueueOK
  BY <1>2, <1>3 DEF CommandsOK, JournalOK, QueueOK
<1>8. EngineOK
  BY <1>2 DEF EngineOK, Idle
<1>9. ASSUME NEW m \in Message PROVE ClaimOK(m) /\ PlaceOK(m)
  BY <1>2, <1>3 DEF ClaimOK, PlaceOK, Untouched, InQueue, InNet, Loaded, Waiting, Idle
<1> QED
  BY <1>5, <1>6, <1>7, <1>8, <1>9 DEF Steered, Messages

LEMMA NextKeepsSteered ==
  ASSUME Steered, [Next]_vars PROVE Steered'
<1>1. ASSUME NEW m \in Message, Steer(m) PROVE Steered'
  BY <1>1, SteerKeeps
<1>2. ASSUME NEW m \in Message, Withdraw(m) PROVE Steered'
  BY <1>2, WithdrawKeeps
<1>3. ASSUME NEW m \in Message, EngineTakes(m) PROVE Steered'
  BY <1>3, EngineTakesKeeps
<1>4. ASSUME NEW m \in Message, EngineRefuses(m) PROVE Steered'
  BY <1>4, EngineRefusesKeeps
<1>5. ASSUME NEW m \in Message, EngineUnsure(m) PROVE Steered'
  BY <1>5, EngineUnsureKeeps
<1>6. CASE Stop
  BY <1>6, StopKeeps
<1>7. CASE NextRun
  BY <1>7, NextRunKeeps
<1>8. CASE Execute
  BY <1>8, ExecuteKeeps
<1>9. CASE Dispatch
  BY <1>9, DispatchKeeps
<1>10. CASE HearAnswer
  BY <1>10, HearAnswerKeeps
<1>11. CASE DeliverInterrupt
  BY <1>11, DeliverInterruptKeeps
<1>12. CASE DeliverSteer
  BY <1>12, DeliverSteerKeeps
<1>13. CASE Start
  BY <1>13, StartKeeps
<1>14. CASE Finishes
  BY <1>14, FinishesKeeps
<1>15. CASE LeaseLost
  BY <1>15, LeaseLostKeeps
<1>16. CASE Stopped
  BY <1>16, StoppedKeeps
<1>17. CASE Terminal
  BY <1>17, TerminalKeeps
<1>18. CASE CommitEvent
  BY <1>18, CommitEventKeeps
<1>19. CASE Disconnect
  BY <1>19, DisconnectKeeps
<1>20. CASE Crash
  BY <1>20, CrashKeeps
<1>21. CASE Reconnect
  BY <1>21, ReconnectKeeps
<1>22. CASE UNCHANGED vars
  <2>1. /\ UNCHANGED hostVars /\ native' = native /\ link' = link /\ journal' = journal
        /\ UNCHANGED <<net, eng, asked, heard, faults>>
    BY <1>22 DEF vars, hostVars, runnerVars
  <2>2. native' \in BOOLEAN /\ link' \in BOOLEAN
    BY <2>1 DEF Steered, TypeOK
  <2> QED
    BY <2>1, <2>2, TablesStayKeeps
<1> QED
  BY <1>1, <1>2, <1>3, <1>4, <1>5, <1>6, <1>7, <1>8, <1>9, <1>10, <1>11, <1>12, <1>13, <1>14,
     <1>15, <1>16, <1>17, <1>18, <1>19, <1>20, <1>21, <1>22 DEF Next

(* Wherever a message is, its row in the tables says no more than what is true
   of it, and the attempt, the engine and the journal agree about whose turn it
   is (the inductive invariant of steering). *)
THEOREM SteeredHolds == Spec => []Steered
<1>1. Init => Steered
  BY SteeredInitially
<1>2. Steered /\ [Next]_vars => Steered'
  BY NextKeepsSteered
<1> QED
  BY <1>1, <1>2, PTL DEF Spec

LEMMA SteeredTells ==
  ASSUME Steered PROVE Receipts /\ KeptTogether
<1>1. TypeOK /\ RunOK /\ \A m \in Message : ClaimOK(m) /\ PlaceOK(m)
  BY DEF Steered, Messages
<1>2. HeardOnce
  BY <1>1 DEF HeardOnce, PlaceOK
<1>3. TrueReceipts
  BY <1>1 DEF TrueReceipts, PlaceOK, Untouched
<1>4. NoneStranded
  BY <1>1 DEF NoneStranded, ClaimOK
<1>5. RestartKeepsRun
  BY <1>1 DEF RestartKeepsRun, RunOK
<1> QED
  BY <1>1, <1>2, <1>3, <1>4, <1>5 DEF Receipts, KeptTogether

(* No message is heard twice, however it travels and whatever is lost on the
   way; one shown as delivered was heard, and one that waits or was withdrawn was
   not (settleSteer, settleOutstandingSteersForRun, commitRunnerEvent). *)
THEOREM ReceiptsAlways == Spec => []Receipts
<1>1. Steered => Receipts
  BY SteeredTells
<1> QED
  BY <1>1, SteeredHolds, PTL

(* No message stays claimed for a Run that has ended, and no interrupt that a
   restart sent ever ends the Run (cleanupRunAttemptTransaction, the fence of
   the interrupt in the Runner's #interrupt). *)
THEOREM KeptTogetherAlways == Spec => []KeptTogether
<1>1. Steered => KeptTogether
  BY SteeredTells
<1> QED
  BY <1>1, SteeredHolds, PTL

====
