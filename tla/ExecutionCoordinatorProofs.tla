--------------------- MODULE ExecutionCoordinatorProofs ---------------------
(***************************************************************************)
(* The execution coordinator, for every number of commands, slots and      *)
(* rejections, every set of Threads and every size of its queue.           *)
(*                                                                         *)
(* RetriesArePaced speaks of one step, the claim, and the claim does not   *)
(* look at the back-off: the pump did, some steps before.  So Paced        *)
(* follows a rejected command from its rejection on (it is not taken to be *)
(* claimed while its entry says so), Noted says that a listing in flight   *)
(* cannot cost it its entry, and History what that takes: that a command   *)
(* which was claimed once is the next one of its Thread for good, so that  *)
(* while it is pending every listing names it, unless it is excused.       *)
(***************************************************************************)
EXTENDS ExecutionCoordinator, FiniteSetTheorems, SequenceTheorems, WellFoundedInduction, TLAPS

-----------------------------------------------------------------------------
(* 1. The invariant. *)

(* The row of a command and the stage of its dispatch.                     *)
Staged(c) ==
  /\ stage[c] = "dispatching" => status[c] \in {"dispatched", "over"}
  /\ stage[c] = "retried" => status[c] \in {"pending", "over"}

(* The history of a command that was not rejected since it was accepted.   *)
Clean(c) == rejected[c] = 0 /\ c \notin owed

(* A command that was claimed was the next one of its Thread, and what was *)
(* before it is over for good.                                             *)
WasClaimed(c) == stage[c] \in {"dispatching", "retried"} \/ ~Clean(c)
NextOfThread(c) ==
  IsRun[c] => \A d \in Command : d < c /\ IsRun[d] /\ ThreadOf[d] = ThreadOf[c]
                                  => status[d] = "over"

History(c) ==
  /\ c \in paused => IsRun[c]
  /\ status[c] = "none" => Clean(c) /\ backoff[c].attempts = 0
  /\ c \in paused \ excused => ~WasClaimed(c)
  /\ WasClaimed(c) => NextOfThread(c)

(* What paces the next claim of c: while it may not be claimed, it is not  *)
(* being claimed, and its entry says so.                                   *)
Paced(c) ==
  c \in owed => /\ status[c] \in {"pending", "over"}
                /\ status[c] = "pending" => /\ stage[c] \in {"none", "retried"}
                                            /\ stage[c] = "none" => ~backoff[c].elapsed

(* The entry of a command counts its rejections, but for the one that was  *)
(* committed and is not recorded yet.  Of a command that was dispatched a  *)
(* poll may have dropped the entry.                                        *)
Uncounted(c) == IF stage[c] = "retried" THEN 1 ELSE 0
Counted(c) ==
  \/ status[c] = "pending"
  \/ status[c] = "dispatched" /\ stage[c] = "dispatching"
  => backoff[c].attempts + Uncounted(c) = rejected[c]

(* The listing that was read names what has an entry to keep, or the entry *)
(* is younger than the poll.                                               *)
Noted(c) ==
  reads.phase = "read" /\ status[c] = "pending" /\ stage[c] \in {"none", "claiming"} /\ ~Clean(c)
    => c \in ToSet(reads.listing) \/ backoff[c].fresh

(* All that is known of a command.                                         *)
Known(c) ==
  /\ Staged(c) /\ History(c)
  /\ backoff[c].attempts + Uncounted(c) <= rejected[c]
  /\ c \notin excused => Paced(c) /\ Counted(c) /\ Noted(c)

(* A coordinator that was stopped has nothing that goes on.                *)
Quiet ==
  /\ life # "on" => ~timer
  /\ OffIsQuiet
  /\ life = "off" => owed = {}

Inv == TypeOK /\ (\A c \in Command : Known(c)) /\ Quiet

-----------------------------------------------------------------------------
(* 2. What is left of a sequence: as in RunnerProcessProofs, so far as the *)
(* types need it.                                                          *)

(* Places of a sequence can be counted, and are no more than its elements. *)
LEMMA CountOfPlaces ==
  ASSUME NEW n \in Nat, NEW K, K \subseteq 1..n
  PROVE  /\ IsFiniteSet(K) /\ Cardinality(K) \in Nat /\ Cardinality(K) <= n
         /\ K \subseteq Int
<1>1. IsFiniteSet(1..n) /\ Cardinality(1..n) = n
  BY FS_Interval
<1>2. K \in SUBSET (1..n)
  OBVIOUS
<1>3. IsFiniteSet(K) /\ Cardinality(K) <= Cardinality(1..n)
  BY <1>1, <1>2, FS_Subset
<1>4. Cardinality(K) \in Nat
  BY <1>3, FS_CardinalityType
<1>5. K \subseteq Int
  OBVIOUS
<1> QED
  BY <1>1, <1>3, <1>4, <1>5

(* Every number up to their count is that of one of the places. *)
LEMMA PlaceIs ==
  ASSUME NEW n \in Nat, NEW K, K \subseteq 1..n, NEW i \in 1..Cardinality(K)
  PROVE  Place(K, i) \in K /\ Cardinality({j \in K : j < Place(K, i)}) = i - 1
<1> DEFINE Before(k) == {j \in K : j < k}
           c == Cardinality(K)
<1>1. IsFiniteSet(K) /\ c \in Nat /\ K \subseteq Int
  BY CountOfPlaces
<1>2. ASSUME NEW k \in K
      PROVE  /\ IsFiniteSet(Before(k)) /\ Cardinality(Before(k)) \in 0..(c - 1)
  <2>1. Before(k) \in SUBSET K /\ k \notin Before(k)
    OBVIOUS
  <2>2. /\ IsFiniteSet(Before(k)) /\ Cardinality(Before(k)) <= c
        /\ c = Cardinality(Before(k)) => K = Before(k)
    BY <1>1, <2>1, FS_Subset
  <2>3. Cardinality(Before(k)) \in Nat
    BY <2>2, FS_CardinalityType
  <2> HIDE DEF Before, c
  <2>4. Cardinality(Before(k)) # c
    BY <1>2, <2>1, <2>2
  <2> QED
    BY <1>1, <2>2, <2>3, <2>4
<1>3. ASSUME NEW k \in K, NEW l \in K, k < l
      PROVE  Cardinality(Before(k)) # Cardinality(Before(l))
  <2>1. Before(k) \in SUBSET Before(l) /\ k \in Before(l) /\ k \notin Before(k)
    <3>1. K \subseteq Int /\ k \in Int /\ l \in Int
      BY <1>1
    <3>2. \A x \in K : x < k => x < l
      BY <1>3, <3>1
    <3>3. ~(k < k)
      BY <3>1
    <3> QED
      BY <1>3, <3>2, <3>3
  <2>2. IsFiniteSet(Before(l))
    BY <1>2
  <2>3. Cardinality(Before(l)) = Cardinality(Before(k)) => Before(l) = Before(k)
    BY <2>1, <2>2, FS_Subset
  <2> QED
    BY <2>1, <2>3
<1>4. \E k \in K : Cardinality(Before(k)) = i - 1
  <2> SUFFICES ASSUME \A k \in K : Cardinality(Before(k)) # i - 1 PROVE FALSE
    OBVIOUS
  <2> DEFINE T == (0..(c - 1)) \ {i - 1}
             f == [k \in K |-> Cardinality(Before(k))]
  <2>1. f \in [K -> T]
    BY <1>2
  <2>2. IsFiniteSet(T) /\ Cardinality(T) = c - 1
    <3>1. IsFiniteSet(0..(c - 1)) /\ Cardinality(0..(c - 1)) = c /\ i - 1 \in 0..(c - 1)
      <4>1. i \in 1..c
        OBVIOUS
      <4> HIDE DEF c
      <4>2. 0 \in Int /\ c - 1 \in Int
        BY <1>1
      <4>3. /\ IsFiniteSet(0..(c - 1))
            /\ Cardinality(0..(c - 1)) = IF 0 > c - 1 THEN 0 ELSE (c - 1) - 0 + 1
        BY <4>2, FS_Interval
      <4> QED
        BY <1>1, <4>1, <4>3
    <3>2. /\ IsFiniteSet((0..(c - 1)) \ {i - 1})
          /\ Cardinality((0..(c - 1)) \ {i - 1})
             = IF i - 1 \in 0..(c - 1) THEN Cardinality(0..(c - 1)) - 1 ELSE Cardinality(0..(c - 1))
      BY <3>1, FS_RemoveElement
    <3> QED
      BY <3>1, <3>2
  <2>3. Cardinality(T) < Cardinality(K)
    <3> HIDE DEF T
    <3> QED
      BY <1>1, <2>2
  <2>4. \E k, l \in K : k # l /\ f[k] = f[l]
    <3> HIDE DEF T, f, c
    <3> QED
      BY <1>1, <2>1, <2>2, <2>3, FS_PigeonHole
  <2>5. PICK k \in K, l \in K : k # l /\ Cardinality(Before(k)) = Cardinality(Before(l))
    BY <2>4
  <2>6. k \in Int /\ l \in Int
    OBVIOUS
  <2> HIDE DEF Before
  <2>7. k < l \/ l < k
    BY <2>5, <2>6
  <2> QED
    BY <1>3, <2>5, <2>7
<1> QED
  BY <1>4 DEF Place

(* A subsequence has elements of the sequence, and no more of them.        *)
LEMMA SubsequenceIs ==
  ASSUME NEW S, NEW s \in Seq(S), NEW K, K \subseteq 1..Len(s)
  PROVE  Subsequence(s, K) \in Seq(S) /\ Len(Subsequence(s, K)) <= Len(s)
<1> DEFINE c == Cardinality(K)
<1>1. /\ Len(s) \in Nat /\ \A k \in 1..Len(s) : s[k] \in S
  BY LenProperties, ElementOfSeq
<1>2. c \in Nat /\ c <= Len(s)
  BY <1>1, CountOfPlaces
<1>3. \A i \in 1..c : s[Place(K, i)] \in S
  BY <1>1, PlaceIs
<1>4. Subsequence(s, K) = [i \in 1..c |-> s[Place(K, i)]]
  BY DEF Subsequence
<1> HIDE DEF c
<1> QED
  BY <1>2, <1>3, <1>4, IsASeq

(* So has what Omit leaves.                                                *)
LEMMA OmitIs ==
  ASSUME NEW S, NEW s \in Seq(S), NEW T
  PROVE  Omit(s, T) \in Seq(S) /\ Len(Omit(s, T)) <= Len(s)
<1> DEFINE K == {k \in DOMAIN s : s[k] \notin T}
<1>1. K \subseteq 1..Len(s)
  BY LenProperties
<1> HIDE DEF K
<1> QED
  BY <1>1, SubsequenceIs DEF Omit, K

(* The first elements of a sequence, up to n.                              *)
LEMMA FirstIs ==
  ASSUME NEW S, NEW s \in Seq(S), NEW n \in Nat
  PROVE  LET t == SubSeq(s, 1, IF Len(s) < n THEN Len(s) ELSE n)
         IN  t \in Seq(S) /\ Len(t) \in Nat /\ Len(t) <= n
<1> DEFINE m == IF Len(s) < n THEN Len(s) ELSE n
<1>1. Len(s) \in Nat /\ m \in Int /\ m <= n /\ m <= Len(s) /\ m \in Nat
  BY LenProperties
<1>2. \A i \in 1..m : s[i] \in S
  BY <1>1, ElementOfSeq
<1> HIDE DEF m
<1>3. SubSeq(s, 1, m) \in Seq(S) /\ Len(SubSeq(s, 1, m)) = IF 1 <= m THEN m - 1 + 1 ELSE 0
  BY <1>1, <1>2, SubSeqProperties
<1>4. Len(SubSeq(s, 1, m)) = m
  BY <1>1, <1>3
<1> QED
  BY <1>1, <1>3, <1>4 DEF m

-----------------------------------------------------------------------------
(* 3. The pump. *)

(* A back-off, the stages of a dispatch, and what takes a slot.            *)
Entry == [attempts : 0..MaxRejection, elapsed : BOOLEAN, fresh : BOOLEAN]
Stage == {"none", "claiming", "dispatching", "retried"}
Busy(st) == {c \in Command : st[c] # "none"}
OfKind(S, kind) == {c \in S : KindOf(c) = kind}

(* The slots of each kind, as TypeOK has them.                             *)
Slots == \A kind \in Kind : Cardinality({c \in Dispatching : KindOf(c) = kind}) <= Room(kind)

(* Sets of commands can be counted.                                        *)
LEMMA Counts ==
  /\ IsFiniteSet(Command)
  /\ \A S \in SUBSET Command : IsFiniteSet(S) /\ Cardinality(S) \in Nat
<1>1. IsFiniteSet(Command)
  BY CoordinatorAssumption, FS_Interval DEF Command
<1> QED
  BY <1>1, FS_Subset, FS_CardinalityType

(* Each kind has its slots.                                                *)
LEMMA Rooms == \A kind \in Kind : Room(kind) \in Nat
  BY CoordinatorAssumption DEF Room, Kind

(* Of the commands that are taken from a queue one is the last, and the    *)
(* others stand before it.                                                 *)
LEMMA LastTaken ==
  ASSUME NEW q \in Seq(Command), NEW T, T \subseteq ToSet(q), T # {}
  PROVE  \E i \in DOMAIN q : q[i] \in T /\ \A t \in T : t # q[i] => \E j \in 1..i - 1 : q[j] = t
<1> DEFINE n == Len(q)
           M == {m \in Nat : \A i \in 1..n : q[i] \in T => i <= m}
<1>1. n \in Nat /\ DOMAIN q = 1..n
  BY LenProperties
<1>2. \A t \in T : \E i \in 1..n : q[i] = t
  BY <1>1 DEF ToSet
<1> HIDE DEF n
<1>3. n \in M
  BY <1>1
<1>4. \E m \in M : \A k \in M : ~(<<k, m>> \in OpToRel(<, Nat))
  <2>1. M \subseteq Nat /\ M # {}
    BY <1>3
  <2> HIDE DEF M
  <2> QED
    BY <2>1, WFMin, NatLessThanWellFounded
<1>5. PICK m \in M : \A k \in M : ~(k < m)
  <2>1. M \subseteq Nat
    OBVIOUS
  <2> HIDE DEF M
  <2> QED
    BY <1>4, <2>1 DEF OpToRel
<1>6. m \in Nat /\ m <= n /\ \A i \in 1..n : q[i] \in T => i <= m
  BY <1>1, <1>3, <1>5
<1>7. m \in 1..n /\ q[m] \in T
  <2> SUFFICES ASSUME ~(m \in 1..n /\ q[m] \in T) PROVE FALSE
    OBVIOUS
  <2>1. \A i \in 1..n : q[i] \in T => i <= m - 1
    BY <1>1, <1>6
  <2>2. m # 0
    BY <1>1, <1>2, <1>6
  <2>3. m - 1 \in M
    BY <1>6, <2>1, <2>2
  <2> QED
    BY <1>5, <1>6, <2>3
<1>8. ASSUME NEW t \in T, t # q[m] PROVE \E j \in 1..m - 1 : q[j] = t
  <2>1. PICK j \in 1..n : q[j] = t
    BY <1>2
  <2>2. j <= m /\ j # m
    BY <1>6, <1>8, <2>1
  <2>3. j \in 1..m - 1
    BY <1>1, <1>6, <2>2
  <2> QED
    BY <2>1, <2>3
<1> QED
  BY <1>1, <1>7, <1>8

(* The pump takes no more than there are slots, and only what its back-off *)
(* lets go.                                                                *)
LEMMA PumpIs ==
  ASSUME NEW q \in Seq(Command), Len(q) <= MaxQueued, NEW st \in [Command -> Stage],
         \A kind \in Kind : Cardinality(OfKind(Busy(st), kind)) <= Room(kind),
         Pump(q, st)
  PROVE  /\ queue' \in Seq(Command) /\ Len(queue') <= MaxQueued
         /\ stage' \in [Command -> Stage] /\ Slots'
         /\ \A c \in Command :
              stage'[c] # st[c] => /\ st[c] = "none" /\ stage'[c] = "claiming"
                                   /\ backoff'[c].elapsed
<1>1. PICK T \in SUBSET ToSet(q) :
        /\ Taken(q, Busy(st), T) /\ queue' = Omit(q, T)
        /\ stage' = [c \in Command |-> IF c \in T THEN "claiming" ELSE st[c]]
  BY DEF Pump, Busy
<1>2. queue' \in Seq(Command) /\ Len(queue') <= MaxQueued
  <2>1. Len(q) \in Nat /\ Len(queue') \in Nat /\ MaxQueued \in Nat
    BY <1>1, OmitIs, LenProperties, CoordinatorAssumption
  <2> QED
    BY <1>1, <2>1, OmitIs
<1>3. T \subseteq Command /\ \A t \in T : \E i \in DOMAIN q : q[i] = t
  BY ElementOfSeq, LenProperties DEF ToSet
<1> DEFINE Before(i) == Busy(st) \cup {c \in T : \E j \in 1..i - 1 : q[j] = c}
<1>4. ASSUME NEW i \in DOMAIN q, q[i] \in T PROVE life = "on" /\ Eligible(q[i], Before(i))
  BY <1>1, <1>4 DEF Taken
<1>5. \A t \in T : st[t] = "none" /\ backoff'[t].elapsed
  <2> SUFFICES ASSUME NEW t \in T PROVE st[t] = "none" /\ backoff'[t].elapsed
    OBVIOUS
  <2>1. PICK i \in DOMAIN q : q[i] = t
    BY <1>3
  <2>2. t \notin Busy(st) /\ backoff'[t].elapsed
    BY <1>4, <2>1 DEF Eligible
  <2> QED
    BY <1>3, <2>2 DEF Busy
<1>6. stage' \in [Command -> Stage]
  BY <1>1 DEF Stage
<1>7. Dispatching' = Busy(st) \cup T
  BY <1>1, <1>3 DEF Dispatching, Busy
<1>8. ASSUME NEW kind \in Kind
      PROVE  Cardinality(OfKind(Busy(st) \cup T, kind)) <= Room(kind)
  <2>1. CASE OfKind(T, kind) = {}
    <3>1. OfKind(Busy(st) \cup T, kind) = OfKind(Busy(st), kind)
      BY <2>1 DEF OfKind
    <3> QED
      BY <1>8, <3>1
  <2>2. CASE OfKind(T, kind) # {}
    <3>1. PICK i \in DOMAIN q :
            /\ q[i] \in OfKind(T, kind)
            /\ \A t \in OfKind(T, kind) : t # q[i] => \E j \in 1..i - 1 : q[j] = t
      <4>1. OfKind(T, kind) \subseteq ToSet(q)
        BY DEF OfKind
      <4> QED
        BY <2>2, <4>1, LastTaken
    <3> DEFINE B == OfKind(Before(i), kind)
    <3>2. q[i] \in T /\ KindOf(q[i]) = kind
      BY <3>1 DEF OfKind
    <3>3. Cardinality(B) < Room(kind)
      <4>1. Cardinality({d \in Before(i) : KindOf(d) = KindOf(q[i])}) < Room(KindOf(q[i]))
        BY <1>4, <3>2 DEF Eligible
      <4> QED
        BY <3>2, <4>1 DEF OfKind
    <3>4. OfKind(Busy(st) \cup T, kind) = B \cup {q[i]}
      BY <3>1, <3>2 DEF OfKind
    <3>5. B \in SUBSET Command
      BY <1>3 DEF OfKind, Busy
    <3> HIDE DEF B
    <3>6. IsFiniteSet(B) /\ Cardinality(B) \in Nat
      BY <3>5, Counts
    <3>7. Cardinality(B \cup {q[i]}) \in {Cardinality(B), Cardinality(B) + 1}
      BY <3>6, FS_AddElement, Zenon
    <3>8. Room(kind) \in Nat
      BY <1>8, Rooms
    <3>9. Cardinality(B \cup {q[i]}) <= Room(kind)
      BY <3>3, <3>6, <3>7, <3>8
    <3> QED
      BY <3>4, <3>9
  <2> QED
    BY <2>1, <2>2
<1>9. Slots'
  BY <1>7, <1>8 DEF Slots, OfKind
<1>10. \A c \in Command : stage'[c] = IF c \in T THEN "claiming" ELSE st[c]
  BY <1>1
<1> QED
  BY <1>2, <1>5, <1>6, <1>9, <1>10

-----------------------------------------------------------------------------
(* 4. What a step does to a command it is not about. *)

(* The pass of the poll is no further than it was with what is noted.      *)
NoListing(d) ==
  reads'.phase = "read" => /\ reads.phase = "read" /\ reads'.listing = reads.listing
                           /\ backoff'[d].fresh = backoff[d].fresh

(* Its entry goes on, and at most it is taken to be claimed.               *)
Rests(d) ==
  /\ status'[d] = status[d] /\ rejected'[d] = rejected[d]
  /\ (d \in owed' <=> d \in owed) /\ (d \in paused' <=> d \in paused)
  /\ (d \in excused' <=> d \in excused)
  /\ backoff'[d].attempts = backoff[d].attempts /\ backoff'[d].elapsed = backoff[d].elapsed
  /\ stage'[d] # stage[d] => /\ stage[d] = "none" /\ stage'[d] = "claiming"
                             /\ backoff'[d].elapsed

(* What is over stays so. *)
OverStays == \A d \in Command : status[d] = "over" => status'[d] = "over"

(* What is known of a command stays known while it rests.                  *)
LEMMA RestsKnown ==
  ASSUME NEW d \in Command, Known(d), Rests(d), NoListing(d), OverStays
  PROVE  Known(d)'
<1> USE DEF Known, Rests
<1>1. Staged(d)'
  BY DEF Staged
<1>2. WasClaimed(d)' <=> WasClaimed(d)
  BY DEF WasClaimed, Clean
<1>3. History(d)'
  BY <1>2 DEF History, Clean, NextOfThread, OverStays
<1>4. Uncounted(d)' = Uncounted(d)
  BY DEF Uncounted
<1>5. d \notin excused' => Paced(d)' /\ Counted(d)' /\ Noted(d)'
  BY <1>4 DEF Paced, Counted, Noted, NoListing, Clean
<1> QED
  BY <1>1, <1>3, <1>4, <1>5

(* The fields of a back-off that only grew old.                            *)
LEMMA AgedIs ==
  ASSUME TypeOK
  PROVE  /\ Aged \in [Command -> Entry] /\ backoff \in [Command -> Entry]
         /\ \A d \in Command : /\ Aged[d].attempts = backoff[d].attempts
                               /\ Aged[d].elapsed = backoff[d].elapsed
  BY DEF TypeOK, Entry, Aged

Reads == [phase : {"idle", "reading", "read"}, again : BOOLEAN, listing : Seq(Command)]

(* How a pass of the polls begins and ends.                                *)
LEMMA ReadsAre ==
  ASSUME TypeOK
  PROVE  /\ Woken \in Reads /\ NextPass \in Reads /\ IdleReads \in Reads /\ reads \in Reads
         /\ Woken.phase = "read" => reads.phase = "read" /\ Woken.listing = reads.listing
         /\ NextPass.phase # "read"
         /\ life # "on" => Woken = reads
         /\ [IdleReads EXCEPT !.phase = "reading"] \in Reads
         /\ [IdleReads EXCEPT !.phase = "reading"].phase = "reading"
<1>1. IdleReads \in Reads
  <2>1. <<>> \in Seq(Command)
    OBVIOUS
  <2> QED
    BY <2>1 DEF Reads, IdleReads
<1> DEFINE again == [IdleReads EXCEPT !.phase = "reading"]
<1>2. again \in Reads /\ again.phase = "reading"
  BY <1>1 DEF Reads
<1>3. NextPass \in Reads /\ NextPass.phase # "read"
  BY <1>1, <1>2 DEF NextPass, IdleReads
<1> HIDE DEF again
<1>4. reads \in Reads
  BY DEF TypeOK, Reads
<1>5. Woken = IF life # "on" THEN reads ELSE IF reads.phase = "idle" THEN again
              ELSE [reads EXCEPT !.again = TRUE]
  BY DEF Woken, again
<1>6. /\ [reads EXCEPT !.again = TRUE] \in Reads
      /\ [reads EXCEPT !.again = TRUE].listing = reads.listing
      /\ [reads EXCEPT !.again = TRUE].phase = reads.phase
  BY <1>4 DEF Reads
<1> QED
  BY <1>1, <1>2, <1>3, <1>4, <1>5, <1>6 DEF again

(* A step of the polls alone.                                              *)
LEMMA PollKnown ==
  ASSUME Inv, UNCHANGED <<db, queue, stage, history>>,
         backoff' = backoff \/ (backoff' = Aged /\ reads'.phase # "read"),
         reads' \in Reads,
         reads'.phase = "read" => reads.phase = "read" /\ reads'.listing = reads.listing
  PROVE  \A c \in Command : Known(c)'
<1>1. TypeOK /\ OverStays
  BY DEF Inv, OverStays, db
<1> SUFFICES ASSUME NEW d \in Command PROVE Known(d)'
  OBVIOUS
<1>2. Rests(d) /\ NoListing(d)
  BY <1>1, AgedIs DEF Rests, NoListing, db, history
<1> QED
  BY <1>1, <1>2, RestsKnown DEF Inv

(* A poll begins, or one more is requested.                                *)
LEMMA WakeHolds == ASSUME Inv, Wake \/ TimerFires PROVE Inv'
<1>1. TypeOK /\ Quiet
  BY DEF Inv
<1>2. /\ reads' = Woken /\ backoff' = IF reads.phase = "idle" THEN Aged ELSE backoff
      /\ life = "on" /\ timer' \in {timer, FALSE}
      /\ UNCHANGED <<db, ready, queue, stage, life, history>>
  BY DEF Wake, TimerFires
<1>3. \A c \in Command : Known(c)'
  <2>1. Woken.phase = "read" => reads.phase # "idle"
    BY <1>1, ReadsAre
  <2> QED
    BY <1>1, <1>2, <2>1, ReadsAre, PollKnown
<1>4. TypeOK'
  BY <1>1, <1>2, AgedIs, ReadsAre DEF TypeOK, Entry, Reads, Dispatching, db, history
<1>5. Quiet'
  BY <1>2 DEF Quiet, OffIsQuiet
<1> QED
  BY <1>3, <1>4, <1>5 DEF Inv

(* A poll that failed.                                                     *)
LEMMA ReadFailsHolds == ASSUME Inv, ReadFails PROVE Inv'
<1>1. TypeOK /\ Quiet
  BY DEF Inv
<1>2. /\ reads.phase = "reading" /\ reads' = NextPass
      /\ backoff' = (IF reads.again THEN Aged ELSE backoff) /\ timer' = Rescheduled
      /\ UNCHANGED <<db, ready, queue, stage, life, history>>
  BY DEF ReadFails
<1>3. \A c \in Command : Known(c)'
  BY <1>1, <1>2, ReadsAre, PollKnown
<1>4. TypeOK'
  BY <1>1, <1>2, AgedIs, ReadsAre DEF TypeOK, Entry, Reads, Dispatching, db, history, Rescheduled
<1>5. Quiet'
  BY <1>1, <1>2 DEF Quiet, OffIsQuiet, Rescheduled, TypeOK
<1> QED
  BY <1>3, <1>4, <1>5 DEF Inv

(* The coordinator is started.                                             *)
LEMMA StartHolds == ASSUME Inv, Start PROVE Inv'
<1>1. TypeOK /\ Quiet
  BY DEF Inv
<1>2. /\ life' = "on" /\ reads' = [IdleReads EXCEPT !.phase = "reading"]
      /\ backoff' = Aged /\ UNCHANGED <<db, ready, queue, stage, timer, history>>
  BY DEF Start
<1>3. reads' \in Reads /\ reads'.phase = "reading"
  BY <1>1, <1>2, ReadsAre
<1>4. \A c \in Command : Known(c)'
  BY <1>1, <1>2, <1>3, PollKnown
<1>5. TypeOK'
  BY <1>1, <1>2, <1>3, AgedIs DEF TypeOK, Entry, Reads, Dispatching, db, history
<1>6. Quiet'
  BY <1>2 DEF Quiet, OffIsQuiet
<1> QED
  BY <1>4, <1>5, <1>6 DEF Inv

(* It is to stop.                                                          *)
LEMMA StopHolds == ASSUME Inv, Stop PROVE Inv'
<1>1. TypeOK /\ Quiet
  BY DEF Inv
<1>2. /\ life' = "stopping" /\ timer' = FALSE /\ reads' = [reads EXCEPT !.again = FALSE]
      /\ UNCHANGED <<db, ready, queue, stage, backoff, history>>
  BY DEF Stop
<1>3. reads' \in Reads /\ reads'.phase = reads.phase /\ reads'.listing = reads.listing
  BY <1>1, <1>2 DEF TypeOK, Reads
<1>4. \A c \in Command : Known(c)'
  BY <1>2, <1>3, PollKnown
<1>5. TypeOK'
  BY <1>1, <1>2, <1>3 DEF TypeOK, Reads, Dispatching, db, history
<1>6. Quiet'
  BY <1>2 DEF Quiet, OffIsQuiet
<1> QED
  BY <1>4, <1>5, <1>6 DEF Inv

(* Every entry and every history goes with the queue, as no dispatch is    *)
(* left.                                                                   *)
LEMMA StoppedHolds == ASSUME Inv, Stopped PROVE Inv'
<1>1. TypeOK /\ Quiet
  BY DEF Inv
<1>2. /\ life = "stopping" /\ reads.phase = "idle" /\ Dispatching = {} /\ life' = "off"
      /\ queue' = <<>> /\ backoff' = [c \in Command |-> NoEntry]
      /\ owed' = {} /\ rejected' = [c \in Command |-> 0] /\ excused' = {}
      /\ UNCHANGED <<db, ready, stage, reads, timer>>
  BY DEF Stopped
<1>3. \A d \in Command : stage[d] = "none"
  BY <1>2 DEF Dispatching
<1>4. ASSUME NEW d \in Command PROVE Known(d)'
  <2>1. rejected'[d] = 0 /\ backoff'[d] = NoEntry /\ stage'[d] = "none" /\ status'[d] = status[d]
    BY <1>2, <1>3 DEF db
  <2>3. Staged(d)'
    BY <2>1 DEF Staged
  <2>4. ~WasClaimed(d)' /\ Clean(d)'
    BY <1>2, <2>1 DEF WasClaimed, Clean
  <2>5. History(d)'
    BY <1>2, <2>1, <2>4 DEF History, NoEntry, Inv, Known, db
  <2>6. Paced(d)' /\ Noted(d)'
    BY <1>2, <2>4 DEF Paced, Noted
  <2>7. Uncounted(d)' = 0 /\ backoff'[d].attempts = 0
    BY <2>1 DEF Uncounted, NoEntry
  <2> QED
    BY <2>1, <2>3, <2>5, <2>6, <2>7 DEF Known, Counted
<1>5. TypeOK'
  <2>1. backoff' \in [Command -> Entry]
    BY <1>2, CoordinatorAssumption DEF Entry, NoEntry
  <2>2. rejected' \in [Command -> 0..MaxRejection]
    BY <1>2, CoordinatorAssumption
  <2>3. queue' \in Seq(Command) /\ Len(queue') <= MaxQueued
    BY <1>2, CoordinatorAssumption
  <2> QED
    BY <1>1, <1>2, <2>1, <2>2, <2>3 DEF TypeOK, Entry, Dispatching, db
<1>6. Quiet'
  <2>1. Dispatching' = {} /\ ~timer'
    BY <1>1, <1>2 DEF Quiet, Dispatching
  <2>2. \A c \in Command : backoff'[c] = NoEntry'
    BY <1>2 DEF NoEntry
  <2> QED
    BY <1>2, <2>1, <2>2 DEF Quiet, OffIsQuiet
<1> QED
  BY <1>4, <1>5, <1>6 DEF Inv

-----------------------------------------------------------------------------
(* 5. What a settled dispatch does. *)

(* Its slot is free, its entry is the new one, and the pump may take it or *)
(* others again.                                                           *)
LEMMA SettleIs ==
  ASSUME TypeOK, NEW c \in Command, NEW entry \in Entry, NEW now \in BOOLEAN,
         Settle(c, entry, now)
  PROVE  /\ queue' \in Seq(Command) /\ Len(queue') <= MaxQueued
         /\ stage' \in [Command -> Stage] /\ Slots'
         /\ backoff' \in [Command -> Entry] /\ reads' \in Reads
         /\ timer' \in BOOLEAN /\ (timer' => timer \/ life = "on")
         /\ reads'.phase = "read" => /\ reads.phase = "read" /\ reads'.listing = reads.listing
                                     /\ backoff'[c].fresh = entry.fresh
         /\ backoff'[c].attempts = entry.attempts /\ backoff'[c].elapsed = entry.elapsed
         /\ stage'[c] \in {"none", "claiming"} /\ (stage'[c] = "claiming" => entry.elapsed)
         /\ \A d \in Command : d # c =>
              /\ NoListing(d)
              /\ backoff'[d].attempts = backoff[d].attempts
              /\ backoff'[d].elapsed = backoff[d].elapsed
              /\ stage'[d] # stage[d] => /\ stage[d] = "none" /\ stage'[d] = "claiming"
                                         /\ backoff'[d].elapsed
<1> DEFINE st == [stage EXCEPT ![c] = "none"]
           polls == now /\ reads.phase = "idle" /\ life = "on"
<1>1. /\ backoff' = (IF polls THEN [Aged EXCEPT ![c] = [entry EXCEPT !.fresh = FALSE]]
                     ELSE [backoff EXCEPT ![c] = entry])
      /\ Pump(queue, st)
      /\ reads' = (IF now THEN Woken ELSE reads)
      /\ timer' = (IF ~now /\ life = "on" THEN TRUE ELSE timer)
  BY DEF Settle
<1>2. /\ stage \in [Command -> Stage] /\ queue \in Seq(Command) /\ Len(queue) <= MaxQueued
      /\ timer \in BOOLEAN
      /\ \A kind \in Kind : Cardinality(OfKind(Dispatching, kind)) <= Room(kind)
  BY DEF TypeOK, Stage, OfKind
<1>3. st \in [Command -> Stage] /\ Busy(st) \subseteq Dispatching /\ st[c] = "none"
      /\ \A d \in Command : d # c => st[d] = stage[d]
  BY <1>2 DEF Stage, Busy, Dispatching
<1> HIDE DEF st
<1>4. ASSUME NEW kind \in Kind PROVE Cardinality(OfKind(Busy(st), kind)) <= Room(kind)
  <2>1. OfKind(Busy(st), kind) \in SUBSET OfKind(Dispatching, kind)
    BY <1>3 DEF OfKind
  <2>2. OfKind(Dispatching, kind) \in SUBSET Command
    BY DEF OfKind, Dispatching
  <2>3. Cardinality(OfKind(Busy(st), kind)) <= Cardinality(OfKind(Dispatching, kind))
    BY <2>1, <2>2, Counts, FS_Subset
  <2>4. OfKind(Busy(st), kind) \in SUBSET Command
    BY <2>1, <2>2
  <2>5. /\ Cardinality(OfKind(Busy(st), kind)) \in Nat
        /\ Cardinality(OfKind(Dispatching, kind)) \in Nat /\ Room(kind) \in Nat
    BY <2>2, <2>4, Counts, Rooms
  <2> QED
    BY <1>2, <2>3, <2>5
<1>5. /\ queue' \in Seq(Command) /\ Len(queue') <= MaxQueued
      /\ stage' \in [Command -> Stage] /\ Slots'
      /\ \A d \in Command :
           stage'[d] # st[d] => /\ st[d] = "none" /\ stage'[d] = "claiming"
                                /\ backoff'[d].elapsed
  BY <1>1, <1>2, <1>3, <1>4, PumpIs
<1>6. /\ Aged \in [Command -> Entry] /\ backoff \in [Command -> Entry]
      /\ \A d \in Command : /\ Aged[d].attempts = backoff[d].attempts
                            /\ Aged[d].elapsed = backoff[d].elapsed
  BY AgedIs
<1> DEFINE old == [entry EXCEPT !.fresh = FALSE]
<1>7. old \in Entry /\ old.attempts = entry.attempts /\ old.elapsed = entry.elapsed
  BY DEF Entry
<1> HIDE DEF old
<1>8. /\ backoff' \in [Command -> Entry]
      /\ backoff'[c].attempts = entry.attempts /\ backoff'[c].elapsed = entry.elapsed
      /\ \A d \in Command : d # c => /\ backoff'[d].attempts = backoff[d].attempts
                                     /\ backoff'[d].elapsed = backoff[d].elapsed
      /\ ~polls => /\ backoff'[c] = entry
                   /\ \A d \in Command : d # c => backoff'[d] = backoff[d]
  <2>1. CASE polls
    <3>1. backoff' = [Aged EXCEPT ![c] = old]
      BY <1>1, <2>1 DEF old
    <3> HIDE DEF polls
    <3> QED
      BY <1>6, <1>7, <2>1, <3>1
  <2>2. CASE ~polls
    <3>1. backoff' = [backoff EXCEPT ![c] = entry]
      BY <1>1, <2>2
    <3> HIDE DEF polls
    <3> QED
      BY <1>6, <2>2, <3>1
  <2> QED
    BY <2>1, <2>2
<1>9. reads' \in Reads /\ (reads'.phase = "read" => /\ reads.phase = "read" /\ ~polls
                                                     /\ reads'.listing = reads.listing)
  BY <1>1, ReadsAre
<1>10. timer' \in BOOLEAN /\ (timer' => timer \/ life = "on")
  BY <1>1, <1>2
<1>11. /\ stage'[c] \in {"none", "claiming"}
       /\ stage'[c] = "claiming" => entry.elapsed
  BY <1>3, <1>5, <1>8
<1>12. ASSUME NEW d \in Command, d # c
       PROVE  /\ NoListing(d)
              /\ stage'[d] # stage[d] => /\ stage[d] = "none" /\ stage'[d] = "claiming"
                                         /\ backoff'[d].elapsed
  BY <1>3, <1>5, <1>8, <1>9, <1>12 DEF NoListing
<1> HIDE DEF polls
<1> QED
  BY <1>5, <1>8, <1>9, <1>10, <1>11, <1>12

(* The types and the quiet of a step that settles the dispatch of c.       *)
LEMMA SettledTypes ==
  ASSUME Inv, NEW c \in Command, stage[c] # "none",
         NEW entry \in Entry, NEW now \in BOOLEAN, Settle(c, entry, now),
         life' = life, ready' = ready, paused' = paused,
         status' \in [Command -> {"none", "pending", "dispatched", "over"}],
         rejected' \in [Command -> 0..MaxRejection],
         owed' \subseteq owed, excused' \subseteq excused
  PROVE  TypeOK' /\ Quiet'
<1>1. TypeOK /\ Quiet
  BY DEF Inv
<1>2. /\ queue' \in Seq(Command) /\ Len(queue') <= MaxQueued
      /\ stage' \in [Command -> Stage] /\ Slots'
      /\ backoff' \in [Command -> Entry] /\ reads' \in Reads
      /\ timer' \in BOOLEAN /\ (timer' => timer \/ life = "on")
  BY <1>1, SettleIs
<1>3. TypeOK'
  BY <1>1, <1>2 DEF TypeOK, Entry, Stage, Reads, Slots
<1>4. life # "off"
  BY <1>1 DEF Quiet, OffIsQuiet, Dispatching
<1>5. Quiet'
  BY <1>1, <1>2, <1>4 DEF Quiet, OffIsQuiet
<1> QED
  BY <1>3, <1>5

(* A command that was not claimed waits on, and so does one whose dispatch *)
(* left it unsettled.                                                      *)
LEMMA MissHolds ==
  ASSUME Inv, NEW c \in Command, ClaimMisses(c) \/ ClaimFails(c) \/ Unsettled(c)
  PROVE  Inv'
<1>1. TypeOK /\ \A d \in Command : Known(d)
  BY DEF Inv
<1>2. PICK now \in BOOLEAN :
        /\ stage[c] \in {"claiming", "dispatching"} /\ Settle(c, backoff[c], now)
        /\ UNCHANGED <<db, ready, life, history>>
  BY DEF ClaimMisses, ClaimFails, Unsettled
<1>3. backoff[c] \in Entry
  BY <1>1, AgedIs
<1>4. OverStays
  BY <1>2 DEF OverStays, db
<1>5. ASSUME NEW d \in Command, d # c PROVE Known(d)'
  <2>1. Rests(d) /\ NoListing(d)
    BY <1>1, <1>2, <1>3, <1>5, SettleIs DEF Rests, db, history
  <2> QED
    BY <1>1, <1>4, <2>1, RestsKnown
<1>6. Known(c)'
  <2>1. /\ backoff'[c].attempts = backoff[c].attempts /\ backoff'[c].elapsed = backoff[c].elapsed
        /\ stage'[c] \in {"none", "claiming"}
        /\ reads'.phase = "read" => /\ reads.phase = "read" /\ reads'.listing = reads.listing
                                    /\ backoff'[c].fresh = backoff[c].fresh
    BY <1>1, <1>2, <1>3, SettleIs
  <2>2. /\ status' = status /\ paused' = paused /\ owed' = owed /\ rejected' = rejected
        /\ excused' = excused
    BY <1>2 DEF db, history
  <2>3. Known(c)
    BY <1>1
  <2>4. Staged(c)'
    BY <1>2, <2>1, <2>2, <2>3 DEF Known, Staged
  <2>5. WasClaimed(c)' => WasClaimed(c)
    BY <1>2, <2>1, <2>2 DEF WasClaimed, Clean
  <2>6. History(c)'
    BY <2>1, <2>2, <2>3, <2>5 DEF Known, History, NextOfThread, Clean
  <2>7. Uncounted(c) = 0 /\ Uncounted(c)' = 0
    BY <1>2, <2>1 DEF Uncounted
  <2>8. c \notin excused => Paced(c)'
    BY <1>2, <2>2, <2>3 DEF Known, Paced
  <2>9. c \notin excused => Counted(c)' /\ Noted(c)'
    BY <1>2, <2>1, <2>2, <2>3, <2>7 DEF Known, Staged, Counted, Noted, Clean
  <2> QED
    BY <2>1, <2>2, <2>3, <2>4, <2>6, <2>7, <2>8, <2>9 DEF Known
<1>7. /\ life' = life /\ ready' = ready /\ paused' = paused
      /\ status' \in [Command -> {"none", "pending", "dispatched", "over"}]
      /\ rejected' \in [Command -> 0..MaxRejection]
      /\ owed' \subseteq owed /\ excused' \subseteq excused
  BY <1>1, <1>2 DEF TypeOK, db, history
<1>8. TypeOK' /\ Quiet'
  BY <1>2, <1>3, <1>7, SettledTypes
<1> QED
  BY <1>5, <1>6, <1>8 DEF Inv

(* An accepted command begins anew. *)
LEMMA AcceptedHolds == ASSUME Inv, NEW c \in Command, Accepted(c) PROVE Inv'
<1>1. TypeOK /\ \A d \in Command : Known(d)
  BY DEF Inv
<1>2. /\ stage[c] = "dispatching"
      /\ status' = [status EXCEPT ![c] = IF @ = "dispatched" /\ ~IsRun[c] THEN "over" ELSE @]
      /\ rejected' = [rejected EXCEPT ![c] = 0]
      /\ owed' = owed \ {c} /\ excused' = excused \ {c}
      /\ Settle(c, NoEntry, TRUE)
      /\ UNCHANGED <<paused, ready, life>>
  BY DEF Accepted
<1>3. NoEntry \in Entry /\ NoEntry.attempts = 0
  BY CoordinatorAssumption DEF Entry, NoEntry
<1>4. status[c] \in {"dispatched", "over"}
  BY <1>1, <1>2 DEF Known, Staged
<1>5. /\ status \in [Command -> {"none", "pending", "dispatched", "over"}]
      /\ rejected \in [Command -> 0..MaxRejection]
  BY <1>1 DEF TypeOK
<1>6. /\ status'[c] \in {"dispatched", "over"} /\ (status[c] = "over" => status'[c] = "over")
      /\ rejected'[c] = 0
      /\ \A d \in Command : d # c => status'[d] = status[d] /\ rejected'[d] = rejected[d]
  BY <1>2, <1>4, <1>5
<1>7. OverStays
  BY <1>6 DEF OverStays
<1>8. ASSUME NEW d \in Command, d # c PROVE Known(d)'
  <2>1. /\ NoListing(d)
        /\ backoff'[d].attempts = backoff[d].attempts /\ backoff'[d].elapsed = backoff[d].elapsed
        /\ stage'[d] # stage[d] => /\ stage[d] = "none" /\ stage'[d] = "claiming"
                                   /\ backoff'[d].elapsed
    BY <1>1, <1>2, <1>3, <1>8, SettleIs
  <2>2. Rests(d)
    BY <1>2, <1>6, <1>8, <2>1 DEF Rests
  <2> QED
    BY <1>1, <1>7, <2>1, <2>2, RestsKnown
<1>9. Known(c)'
  <2>1. backoff'[c].attempts = 0 /\ stage'[c] \in {"none", "claiming"}
    BY <1>1, <1>2, <1>3, SettleIs
  <2>2. Clean(c)' /\ ~WasClaimed(c)' /\ Uncounted(c)' = 0
    BY <1>2, <1>6, <2>1 DEF Clean, WasClaimed, Uncounted
  <2>3. Staged(c)'
    BY <1>6, <2>1 DEF Staged
  <2>4. History(c)'
    BY <1>1, <1>2, <2>1, <2>2 DEF Known, History
  <2>5. Paced(c)' /\ Counted(c)' /\ Noted(c)'
    BY <1>6, <2>1, <2>2 DEF Paced, Counted, Noted, Clean
  <2> QED
    BY <1>6, <2>1, <2>2, <2>3, <2>4, <2>5 DEF Known
<1>10. /\ status' \in [Command -> {"none", "pending", "dispatched", "over"}]
       /\ rejected' \in [Command -> 0..MaxRejection]
  BY <1>2, <1>5, CoordinatorAssumption
<1>11. TypeOK' /\ Quiet'
  BY <1>2, <1>3, <1>10, SettledTypes
<1> QED
  BY <1>8, <1>9, <1>11 DEF Inv

(* A command that failed is over. *)
LEMMA FailedHolds == ASSUME Inv, NEW c \in Command, Failed(c) PROVE Inv'
<1>1. TypeOK /\ \A d \in Command : Known(d)
  BY DEF Inv
<1>2. /\ stage[c] = "dispatching"
      /\ status' = [status EXCEPT ![c] = IF @ = "dispatched" THEN "over" ELSE @]
      /\ Settle(c, backoff[c], TRUE)
      /\ UNCHANGED <<paused, ready, life, history>>
  BY DEF Failed
<1>3. backoff[c] \in Entry
  BY <1>1, AgedIs
<1>4. status[c] \in {"dispatched", "over"}
  BY <1>1, <1>2 DEF Known, Staged
<1>5. status \in [Command -> {"none", "pending", "dispatched", "over"}]
  BY <1>1 DEF TypeOK
<1>6. status'[c] = "over" /\ \A d \in Command : d # c => status'[d] = status[d]
  BY <1>2, <1>4, <1>5
<1>7. OverStays
  BY <1>6 DEF OverStays
<1>8. ASSUME NEW d \in Command, d # c PROVE Known(d)'
  <2>1. /\ NoListing(d)
        /\ backoff'[d].attempts = backoff[d].attempts /\ backoff'[d].elapsed = backoff[d].elapsed
        /\ stage'[d] # stage[d] => /\ stage[d] = "none" /\ stage'[d] = "claiming"
                                   /\ backoff'[d].elapsed
    BY <1>1, <1>2, <1>3, <1>8, SettleIs
  <2>2. Rests(d)
    BY <1>2, <1>6, <1>8, <2>1 DEF Rests, history
  <2> QED
    BY <1>1, <1>7, <2>1, <2>2, RestsKnown
<1>9. Known(c)'
  <2>1. backoff'[c].attempts = backoff[c].attempts /\ stage'[c] \in {"none", "claiming"}
    BY <1>1, <1>2, <1>3, SettleIs
  <2>2. paused' = paused /\ owed' = owed /\ rejected' = rejected /\ excused' = excused
    BY <1>2 DEF history
  <2>3. WasClaimed(c) /\ NextOfThread(c) /\ c \notin paused \ excused
        /\ (c \in paused => IsRun[c]) /\ backoff[c].attempts + Uncounted(c) <= rejected[c]
    BY <1>1, <1>2 DEF Known, History, WasClaimed
  <2>4. Uncounted(c) = 0 /\ Uncounted(c)' = 0
    BY <1>2, <2>1 DEF Uncounted
  <2>5. Staged(c)'
    BY <1>6, <2>1 DEF Staged
  <2>6. History(c)'
    BY <1>6, <1>7, <2>2, <2>3 DEF History, NextOfThread, OverStays
  <2>7. Paced(c)' /\ Counted(c)' /\ Noted(c)'
    BY <1>6 DEF Paced, Counted, Noted
  <2> QED
    BY <2>1, <2>2, <2>3, <2>4, <2>5, <2>6, <2>7 DEF Known
<1>10. status' \in [Command -> {"none", "pending", "dispatched", "over"}]
       /\ rejected' \in [Command -> 0..MaxRejection] /\ owed' = owed /\ excused' = excused
  BY <1>1, <1>2, <1>5 DEF TypeOK, history
<1>11. TypeOK' /\ Quiet'
  BY <1>2, <1>3, <1>10, SettledTypes
<1> QED
  BY <1>8, <1>9, <1>11 DEF Inv

(* The rejection is counted, and the next try paced from now on.           *)
LEMMA BackOffHolds == ASSUME Inv, NEW c \in Command, BackOff(c) PROVE Inv'
<1> DEFINE entry == [attempts |-> backoff[c].attempts + 1, elapsed |-> FALSE, fresh |-> TRUE]
<1>1. TypeOK /\ \A d \in Command : Known(d)
  BY DEF Inv
<1>2. /\ stage[c] = "retried" /\ Settle(c, entry, TRUE)
      /\ UNCHANGED <<db, ready, life, history>>
  BY DEF BackOff
<1>3. /\ backoff[c].attempts \in 0..MaxRejection /\ rejected[c] \in 0..MaxRejection
      /\ MaxRejection \in Nat
  BY <1>1, CoordinatorAssumption DEF TypeOK
<1>4. backoff[c].attempts + 1 <= rejected[c]
  BY <1>1, <1>2 DEF Known, Uncounted
<1>5. /\ entry \in Entry /\ entry.attempts = backoff[c].attempts + 1
      /\ entry.elapsed = FALSE /\ entry.fresh = TRUE
  BY <1>3, <1>4 DEF Entry
<1> HIDE DEF entry
<1>6. /\ status' = status /\ paused' = paused /\ owed' = owed /\ rejected' = rejected
      /\ excused' = excused
  BY <1>2 DEF db, history
<1>7. OverStays
  BY <1>6 DEF OverStays
<1>8. ASSUME NEW d \in Command, d # c PROVE Known(d)'
  <2>1. /\ NoListing(d)
        /\ backoff'[d].attempts = backoff[d].attempts /\ backoff'[d].elapsed = backoff[d].elapsed
        /\ stage'[d] # stage[d] => /\ stage[d] = "none" /\ stage'[d] = "claiming"
                                   /\ backoff'[d].elapsed
    BY <1>1, <1>2, <1>5, <1>8, SettleIs
  <2>2. Rests(d)
    BY <1>6, <2>1 DEF Rests
  <2> QED
    BY <1>1, <1>7, <2>1, <2>2, RestsKnown
<1>9. Known(c)'
  <2>1. /\ backoff'[c].attempts = backoff[c].attempts + 1 /\ backoff'[c].elapsed = FALSE
        /\ stage'[c] = "none" /\ (reads'.phase = "read" => backoff'[c].fresh)
    BY <1>1, <1>2, <1>5, SettleIs
  <2>2. Known(c) /\ WasClaimed(c) /\ status[c] \in {"pending", "over"}
    BY <1>1, <1>2 DEF Known, Staged, WasClaimed
  <2>3. Staged(c)'
    BY <1>6, <2>1, <2>2 DEF Staged
  <2>4. History(c)'
    BY <1>6, <2>2 DEF Known, History, NextOfThread
  <2>5. Uncounted(c) = 1 /\ Uncounted(c)' = 0
    BY <1>2, <2>1 DEF Uncounted
  <2>6. c \notin excused => backoff[c].attempts + 1 = rejected[c] \/ status[c] = "over"
    BY <2>2, <2>5 DEF Known, Counted
  <2>7. c \notin excused => Paced(c)' /\ Counted(c)' /\ Noted(c)'
    BY <1>3, <1>6, <2>1, <2>2, <2>5, <2>6 DEF Paced, Counted, Noted
  <2> QED
    BY <1>3, <1>4, <1>6, <2>1, <2>3, <2>4, <2>5, <2>7 DEF Known
<1>10. status' \in [Command -> {"none", "pending", "dispatched", "over"}]
       /\ rejected' \in [Command -> 0..MaxRejection]
  BY <1>1, <1>6 DEF TypeOK
<1>11. TypeOK' /\ Quiet'
  BY <1>2, <1>5, <1>6, <1>10, SettledTypes
<1> QED
  BY <1>8, <1>9, <1>11 DEF Inv

-----------------------------------------------------------------------------
(* 6. Steps about one command that leave the queue and the polls alone. *)

Statuses == {"none", "pending", "dispatched", "over"}

(* The pieces of the types such a step changes. *)
LEMMA RowTypes ==
  ASSUME TypeOK, UNCHANGED <<queue, reads, timer, life>>,
         status' \in [Command -> Statuses], paused' \subseteq Command, ready' \subseteq Command,
         owed' \subseteq Command, excused' \subseteq Command,
         rejected' \in [Command -> 0..MaxRejection],
         backoff' \in [Command -> Entry],
         stage' \in [Command -> Stage], Dispatching' = Dispatching
  PROVE  TypeOK'
  BY DEF TypeOK, Statuses, Entry, Stage

(* A claim finds the command pending and next of its Thread.               *)
LEMMA ClaimHolds == ASSUME Inv, NEW c \in Command, Claim(c) PROVE Inv'
<1>1. TypeOK /\ Quiet /\ \A d \in Command : Known(d)
  BY DEF Inv
<1>2. /\ stage[c] = "claiming" /\ Listed(c)
      /\ status' = [status EXCEPT ![c] = "dispatched"]
      /\ stage' = [stage EXCEPT ![c] = "dispatching"]
      /\ UNCHANGED <<paused, ready, queue, backoff, reads, timer, life, history>>
  BY DEF Claim
<1>3. status \in [Command -> Statuses] /\ stage \in [Command -> Stage]
  BY <1>1 DEF TypeOK, Statuses, Stage
<1>4. /\ status' \in [Command -> Statuses] /\ stage' \in [Command -> Stage]
      /\ status'[c] = "dispatched" /\ stage'[c] = "dispatching"
      /\ \A d \in Command : d # c => status'[d] = status[d] /\ stage'[d] = stage[d]
  BY <1>2, <1>3 DEF Statuses, Stage
<1>5. status[c] = "pending"
  BY <1>2 DEF Listed
<1>6. OverStays
  BY <1>4, <1>5 DEF OverStays
<1>7. /\ paused' = paused /\ owed' = owed /\ rejected' = rejected /\ excused' = excused
      /\ backoff' = backoff /\ reads' = reads
  BY <1>2 DEF history
<1>8. ASSUME NEW d \in Command, d # c PROVE Known(d)'
  BY <1>1, <1>4, <1>6, <1>7, <1>8, RestsKnown DEF Rests, NoListing
<1>9. Known(c)'
  <2>1. Staged(c)' /\ Noted(c)' /\ Uncounted(c)' = 0 /\ Uncounted(c) = 0
    BY <1>2, <1>4 DEF Staged, Noted, Uncounted
  <2>2. NextOfThread(c)'
    BY <1>2, <1>6 DEF NextOfThread, Listed, OverStays
  <2>3. c \notin paused
    BY <1>1, <1>2 DEF Known, History, Listed
  <2>4. History(c)'
    BY <1>4, <1>7, <2>2, <2>3 DEF History
  <2>5. c \notin excused => Paced(c)' /\ Counted(c)'
    BY <1>1, <1>2, <1>5, <1>7, <2>1 DEF Known, Paced, Counted
  <2> QED
    BY <1>1, <1>7, <2>1, <2>4, <2>5 DEF Known
<1>10. Dispatching' = Dispatching
  BY <1>2, <1>4 DEF Dispatching
<1>11. TypeOK'
  BY <1>1, <1>2, <1>4, <1>7, <1>10, AgedIs, RowTypes DEF TypeOK
<1>12. Quiet'
  BY <1>1, <1>2, <1>7, <1>10 DEF Quiet, OffIsQuiet, NoEntry
<1> QED
  BY <1>8, <1>9, <1>11, <1>12 DEF Inv

(* A rejection is committed before its back-off is recorded.               *)
LEMMA RetryHolds == ASSUME Inv, NEW c \in Command, Retry(c) PROVE Inv'
<1>1. TypeOK /\ Quiet /\ \A d \in Command : Known(d)
  BY DEF Inv
<1>2. /\ stage[c] = "dispatching" /\ rejected[c] < MaxRejection
      /\ status' = [status EXCEPT ![c] = IF @ = "dispatched" THEN "pending" ELSE @]
      /\ stage' = [stage EXCEPT ![c] = "retried"]
      /\ owed' = owed \cup {c}
      /\ rejected' = [rejected EXCEPT ![c] = @ + 1]
      /\ UNCHANGED <<paused, ready, queue, backoff, reads, timer, life, excused>>
  BY DEF Retry
<1>3. /\ status \in [Command -> Statuses] /\ stage \in [Command -> Stage]
      /\ rejected \in [Command -> 0..MaxRejection] /\ MaxRejection \in Nat
      /\ backoff[c].attempts \in 0..MaxRejection
  BY <1>1, CoordinatorAssumption DEF TypeOK, Statuses, Stage
<1>4. status[c] \in {"dispatched", "over"}
  BY <1>1, <1>2 DEF Known, Staged
<1>5. /\ status' \in [Command -> Statuses] /\ stage' \in [Command -> Stage]
      /\ status'[c] = (IF status[c] = "dispatched" THEN "pending" ELSE "over")
      /\ stage'[c] = "retried"
      /\ \A d \in Command : d # c => status'[d] = status[d] /\ stage'[d] = stage[d]
  BY <1>2, <1>3, <1>4 DEF Statuses, Stage
<1>6. /\ rejected' \in [Command -> 0..MaxRejection] /\ rejected'[c] = rejected[c] + 1
      /\ \A d \in Command : d # c => rejected'[d] = rejected[d]
  BY <1>2, <1>3
<1>7. OverStays
  BY <1>5 DEF OverStays
<1>8. ASSUME NEW d \in Command, d # c PROVE Known(d)'
  BY <1>1, <1>2, <1>5, <1>6, <1>7, <1>8, RestsKnown DEF Rests, NoListing
<1>9. Known(c)'
  <2>1. Known(c) /\ WasClaimed(c) /\ Uncounted(c) = 0 /\ Uncounted(c)' = 1
    BY <1>1, <1>2, <1>5 DEF WasClaimed, Uncounted
  <2>2. Staged(c)' /\ Noted(c)'
    BY <1>4, <1>5 DEF Staged, Noted
  <2>3. NextOfThread(c)'
    BY <1>7, <2>1 DEF Known, History, NextOfThread, OverStays
  <2>4. History(c)'
    BY <1>2, <1>4, <1>5, <2>1, <2>3 DEF Known, History
  <2>5. c \notin excused' => Paced(c)'
    BY <1>5 DEF Paced
  <2>6. c \notin excused' => Counted(c)'
    BY <1>2, <1>3, <1>4, <1>5, <1>6, <2>1 DEF Known, Counted
  <2>7. backoff'[c].attempts + Uncounted(c)' <= rejected'[c]
    BY <1>2, <1>3, <1>6, <2>1 DEF Known
  <2> QED
    BY <2>2, <2>4, <2>5, <2>6, <2>7 DEF Known
<1>10. Dispatching' = Dispatching
  BY <1>2, <1>5 DEF Dispatching
<1>11. TypeOK'
  <2>1. backoff \in [Command -> Entry]
    BY <1>1, AgedIs
  <2>2. /\ paused' \subseteq Command /\ ready' \subseteq Command
        /\ owed' \subseteq Command /\ excused' \subseteq Command
    BY <1>1, <1>2 DEF TypeOK
  <2> QED
    BY <1>1, <1>2, <1>5, <1>6, <1>10, <2>1, <2>2, RowTypes
<1>12. Quiet'
  <2>1. life # "off"
    BY <1>1, <1>2 DEF Quiet, OffIsQuiet, Dispatching
  <2> QED
    BY <1>1, <1>2, <2>1 DEF Quiet, OffIsQuiet
<1> QED
  BY <1>8, <1>9, <1>11, <1>12 DEF Inv

(* A back-off elapses.                                                     *)
LEMMA ElapsesHolds == ASSUME Inv, NEW c \in Command, Elapses(c) PROVE Inv'
<1>1. TypeOK /\ Quiet /\ \A d \in Command : Known(d)
  BY DEF Inv
<1>2. /\ c \in owed /\ stage[c] # "retried" /\ owed' = owed \ {c}
      /\ backoff' = [backoff EXCEPT ![c].elapsed = TRUE]
      /\ UNCHANGED <<db, ready, queue, stage, reads, timer, life, rejected, excused>>
  BY DEF Elapses
<1>3. backoff \in [Command -> Entry]
  BY <1>1, AgedIs
<1>4. /\ backoff' \in [Command -> Entry]
      /\ backoff'[c].attempts = backoff[c].attempts /\ backoff'[c].fresh = backoff[c].fresh
      /\ \A d \in Command : d # c => backoff'[d] = backoff[d]
  BY <1>2, <1>3 DEF Entry
<1>5. /\ status' = status /\ stage' = stage /\ paused' = paused /\ reads' = reads
      /\ rejected' = rejected /\ excused' = excused
  BY <1>2 DEF db
<1>6. OverStays
  BY <1>5 DEF OverStays
<1>7. ASSUME NEW d \in Command, d # c PROVE Known(d)'
  BY <1>1, <1>2, <1>4, <1>5, <1>6, <1>7, RestsKnown DEF Rests, NoListing
<1>8. Known(c)'
  <2>1. Known(c) /\ (WasClaimed(c)' => WasClaimed(c)) /\ (Clean(c) => Clean(c)')
        /\ Uncounted(c)' = Uncounted(c)
    BY <1>1, <1>2, <1>5 DEF WasClaimed, Clean, Uncounted
  <2>2. Staged(c)' /\ Paced(c)'
    BY <1>2, <1>5, <2>1 DEF Known, Staged, Paced
  <2>3. History(c)'
    BY <1>4, <1>5, <2>1 DEF Known, History, NextOfThread
  <2>4. c \notin excused => Counted(c)' /\ Noted(c)'
    BY <1>4, <1>5, <2>1 DEF Known, Counted, Noted
  <2> QED
    BY <1>4, <1>5, <2>1, <2>2, <2>3, <2>4 DEF Known
<1>9. TypeOK'
  <2>1. Dispatching' = Dispatching
    BY <1>5 DEF Dispatching
  <2>2. /\ status' \in [Command -> Statuses] /\ stage' \in [Command -> Stage]
        /\ rejected' \in [Command -> 0..MaxRejection]
        /\ paused' \subseteq Command /\ ready' \subseteq Command
        /\ owed' \subseteq Command /\ excused' \subseteq Command
    BY <1>1, <1>2, <1>5 DEF TypeOK, Statuses, Stage
  <2> QED
    BY <1>1, <1>2, <1>4, <2>1, <2>2, RowTypes
<1>10. Quiet'
  <2>1. life # "off"
    BY <1>1, <1>2 DEF Quiet
  <2> QED
    BY <1>1, <1>2, <2>1 DEF Quiet, OffIsQuiet
<1> QED
  BY <1>7, <1>8, <1>9, <1>10 DEF Inv

(* A row that is created has no history, one that is over needs none, and  *)
(* one that goes back to its queue has none or is excused.                 *)
LEMMA RowHolds ==
  ASSUME Inv, NEW c \in Command, Create(c) \/ Ends(c) \/ Requeued(c) PROVE Inv'
<1>1. TypeOK /\ Quiet /\ \A d \in Command : Known(d)
  BY DEF Inv
<1>2. PICK s \in {"pending", "over"} :
        /\ status' = [status EXCEPT ![c] = s]
        /\ s = "pending" => \/ status[c] = "none"
                            \/ /\ status[c] = "dispatched" /\ stage[c] = "none"
                               /\ rejected[c] = 0 \/ c \in excused'
        /\ status[c] # "over"
        /\ excused' = excused \/ excused' = excused \cup {c}
        /\ UNCHANGED <<paused, ready, queue, stage, backoff, reads, timer, life, owed, rejected>>
  BY DEF Create, Ends, Requeued, history
<1>3. status \in [Command -> Statuses]
  BY <1>1 DEF TypeOK, Statuses
<1>4. /\ status' \in [Command -> Statuses] /\ status'[c] = s
      /\ \A d \in Command : d # c => status'[d] = status[d]
  BY <1>2, <1>3 DEF Statuses
<1>5. OverStays
  BY <1>2, <1>4 DEF OverStays
<1>6. /\ paused' = paused /\ owed' = owed /\ rejected' = rejected
      /\ excused \subseteq excused' /\ \A d \in Command : d # c => (d \in excused' <=> d \in excused)
      /\ backoff' = backoff /\ reads' = reads /\ stage' = stage
  BY <1>2
<1>7. ASSUME NEW d \in Command, d # c PROVE Known(d)'
  BY <1>1, <1>4, <1>5, <1>6, <1>7, RestsKnown DEF Rests, NoListing
<1>8. Known(c)'
  <2>1. /\ Known(c) /\ (WasClaimed(c)' <=> WasClaimed(c)) /\ (Clean(c)' <=> Clean(c))
        /\ Uncounted(c)' = Uncounted(c)
    BY <1>1, <1>6 DEF WasClaimed, Clean, Uncounted
  <2>2. /\ backoff[c].attempts \in Nat /\ rejected[c] \in Nat
    BY <1>1, CoordinatorAssumption DEF TypeOK
  <2>3. s = "pending" /\ c \notin excused' =>
          /\ Clean(c) /\ backoff[c].attempts = 0 /\ Uncounted(c) = 0
          /\ stage[c] \notin {"dispatching", "retried"}
    BY <1>2, <1>6, <2>1, <2>2 DEF Known, History, Staged, Paced, Clean, Uncounted
  <2>4. s = "pending" => stage[c] \notin {"dispatching", "retried"}
    BY <1>2, <2>1 DEF Known, Staged
  <2>5. Staged(c)'
    BY <1>2, <1>4, <1>6, <2>1, <2>4 DEF Known, Staged
  <2>6. NextOfThread(c) => NextOfThread(c)'
    BY <1>5 DEF NextOfThread, OverStays
  <2>7. History(c)'
    BY <1>2, <1>4, <1>6, <2>1, <2>6 DEF Known, History
  <2>8. c \notin excused' => Paced(c)' /\ Counted(c)' /\ Noted(c)'
    BY <1>2, <1>4, <1>6, <2>1, <2>2, <2>3 DEF Paced, Counted, Noted, Clean, Uncounted
  <2> QED
    BY <1>6, <2>1, <2>5, <2>7, <2>8 DEF Known
<1>9. Dispatching' = Dispatching
  BY <1>6 DEF Dispatching
<1>10. TypeOK'
  <2>1. /\ stage' \in [Command -> Stage] /\ rejected' \in [Command -> 0..MaxRejection]
        /\ backoff' \in [Command -> Entry]
        /\ paused' \subseteq Command /\ ready' \subseteq Command
        /\ owed' \subseteq Command /\ excused' \subseteq Command
    BY <1>1, <1>2, <1>6, AgedIs DEF TypeOK, Stage
  <2> QED
    BY <1>1, <1>2, <1>4, <1>9, <2>1, RowTypes
<1>11. Quiet'
  BY <1>1, <1>2, <1>6, <1>9 DEF Quiet, OffIsQuiet, NoEntry
<1> QED
  BY <1>7, <1>8, <1>10, <1>11 DEF Inv

(* A pause excuses, and a Runner that comes or goes is nothing to the rows.*)
LEMMA PauseHolds == ASSUME Inv, NEW c \in Command, Pause(c) \/ Comes(c) PROVE Inv'
<1>1. TypeOK /\ Quiet /\ \A d \in Command : Known(d)
  BY DEF Inv
<1>2. /\ UNCHANGED <<status, queue, stage, backoff, reads, timer, life, owed, rejected>>
      /\ \A d \in Command : d # c => /\ d \in paused' <=> d \in paused
                                     /\ d \in excused' <=> d \in excused
      /\ \/ paused' = paused /\ excused' = excused
         \/ IsRun[c] /\ c \in excused'
  BY DEF Pause, Comes, db, history
<1>3. /\ paused' \subseteq Command /\ ready' \subseteq Command /\ excused' \subseteq Command
  BY <1>1, CoordinatorAssumption DEF TypeOK, Pause, Comes, db, history
<1>4. OverStays
  BY <1>2 DEF OverStays
<1>5. ASSUME NEW d \in Command, d # c \/ (paused' = paused /\ excused' = excused) PROVE Known(d)'
  <2>1. Rests(d) /\ NoListing(d)
    BY <1>2, <1>5 DEF Rests, NoListing
  <2> QED
    BY <1>1, <1>4, <2>1, RestsKnown
<1>6. ASSUME IsRun[c], c \in excused' PROVE Known(c)'
  <2>1. /\ Known(c) /\ (WasClaimed(c)' <=> WasClaimed(c)) /\ (Clean(c)' <=> Clean(c))
        /\ Uncounted(c)' = Uncounted(c) /\ (NextOfThread(c)' <=> NextOfThread(c))
    BY <1>1, <1>2 DEF WasClaimed, Clean, Uncounted, NextOfThread
  <2>2. Staged(c)' /\ History(c)'
    BY <1>2, <1>6, <2>1 DEF Known, Staged, History
  <2> QED
    BY <1>2, <1>6, <2>1, <2>2 DEF Known
<1>7. Dispatching' = Dispatching
  BY <1>2 DEF Dispatching
<1>8. TypeOK'
  <2>1. /\ status' \in [Command -> Statuses]
        /\ stage' \in [Command -> Stage] /\ rejected' \in [Command -> 0..MaxRejection]
        /\ backoff' \in [Command -> Entry] /\ owed' \subseteq Command
    BY <1>1, <1>2, AgedIs DEF TypeOK, Stage, Statuses
  <2> QED
    BY <1>1, <1>2, <1>3, <1>7, <2>1, RowTypes
<1>9. Quiet'
  BY <1>1, <1>2, <1>7 DEF Quiet, OffIsQuiet, NoEntry
<1> QED
  BY <1>2, <1>5, <1>6, <1>8, <1>9 DEF Inv

-----------------------------------------------------------------------------
(* 7. The listing. *)

(* What is listed are commands.                                            *)
LEMMA ListingIs == Listing \in Seq(Command)
<1> DEFINE all == [i \in Command |-> i]
           l == Subsequence(all, {c \in Command : Listed(c)})
<1>1. MaxCommand \in Nat /\ MaxQueued \in Nat
  BY CoordinatorAssumption
<1>2. all \in Seq(Command) /\ Len(all) = MaxCommand
  BY <1>1 DEF Command
<1>3. {c \in Command : Listed(c)} \subseteq 1..Len(all)
  BY <1>2 DEF Command
<1> HIDE DEF all
<1>4. l \in Seq(Command)
  BY <1>2, <1>3, SubsequenceIs
<1> HIDE DEF l
<1>5. SubSeq(l, 1, IF Len(l) < MaxQueued THEN Len(l) ELSE MaxQueued) \in Seq(Command)
  BY <1>1, <1>4, FirstIs
<1> QED
  BY <1>5 DEF Listing, l, all

(* The queue takes no more of a listing than it has room for.              *)
LEMMA QueuedIs ==
  ASSUME TypeOK
  PROVE  Queued \in Seq(Command) /\ Len(Queued) <= MaxQueued
<1> DEFINE new == Omit(reads.listing, ToSet(queue))
           room == MaxQueued - Len(queue)
           first == SubSeq(new, 1, IF Len(new) < room THEN Len(new) ELSE room)
<1>1. /\ queue \in Seq(Command) /\ Len(queue) <= MaxQueued /\ reads.listing \in Seq(Command)
      /\ MaxQueued \in Nat /\ Len(queue) \in Nat
  BY CoordinatorAssumption, LenProperties DEF TypeOK
<1>2. new \in Seq(Command) /\ room \in Nat
  BY <1>1, OmitIs
<1> HIDE DEF new
<1>3. first \in Seq(Command) /\ Len(first) \in Nat /\ Len(first) <= room
  <2> HIDE DEF room
  <2> QED
    BY <1>2, FirstIs
<1>4. Queued = queue \o first
  BY DEF Queued, new
<1> HIDE DEF first
<1>5. queue \o first \in Seq(Command) /\ Len(queue \o first) = Len(queue) + Len(first)
  BY <1>1, <1>3, ConcatProperties
<1> QED
  BY <1>1, <1>3, <1>4, <1>5

(* What was rejected, waits and is not excused is listed.                  *)
LEMMA ReadListingHolds == ASSUME Inv, ReadListing PROVE Inv'
<1>1. TypeOK /\ Quiet /\ \A d \in Command : Known(d)
  BY DEF Inv
<1>2. /\ reads.phase = "reading"
      /\ reads' = [reads EXCEPT !.phase = "read", !.listing = Listing]
      /\ excused' = excused \cup {c \in Command : Listed(c) /\ c \notin ToSet(Listing)}
      /\ UNCHANGED <<db, ready, queue, stage, backoff, timer, life, owed, rejected>>
  BY DEF ReadListing
<1>3. reads' \in Reads /\ reads'.phase = "read" /\ reads'.listing = Listing
  BY <1>1, <1>2, ListingIs DEF TypeOK, Reads
<1>4. ASSUME NEW d \in Command PROVE Known(d)'
  <2>1. /\ status' = status /\ stage' = stage /\ paused' = paused /\ owed' = owed
        /\ rejected' = rejected /\ backoff' = backoff
    BY <1>2 DEF db
  <2>2. /\ Known(d) /\ (WasClaimed(d)' <=> WasClaimed(d)) /\ (Clean(d)' <=> Clean(d))
        /\ Uncounted(d)' = Uncounted(d) /\ (NextOfThread(d)' <=> NextOfThread(d))
        /\ (d \notin excused' => d \notin excused)
    BY <1>1, <1>2, <2>1 DEF WasClaimed, Clean, Uncounted, NextOfThread
  <2>3. Staged(d)' /\ History(d)'
    BY <2>1, <2>2 DEF Known, Staged, History
  <2>4. d \notin excused => Paced(d)' /\ Counted(d)'
    BY <2>1, <2>2 DEF Known, Paced, Counted
  <2>5. ASSUME d \notin excused', status[d] = "pending", ~Clean(d) PROVE d \in ToSet(Listing)
    <3>1. WasClaimed(d) /\ d \notin paused
      BY <2>2, <2>5 DEF WasClaimed, Known, History
    <3>2. Listed(d)
      BY <2>2, <2>5, <3>1 DEF Known, History, NextOfThread, Listed
    <3> QED
      BY <1>2, <2>5, <3>2
  <2>6. d \notin excused' => Noted(d)'
    <3>1. SUFFICES ASSUME d \notin excused', status'[d] = "pending", ~Clean(d)'
                   PROVE  d \in ToSet(reads'.listing)
      BY DEF Noted, ToSet
    <3> QED
      BY <1>3, <2>1, <2>2, <2>5, <3>1
  <2> QED
    BY <2>1, <2>2, <2>3, <2>4, <2>6 DEF Known
<1>5. TypeOK'
  BY <1>1, <1>2, <1>3 DEF TypeOK, Reads, Dispatching, db
<1>6. Quiet'
  BY <1>1, <1>2 DEF Quiet, OffIsQuiet
<1> QED
  BY <1>4, <1>5, <1>6 DEF Inv

(* An entry that is dropped is of a command that was not rejected, is      *)
(* over, or is excused.                                                    *)
LEMMA ApplyListingHolds == ASSUME Inv, ApplyListing PROVE Inv'
<1>1. TypeOK /\ Quiet /\ \A d \in Command : Known(d)
  BY DEF Inv
<1> DEFINE kept == [c \in Command |-> IF Keeps(c) THEN backoff[c] ELSE NoEntry]
<1>2. /\ reads.phase = "read"
      /\ backoff' = (IF reads.again
                     THEN [c \in Command |-> [kept[c] EXCEPT !.fresh = FALSE]] ELSE kept)
      /\ Pump(Queued, stage)
      /\ reads' = NextPass /\ timer' = Rescheduled
      /\ UNCHANGED <<db, ready, life, history>>
  BY DEF ApplyListing
<1>3. /\ backoff \in [Command -> Entry] /\ NoEntry \in Entry
  BY <1>1, AgedIs, CoordinatorAssumption DEF NoEntry, Entry
<1>4. kept \in [Command -> Entry]
  BY <1>3
<1> DEFINE Was(c) == IF Keeps(c) THEN backoff[c] ELSE NoEntry
<1>5. \A c \in Command : kept[c] = Was(c)
  OBVIOUS
<1> HIDE DEF kept, Was
<1>6. /\ backoff' \in [Command -> Entry]
      /\ \A c \in Command : /\ backoff'[c].attempts = Was(c).attempts
                            /\ backoff'[c].elapsed = Was(c).elapsed
  BY <1>2, <1>4, <1>5 DEF Entry
<1>7. /\ queue' \in Seq(Command) /\ Len(queue') <= MaxQueued
      /\ stage' \in [Command -> Stage] /\ Slots'
      /\ \A c \in Command :
           stage'[c] # stage[c] => /\ stage[c] = "none" /\ stage'[c] = "claiming"
                                   /\ backoff'[c].elapsed
  <2>1. /\ stage \in [Command -> Stage]
        /\ \A kind \in Kind : Cardinality(OfKind(Busy(stage), kind)) <= Room(kind)
    BY <1>1 DEF TypeOK, Stage, OfKind, Busy, Dispatching
  <2>2. Queued \in Seq(Command) /\ Len(Queued) <= MaxQueued
    BY <1>1, QueuedIs
  <2> QED
    BY <1>2, <2>1, <2>2, PumpIs
<1>8. reads' \in Reads /\ reads'.phase # "read"
  BY <1>1, <1>2, ReadsAre
<1>9. /\ status' = status /\ paused' = paused /\ owed' = owed /\ rejected' = rejected
      /\ excused' = excused
  BY <1>2 DEF db, history
<1>10. OverStays
  BY <1>9 DEF OverStays
<1>11. ASSUME NEW d \in Command, Keeps(d) PROVE Known(d)'
  <2>1. Rests(d) /\ NoListing(d)
    BY <1>6, <1>7, <1>8, <1>9, <1>11 DEF Rests, NoListing, Was
  <2> QED
    BY <1>1, <1>10, <2>1, RestsKnown
<1>12. ASSUME NEW d \in Command, ~Keeps(d) PROVE Known(d)'
  <2>1. /\ d \notin ToSet(reads.listing) /\ stage[d] = "none" /\ ~backoff[d].fresh
    BY <1>12 DEF Keeps
  <2>2. backoff'[d].attempts = 0 /\ stage'[d] \in {"none", "claiming"}
    BY <1>6, <1>7, <1>12, <2>1 DEF Was, NoEntry
  <2>3. /\ Known(d) /\ (WasClaimed(d)' <=> WasClaimed(d)) /\ (Clean(d)' <=> Clean(d))
        /\ Uncounted(d)' = 0 /\ (NextOfThread(d)' <=> NextOfThread(d))
    BY <1>1, <1>9, <2>1, <2>2 DEF WasClaimed, Clean, Uncounted, NextOfThread
  <2>4. Staged(d)' /\ History(d)'
    BY <1>9, <2>1, <2>2, <2>3 DEF Known, Staged, History
  <2>5. d \notin excused /\ status[d] = "pending" => Clean(d)
    BY <1>2, <2>1, <2>3 DEF Known, Noted
  <2>6. d \notin excused => Paced(d)' /\ Counted(d)' /\ Noted(d)'
    <3>1. ~(status'[d] = "dispatched" /\ stage'[d] = "dispatching")
      BY <2>2
    <3>2. d \notin excused => Paced(d)'
      BY <1>9, <2>3, <2>5 DEF Known, Paced, Clean
    <3> QED
      BY <1>8, <1>9, <2>2, <2>3, <2>5, <3>1, <3>2 DEF Counted, Noted, Clean
  <2>7. 0 <= rejected'[d]
    BY <1>1, <1>9, CoordinatorAssumption DEF TypeOK
  <2> QED
    BY <1>9, <2>2, <2>3, <2>4, <2>6, <2>7 DEF Known
<1>13. TypeOK'
  BY <1>1, <1>2, <1>6, <1>7, <1>8, <1>9 DEF TypeOK, Entry, Reads, Stage, Slots, Rescheduled
<1>14. Quiet'
  <2>1. life # "off"
    BY <1>1, <1>2 DEF Quiet, OffIsQuiet
  <2>2. timer' => timer \/ life = "on"
    BY <1>1, <1>2 DEF Rescheduled, TypeOK
  <2> QED
    BY <1>1, <1>2, <2>1, <2>2 DEF Quiet, OffIsQuiet
<1> QED
  BY <1>11, <1>12, <1>13, <1>14 DEF Inv

-----------------------------------------------------------------------------
(* 8. The coordinator. *)

(* All of it holds of every state of the coordinator.                      *)
LEMMA Invariance == Spec => []Inv
<1>1. Init => Inv
  <2> SUFFICES ASSUME Init PROVE Inv
    OBVIOUS
  <2>1. /\ status = [c \in Command |-> "none"] /\ paused = {} /\ ready = Command \ Absent
        /\ queue = <<>> /\ stage = [c \in Command |-> "none"]
        /\ backoff = [c \in Command |-> NoEntry]
        /\ reads = IdleReads /\ timer = FALSE /\ life = "off"
        /\ owed = {} /\ rejected = [c \in Command |-> 0] /\ excused = {}
    BY DEF Init
  <2>2. /\ NoEntry \in Entry /\ NoEntry.attempts = 0
        /\ MaxRejection \in Nat /\ MaxQueued \in Nat
    BY CoordinatorAssumption DEF NoEntry, Entry
  <2>3. IdleReads \in Reads /\ IdleReads.phase = "idle"
    <3>1. <<>> \in Seq(Command)
      OBVIOUS
    <3> QED
      BY <3>1 DEF IdleReads, Reads
  <2>4. Dispatching = {}
    BY <2>1 DEF Dispatching
  <2>5. ASSUME NEW kind \in Kind
        PROVE  Cardinality({c \in Dispatching : KindOf(c) = kind}) <= Room(kind)
    <3>1. {c \in Dispatching : KindOf(c) = kind} = {}
      BY <2>4
    <3>2. Cardinality({}) = 0
      BY FS_EmptySet
    <3> QED
      BY <2>5, <3>1, <3>2, Rooms
  <2>6. queue \in Seq(Command) /\ Len(queue) <= MaxQueued
    BY <2>1, <2>2
  <2>7. backoff \in [Command -> Entry] /\ rejected \in [Command -> 0..MaxRejection]
    BY <2>1, <2>2
  <2>8. TypeOK
    BY <2>1, <2>3, <2>5, <2>6, <2>7 DEF TypeOK, Entry, Reads
  <2>9. ASSUME NEW d \in Command PROVE Known(d)
    BY <2>1, <2>2, <2>3
    DEF Known, Staged, History, WasClaimed, Clean, Uncounted, Paced, Counted, Noted
  <2>10. Quiet
    BY <2>1, <2>3, <2>4 DEF Quiet, OffIsQuiet
  <2> QED
    BY <2>8, <2>9, <2>10 DEF Inv
<1>2. Inv /\ [Next]_vars => Inv'
  <2> SUFFICES ASSUME Inv, [Next]_vars PROVE Inv'
    OBVIOUS
  <2>1. CASE UNCHANGED vars
    BY <2>1
    DEF Inv, TypeOK, Known, Staged, History, WasClaimed, NextOfThread, Clean, Uncounted, Paced,
        Counted, Noted, Quiet, OffIsQuiet, Dispatching, NoEntry, vars, db, history
  <2>2. CASE Wake \/ TimerFires \/ ReadListing \/ ReadFails \/ ApplyListing
    BY <2>2, WakeHolds, ReadListingHolds, ReadFailsHolds, ApplyListingHolds
  <2>3. CASE Start \/ Stop \/ Stopped
    BY <2>3, StartHolds, StopHolds, StoppedHolds
  <2>4. ASSUME NEW c \in Command, Settles(c) \/ ClaimFails(c) \/ Unsettled(c) PROVE Inv'
    BY <2>4, ClaimHolds, MissHolds, AcceptedHolds, FailedHolds, BackOffHolds DEF Settles
  <2>5. ASSUME NEW c \in Command, \/ Retry(c) \/ Elapses(c) \/ Create(c) \/ Ends(c)
                                  \/ Requeued(c) \/ Pause(c) \/ Comes(c)
        PROVE  Inv'
    BY <2>5, RetryHolds, ElapsesHolds, RowHolds, PauseHolds
  <2> QED
    BY <2>1, <2>2, <2>3, <2>4, <2>5 DEF Next
<1> QED
  BY <1>1, <1>2, PTL DEF Spec

(* No more dispatches than slots, none of a kind at the cost of another;   *)
(* no poll forgets a rejection (#poll, #pump, #backOff), and what was      *)
(* stopped is quiet (#stop).                                               *)
THEOREM CoordinatorSoundAlways == Spec => []CoordinatorSound
<1>1. Inv => CoordinatorSound
  <2> SUFFICES ASSUME Inv PROVE CoordinatorSound
    OBVIOUS
  <2>1. ASSUME NEW c \in Command \ excused, status[c] = "pending", stage[c] # "retried"
        PROVE  backoff[c].attempts = rejected[c]
    <3>1. backoff[c].attempts \in 0..MaxRejection /\ MaxRejection \in Nat
      BY CoordinatorAssumption DEF Inv, TypeOK
    <3> QED
      BY <2>1, <3>1 DEF Inv, Known, Counted, Uncounted
  <2> QED
    BY <2>1 DEF Inv, CoordinatorSound, RejectionsCounted, Quiet
<1> QED
  BY <1>1, Invariance, PTL

(* A command is not claimed while the back-off of its last rejection runs, *)
(* whatever was listed, queued or dropped meanwhile (#poll, #execute).     *)
THEOREM RetriesArePacedAlways == Spec => RetriesArePaced
<1> DEFINE Step == \A c \in Command : status[c] = "pending" /\ status'[c] = "dispatched"
                                       => c \notin owed \ excused
<1>1. Inv /\ [Next]_vars => [Step]_vars
  <2> SUFFICES ASSUME Inv, Next, NEW c \in Command,
                      status[c] = "pending", status'[c] = "dispatched"
               PROVE  c \notin owed \ excused
    OBVIOUS
  <2>1. stage[c] = "claiming"
    <3>1. status \in [Command -> Statuses]
      BY DEF Inv, TypeOK, Statuses
    <3>2. status' # status
      OBVIOUS
    <3>3. PICK d \in Command : \/ Claim(d) \/ Accepted(d) \/ Failed(d) \/ Retry(d)
                               \/ Create(d) \/ Ends(d) \/ Requeued(d)
      BY <3>2
      DEF Next, Settles, Wake, TimerFires, ReadListing, ReadFails, ApplyListing, ClaimMisses,
          ClaimFails, Unsettled, BackOff, Elapses, Pause, Comes, Start, Stop, Stopped, db
    <3>4. CASE Claim(d)
      <4>1. stage[d] = "claiming" /\ status' = [status EXCEPT ![d] = "dispatched"]
        BY <3>4 DEF Claim
      <4> QED
        BY <3>1, <4>1
    <3>5. CASE \/ Accepted(d) \/ Failed(d) \/ Retry(d) \/ Create(d) \/ Ends(d) \/ Requeued(d)
      <4>1. \E s \in {"over", "pending"} :
              \/ status' = [status EXCEPT ![d] = s]
              \/ status' = [status EXCEPT ![d] = IF @ = "dispatched" THEN s ELSE @]
              \/ status' = [status EXCEPT ![d] = IF @ = "dispatched" /\ ~IsRun[d] THEN s ELSE @]
        BY <3>5 DEF Accepted, Failed, Retry, Create, Ends, Requeued
      <4> QED
        BY <3>1, <4>1
    <3> QED
      BY <3>3, <3>4, <3>5
  <2> QED
    BY <2>1 DEF Inv, Known, Paced
<1> QED
  BY <1>1, Invariance, PTL DEF Spec, RetriesArePaced
=============================================================================
