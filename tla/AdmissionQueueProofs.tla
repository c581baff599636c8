------------------------ MODULE AdmissionQueueProofs ------------------------
(***************************************************************************)
(* Ordering and books of the keyed admission queue, for any keys, sizes,   *)
(* limits and number of commands.  NoOvertaking rests on two facts:        *)
(* heldKeys counts every command that is inside the queue's section        *)
(* (HeldCoversHolders), and #pump starts a command only past earlier ones  *)
(* that share no key.  The books (Books) rest on order in turn: it is why  *)
(* no key is held twice, so that counting it down frees it exactly.        *)
(***************************************************************************)
EXTENDS AdmissionQueue, FiniteSetTheorems, WellFoundedInduction, TLAPS

(* A command has arrived exactly when its number is at most arrived.       *)
ArrivedInOrder == \A t \in Task : stage[t] # "unsent" <=> t <= arrived

(* No count is negative, and no held key reads as free.                    *)
Covers(held, st, ks) ==
  /\ \A k \in Key : held[k] >= 0
  /\ \A t \in Task : st[t] \in Holding => \A k \in ks[t] : held[k] >= 1

HeldCoversHolders == Covers(heldKeys, stage, keys)

(* NoOvertaking of a given assignment of stages and keys.                  *)
Ordered(st, ks) ==
  \A t, u \in Task :
    u < t /\ Shared(ks, t, u) /\ st[t] \in Holding \cup {"finished"}
      => st[u] \in Ended

(* A command sleeps after a conflict only with a run left to it, which is  *)
(* what keeps the run counter in its type.                                 *)
RunsLeft(st, runs) ==
  \A t \in Task : st[t] = "backoff" => runs[t] < MaxConflictAttempts

IInv ==
  /\ TypeOK
  /\ ArrivedInOrder
  /\ HeldCoversHolders
  /\ RunsLeft(stage, attempt)
  /\ NoOvertaking

-----------------------------------------------------------------------------
LEMMA TaskFinite == IsFiniteSet(Task) /\ Task \subseteq Nat
  BY LimitAssumption, FS_Interval DEF Task

LEMMA SubTaskCardinality ==
  ASSUME NEW S, S \subseteq Task
  PROVE  IsFiniteSet(S) /\ Cardinality(S) \in Nat
  BY TaskFinite, FS_Subset, FS_CardinalityType

(* A started command holds at least one count of each key it names.        *)
LEMMA StartedCounts ==
  ASSUME NEW S, S \subseteq Task, NEW t \in S
  PROVE  Cardinality(S) >= 1
<1>1. IsFiniteSet(S) /\ Cardinality(S) \in Nat
  BY SubTaskCardinality
<1>2. Cardinality(S) # 0
  BY <1>1, FS_EmptySet
<1> QED
  BY <1>1, <1>2

(* What #pump preserves, given fields the caller has just changed: the     *)
(* step lemma of both its callers, execute and the release of a command.   *)
LEMMA PumpKeepsOrder ==
  ASSUME NEW st \in [Task -> Stage], NEW ks \in [Task -> SUBSET Key], NEW b,
         NEW held \in [Key -> Int], NEW flying \in Int, NEW queued,
         NEW n \in 0..MaxTask,
         attempt \in [Task -> 0..MaxConflictAttempts],
         closer \in [Closer -> {"none", "waiting", "idle"}],
         \A t \in Task : st[t] # "unsent" <=> t <= n,
         Covers(held, st, ks), Ordered(st, ks), RunsLeft(st, attempt),
         PumpFrom(st, ks, b, held, flying, queued)
  PROVE  /\ stage' \in [Task -> Stage]
         /\ attempt' \in [Task -> 0..MaxConflictAttempts]
         /\ inFlight' \in Int
         /\ heldKeys' \in [Key -> Int]
         /\ closer' \in [Closer -> {"none", "waiting", "idle"}]
         /\ \A t \in Task : stage'[t] # "unsent" <=> t <= n
         /\ Covers(heldKeys', stage', ks)
         /\ Ordered(stage', ks)
         /\ RunsLeft(stage', attempt')
<1> DEFINE go == Started(st, ks, held, flying)
           ofKey(k) == {t \in go : k \in ks[t]}
<1>1. /\ go \subseteq Task
      /\ \A t \in go : st[t] = "pending"
      /\ \A t \in go : \A k \in ks[t] : held[k] <= 0
      /\ \A t \in go, u \in Task : u < t /\ st[u] = "pending" => ~Shared(ks, t, u)
  BY DEF Started, Ready, In, Waiting
<1>2. /\ stage' = [t \in Task |-> IF t \in go THEN "running" ELSE st[t]]
      /\ attempt' = [t \in Task |-> IF t \in go THEN 1 ELSE attempt[t]]
      /\ heldKeys' = [k \in Key |-> held[k] + Cardinality(ofKey(k))]
      /\ inFlight' = flying + Cardinality(go)
      /\ closer' = Woken(closer, stage', inFlight')
  BY DEF PumpFrom
<1>3. \A k \in Key : ofKey(k) \subseteq Task /\ Cardinality(ofKey(k)) \in Nat
  BY <1>1, SubTaskCardinality
<1>4. Cardinality(go) \in Nat
  BY <1>1, SubTaskCardinality
<1> HIDE DEF go
<1>5. /\ stage' \in [Task -> Stage]
      /\ \A t \in Task : stage'[t] # "unsent" <=> t <= n
  BY <1>1, <1>2 DEF Stage, Holding
<1>6. attempt' \in [Task -> 0..MaxConflictAttempts]
  BY <1>2, LimitAssumption
<1>7. inFlight' \in Int /\ heldKeys' \in [Key -> Int]
  BY <1>2, <1>3, <1>4
<1>8. closer' \in [Closer -> {"none", "waiting", "idle"}]
  BY <1>2 DEF Woken
<1>9. Covers(heldKeys', stage', ks)
  <2>1. \A k \in Key : heldKeys'[k] >= held[k] /\ heldKeys'[k] >= 0
    BY <1>2, <1>3 DEF Covers
  <2>2. ASSUME NEW t \in Task, stage'[t] \in Holding, NEW k \in ks[t]
        PROVE  heldKeys'[k] >= 1
    <3>1. k \in Key
      OBVIOUS
    <3>2. CASE t \in go
      <4>1. t \in ofKey(k) /\ ofKey(k) \subseteq Task
        BY <3>2, <3>1, <1>3
      <4>2. Cardinality(ofKey(k)) >= 1
        BY <4>1, StartedCounts
      <4>3. heldKeys'[k] = held[k] + Cardinality(ofKey(k))
        BY <1>2, <3>1
      <4> QED
        BY <3>1, <4>2, <4>3, <1>3 DEF Covers
    <3>3. CASE t \notin go
      <4>1. st[t] \in Holding
        BY <1>2, <2>2, <3>3
      <4>2. held[k] >= 1
        BY <4>1 DEF Covers
      <4> QED
        BY <4>2, <3>1, <2>1, <1>7
    <3> QED
      BY <3>2, <3>3
  <2> QED
    BY <2>1, <2>2 DEF Covers
<1>10. Ordered(stage', ks)
  <2> SUFFICES ASSUME NEW t \in Task, NEW u \in Task, u < t, Shared(ks, t, u),
                      stage'[t] \in Holding \cup {"finished"}
               PROVE  stage'[u] \in Ended
    BY DEF Ordered
  <2>1. u \notin go => stage'[u] = st[u]
    BY <1>2
  <2>2. st[u] \in Ended => u \notin go
    BY <1>1 DEF Ended
  <2>3. CASE t \notin go
    <3>1. st[u] \in Ended
      BY <1>2, <2>3 DEF Ordered
    <3> QED
      BY <3>1, <2>1, <2>2
  <2>4. CASE t \in go
    <3>1. st[u] # "pending"
      BY <1>1, <2>4
    <3>2. st[u] # "unsent"
      <4>1. st[t] # "unsent"
        BY <1>1, <2>4
      <4>2. t <= n
        BY <4>1
      <4> QED
        BY <4>2, TaskFinite DEF Task
    <3>3. st[u] \notin Holding
      <4>1. PICK k \in Key : k \in ks[t] /\ k \in ks[u]
        BY DEF Shared
      <4>2. held[k] <= 0
        BY <1>1, <2>4, <4>1
      <4> QED
        BY <4>1, <4>2 DEF Covers
    <3> QED
      BY <3>1, <3>2, <3>3, <2>1, <2>2 DEF Stage, Waiting
  <2> QED
    BY <2>3, <2>4
<1>11. RunsLeft(stage', attempt')
  BY <1>2 DEF RunsLeft
<1> QED
  BY <1>5, <1>6, <1>7, <1>8, <1>9, <1>10, <1>11

-----------------------------------------------------------------------------
LEMMA InitHolds == Init => IInv
<1> SUFFICES ASSUME Init PROVE IInv
  OBVIOUS
<1>1. TypeOK
  <2>1. 0 \in 0..MaxTask /\ 0 \in 0..MaxConflictAttempts
    BY LimitAssumption
  <2>2. /\ arrived \in 0..MaxTask
        /\ stage \in [Task -> Stage]
        /\ keys \in [Task -> SUBSET Key]
    BY <2>1 DEF Init, Stage
  <2>3. bytes \in [Task -> Size \cup {0}]
    BY DEF Init
  <2>4. attempt \in [Task -> 0..MaxConflictAttempts]
    BY <2>1 DEF Init
  <2>5. /\ inFlight \in Int /\ heldKeys \in [Key -> Int]
    BY DEF Init
  <2>6. closed \in BOOLEAN
    BY DEF Init
  <2>7. closer \in [Closer -> {"none", "waiting", "idle"}]
    BY DEF Init
  <2> QED
    BY <2>2, <2>3, <2>4, <2>5, <2>6, <2>7 DEF TypeOK
<1>2. ArrivedInOrder
  BY TaskFinite DEF Init, ArrivedInOrder, Task
<1>3. \A t \in Task : stage[t] \notin Holding \cup {"finished"}
  BY DEF Init, Holding
<1>4. HeldCoversHolders /\ NoOvertaking
  BY <1>3 DEF Init, HeldCoversHolders, Covers, NoOvertaking
<1>5. RunsLeft(stage, attempt)
  BY DEF Init, RunsLeft
<1> QED
  BY <1>1, <1>2, <1>4, <1>5 DEF IInv

(* The steps that neither pump nor close: one command changes its stage    *)
(* within Holding, so nothing starts and nothing ends.                     *)
LEMMA StageWithinHolding ==
  ASSUME IInv, NEW t \in Task, NEW s \in Holding,
         stage[t] \in Holding, stage' = [stage EXCEPT ![t] = s],
         attempt' \in [Task -> 0..MaxConflictAttempts], RunsLeft(stage', attempt'),
         UNCHANGED <<arrived, keys, bytes, inFlight, heldKeys, closed, closer>>
  PROVE  IInv'
<1>1. TypeOK'
  BY DEF IInv, TypeOK, Stage
<1>2. \A u \in Task : stage'[u] \in Holding <=> stage[u] \in Holding
  BY DEF IInv, TypeOK
<1>3. \A u \in Task : stage'[u] \in Holding \/ stage'[u] = stage[u]
  BY DEF IInv, TypeOK
<1>4. \A u \in Task : stage[u] \in Holding =>
                        stage[u] \notin Ended \cup {"finished", "unsent"}
  BY DEF Holding, Ended
<1>5. ArrivedInOrder'
  BY <1>2, <1>3, <1>4 DEF IInv, ArrivedInOrder, Holding
<1>6. HeldCoversHolders'
  BY <1>2 DEF IInv, HeldCoversHolders, Covers
<1>7. NoOvertaking'
  BY <1>2, <1>3, <1>4 DEF IInv, NoOvertaking, Shared
<1> QED
  BY <1>1, <1>5, <1>6, <1>7 DEF IInv

LEMMA StepHolds == IInv /\ [Next]_vars => IInv'
<1> SUFFICES ASSUME IInv, [Next]_vars
             PROVE  IInv'
  OBVIOUS
<1>0. TypeOK /\ ArrivedInOrder /\ Covers(heldKeys, stage, keys) /\ Ordered(stage, keys)
      /\ RunsLeft(stage, attempt)
  BY DEF IInv, HeldCoversHolders, NoOvertaking, Ordered
<1> USE DEF HeldCoversHolders
<1>1. ASSUME NEW ks \in SUBSET Key, NEW b \in Size, Execute(ks, b)
      PROVE  IInv'
  <2> DEFINE t == arrived + 1
             st == [stage EXCEPT ![t] = "pending"]
             ks1 == [keys EXCEPT ![t] = ks]
             b1 == [bytes EXCEPT ![t] = b]
  <2>1. /\ t \in Task /\ t \in 0..MaxTask
        /\ \A u \in Task : stage[u] # "unsent" <=> u < t
        /\ arrived' = t /\ keys' = ks1 /\ bytes' = b1 /\ closed' = closed
    BY <1>0, <1>1, TaskFinite, LimitAssumption DEF Execute, Task, TypeOK, ArrivedInOrder
  <2>2. keys' \in [Task -> SUBSET Key] /\ bytes' \in [Task -> Size \cup {0}]
    BY <1>0, <2>1 DEF TypeOK
  <2>3. \A u \in Task : u # t => ks1[u] = keys[u]
    BY <1>0 DEF TypeOK
  <2> HIDE DEF ks1, b1, t
  <2>4. CASE ~Admits(b)
    <3>1. /\ stage' = [stage EXCEPT ![t] = "refused"]
          /\ UNCHANGED <<attempt, queuedBytes, inFlight, heldKeys, closer>>
      BY <1>1, <2>4 DEF Execute, t
    <3>2. \A u \in Task : stage'[u] = IF u = t THEN "refused" ELSE stage[u]
      BY <3>1, <2>1, <1>0 DEF TypeOK
    <3>3. TypeOK'
      BY <1>0, <2>1, <2>2, <3>1 DEF TypeOK, Stage, Ended
    <3>4. ArrivedInOrder'
      BY <2>1, <3>2, TaskFinite DEF ArrivedInOrder
    <3>5. HeldCoversHolders'
      BY <1>0, <2>1, <2>3, <3>1, <3>2 DEF Covers, Holding
    <3>6. NoOvertaking'
      <4> SUFFICES ASSUME NEW v \in Task, NEW u \in Task, u < v, Shared(ks1, v, u),
                          stage'[v] \in Holding \cup {"finished"}
                   PROVE  stage'[u] \in Ended
        BY <2>1 DEF NoOvertaking
      <4>1. v # t /\ stage[v] = stage'[v]
        BY <3>2 DEF Holding
      <4>2. stage[v] # "unsent"
        BY <4>1 DEF Holding
      <4>3. u # t
        BY <2>1, <4>2, TaskFinite
      <4>4. stage[u] \in Ended
        BY <1>0, <2>3, <4>1, <4>3 DEF Ordered, Shared
      <4> QED
        BY <3>2, <4>4 DEF Ended
    <3>7. RunsLeft(stage', attempt')
      BY <1>0, <3>1, <3>2 DEF RunsLeft
    <3> QED
      BY <3>3, <3>4, <3>5, <3>6, <3>7 DEF IInv
  <2>5. CASE Admits(b)
    <3>1. PumpFrom(st, ks1, b1, heldKeys, inFlight, queuedBytes + b)
      BY <1>1, <2>5 DEF Execute, t, ks1, b1
    <3>2. \A u \in Task : st[u] = IF u = t THEN "pending" ELSE stage[u]
      BY <2>1, <1>0 DEF TypeOK
    <3>3. st \in [Task -> Stage]
      BY <1>0 DEF TypeOK, Stage, Waiting
    <3>4. \A u \in Task : st[u] # "unsent" <=> u <= t
      BY <2>1, <3>2, TaskFinite
    <3>5. Covers(heldKeys, st, ks1)
      BY <1>0, <2>3, <3>2 DEF Covers, Holding
    <3>6. Ordered(st, ks1)
      <4> SUFFICES ASSUME NEW v \in Task, NEW u \in Task, u < v, Shared(ks1, v, u),
                          st[v] \in Holding \cup {"finished"}
                   PROVE  st[u] \in Ended
        BY DEF Ordered
      <4>1. v # t /\ st[v] = stage[v] /\ stage[v] # "unsent"
        BY <3>2 DEF Holding
      <4>2. u # t
        BY <2>1, <4>1, TaskFinite
      <4>3. stage[u] \in Ended
        BY <1>0, <2>3, <4>1, <4>2 DEF Ordered, Shared
      <4> QED
        BY <3>2, <4>2, <4>3
    <3>7. /\ ks1 \in [Task -> SUBSET Key]
          /\ heldKeys \in [Key -> Int] /\ inFlight \in Int
          /\ attempt \in [Task -> 0..MaxConflictAttempts]
          /\ closer \in [Closer -> {"none", "waiting", "idle"}]
          /\ RunsLeft(st, attempt)
      BY <1>0, <2>1, <2>2, <3>2 DEF TypeOK, RunsLeft
    <3> HIDE DEF st
    <3>8. /\ stage' \in [Task -> Stage]
          /\ attempt' \in [Task -> 0..MaxConflictAttempts]
          /\ inFlight' \in Int
          /\ heldKeys' \in [Key -> Int]
          /\ closer' \in [Closer -> {"none", "waiting", "idle"}]
          /\ \A u \in Task : stage'[u] # "unsent" <=> u <= t
          /\ Covers(heldKeys', stage', ks1)
          /\ Ordered(stage', ks1)
          /\ RunsLeft(stage', attempt')
      BY <2>1, <3>1, <3>3, <3>4, <3>5, <3>6, <3>7, PumpKeepsOrder
    <3> QED
      BY <1>0, <2>1, <2>2, <3>8
         DEF IInv, TypeOK, ArrivedInOrder, NoOvertaking, Ordered
  <2> QED
    BY <2>4, <2>5
<1>2. ASSUME NEW c \in Closer, Close(c)
      PROVE  IInv'
  <2>1. /\ closed' = TRUE
        /\ \A t \in Task : stage'[t] = IF ~closed /\ stage[t] = "pending"
                                      THEN "rejected" ELSE stage[t]
        /\ UNCHANGED <<arrived, keys, bytes, attempt, inFlight, heldKeys>>
    BY <1>2 DEF Close
  <2>2. TypeOK'
    BY <1>0, <1>2 DEF Close, TypeOK, Stage, Ended
  <2>3. ArrivedInOrder'
    BY <1>0, <2>1 DEF ArrivedInOrder
  <2>4. HeldCoversHolders'
    BY <1>0, <2>1 DEF Covers, Holding
  <2>5. NoOvertaking'
    BY <1>0, <2>1 DEF NoOvertaking, Ordered, Holding, Ended, Shared
  <2>6. RunsLeft(stage', attempt')
    BY <1>0, <2>1 DEF RunsLeft
  <2> QED
    BY <2>2, <2>3, <2>4, <2>5, <2>6 DEF IInv
<1>3. ASSUME NEW t \in Task, Conflict(t)
      PROVE  IInv'
  <2>1. RunsLeft(stage', attempt')
    BY <1>0, <1>3 DEF Conflict, MayRetry, TypeOK, RunsLeft
  <2> QED
    BY <1>0, <1>3, <2>1, StageWithinHolding DEF Conflict, MayRetry, TypeOK, Holding
<1>4. ASSUME NEW t \in Task, Retry(t)
      PROVE  IInv'
  <2>1. attempt' \in [Task -> 0..MaxConflictAttempts]
    <3>1. attempt[t] < MaxConflictAttempts /\ attempt[t] \in 0..MaxConflictAttempts
      BY <1>0, <1>4 DEF Retry, RunsLeft, TypeOK
    <3>2. attempt[t] + 1 \in 0..MaxConflictAttempts
      BY <3>1, LimitAssumption
    <3> QED
      BY <1>0, <1>4, <3>2 DEF Retry, TypeOK
  <2>2. RunsLeft(stage', attempt')
    BY <1>0, <1>4 DEF Retry, TypeOK, RunsLeft
  <2> QED
    BY <1>0, <1>4, <2>1, <2>2, StageWithinHolding DEF Retry, TypeOK, Holding
<1>5. ASSUME NEW t \in Task, Settle(t)
      PROVE  IInv'
  <2>1. RunsLeft(stage', attempt')
    BY <1>0, <1>5 DEF Settle, TypeOK, RunsLeft
  <2> QED
    BY <1>0, <1>5, <2>1, StageWithinHolding DEF Settle, TypeOK, Holding
<1>6. ASSUME NEW t \in Task, Release(t)
      PROVE  IInv'
  <2> DEFINE st == [stage EXCEPT ![t] = "finished"]
             held == [k \in Key |-> IF k \in keys[t] THEN heldKeys[k] - 1 ELSE heldKeys[k]]
  <2>1. /\ PumpFrom(st, keys, bytes, held, inFlight - 1, queuedBytes)
        /\ stage[t] = "settled"
        /\ UNCHANGED <<arrived, keys, bytes, closed>>
    BY <1>6 DEF Release, Freed
  <2>2. /\ st \in [Task -> Stage]
        /\ \A u \in Task : st[u] = IF u = t THEN "finished" ELSE stage[u]
    BY <1>0 DEF TypeOK, Stage, Ended
  <2>3. /\ keys \in [Task -> SUBSET Key] /\ held \in [Key -> Int]
        /\ inFlight - 1 \in Int
        /\ attempt \in [Task -> 0..MaxConflictAttempts]
        /\ closer \in [Closer -> {"none", "waiting", "idle"}]
        /\ arrived \in 0..MaxTask
    BY <1>0 DEF TypeOK
  <2>9. RunsLeft(st, attempt)
    BY <1>0, <2>2 DEF RunsLeft
  <2>4. \A u \in Task : st[u] # "unsent" <=> u <= arrived
    BY <1>0, <2>1, <2>2 DEF ArrivedInOrder
  <2>5. ASSUME NEW u \in Task, u # t, stage[u] \in Holding
        PROVE  keys[u] \cap keys[t] = {}
    <3>1. stage[t] \in Holding /\ stage[t] \notin Ended /\ stage[u] \notin Ended
      BY <2>1, <2>5 DEF Holding, Ended
    <3>2. u < t \/ t < u
      BY <2>5, TaskFinite
    <3> QED
      BY <1>0, <2>5, <3>1, <3>2 DEF Ordered, Shared
  <2>6. Covers(held, st, keys)
    <3>1. \A k \in keys[t] : heldKeys[k] >= 1
      BY <1>0, <2>1 DEF Covers, Holding
    <3>2. \A k \in Key : held[k] >= 0
      BY <1>0, <3>1 DEF Covers, TypeOK
    <3>3. ASSUME NEW u \in Task, st[u] \in Holding, NEW k \in keys[u]
          PROVE  held[k] >= 1
      <4>1. u # t /\ stage[u] \in Holding
        BY <2>2, <3>3 DEF Holding
      <4>2. k \notin keys[t] /\ k \in Key
        BY <2>3, <2>5, <4>1
      <4>3. heldKeys[k] >= 1
        BY <1>0, <4>1 DEF Covers
      <4> QED
        BY <4>2, <4>3
    <3> QED
      BY <3>2, <3>3 DEF Covers
  <2>7. Ordered(st, keys)
    BY <1>0, <2>1, <2>2 DEF Ordered, Holding, Ended
  <2> HIDE DEF st, held
  <2>8. /\ stage' \in [Task -> Stage]
        /\ attempt' \in [Task -> 0..MaxConflictAttempts]
        /\ inFlight' \in Int
        /\ heldKeys' \in [Key -> Int]
        /\ closer' \in [Closer -> {"none", "waiting", "idle"}]
        /\ \A u \in Task : stage'[u] # "unsent" <=> u <= arrived
        /\ Covers(heldKeys', stage', keys)
        /\ Ordered(stage', keys)
        /\ RunsLeft(stage', attempt')
    BY <2>1, <2>2, <2>3, <2>4, <2>6, <2>7, <2>9, PumpKeepsOrder
  <2> QED
    BY <1>0, <2>1, <2>8 DEF IInv, TypeOK, ArrivedInOrder, NoOvertaking, Ordered
<1>7. CASE UNCHANGED vars
  BY <1>0, <1>7 DEF vars, IInv, TypeOK, ArrivedInOrder, Covers, NoOvertaking, Ordered, Shared,
                RunsLeft
<1> QED
  BY <1>1, <1>2, <1>3, <1>4, <1>5, <1>6, <1>7 DEF Next

-----------------------------------------------------------------------------
(* The queue's fields keep their types through every turn.                 *)
THEOREM TypeCorrect == Spec => []TypeOK
<1>1. IInv => TypeOK
  BY DEF IInv
<1> QED
  BY InitHolds, StepHolds, <1>1, PTL DEF Spec

(* execute's promise to its callers: for any number of commands, keys and  *)
(* slots, a command starts only after every earlier admitted command that  *)
(* shares a key with it has ended, conflict retries included.              *)
THEOREM OrderKept == Spec => []NoOvertaking
<1>1. IInv => NoOvertaking
  BY DEF IInv
<1> QED
  BY InitHolds, StepHolds, <1>1, PTL DEF Spec

-----------------------------------------------------------------------------
(* The books.  Sums of bytes first: SumBytes counts the bytes one by one,  *)
(* so that it adds up over disjoint sets of commands.                      *)

(* The bytes of the commands S, each named by its command and its place.   *)
BytesOf(b, S) == UNION {{t} \X (1..b[t]) : t \in S}

LEMMA BytesFinite ==
  ASSUME NEW b \in [Task -> Nat], NEW S, S \subseteq Task
  PROVE  IsFiniteSet(BytesOf(b, S)) /\ Cardinality(BytesOf(b, S)) \in Nat
<1>1. IsFiniteSet(S)
  BY SubTaskCardinality
<1> DEFINE part == [t \in S |-> {t} \X (1..b[t])]
           Parts == {{t} \X (1..b[t]) : t \in S}
<1>2. part \in Surjection(S, Parts)
  BY DEF Surjection
<1>3. IsFiniteSet(Parts)
  BY <1>1, <1>2, FS_Surjection
<1>4. ASSUME NEW t \in S
      PROVE  IsFiniteSet({t} \X (1..b[t]))
  <2>1. IsFiniteSet(1..b[t])
    BY FS_Interval
  <2> QED
    BY <2>1, FS_Singleton, FS_Product
<1>5. IsFiniteSet(UNION Parts)
  BY <1>3, <1>4, FS_UNION
<1> QED
  BY <1>5, FS_CardinalityType DEF BytesOf

(* One command's bytes.                                                    *)
LEMMA BytesOfOne ==
  ASSUME NEW b \in [Task -> Nat], NEW t \in Task
  PROVE  SumBytes(b, {t}) = b[t]
<1>1. b[t] \in Nat
  OBVIOUS
<1>2. UNION {{u} \X (1..b[u]) : u \in {t}} = {t} \X (1..b[t])
  OBVIOUS
<1>3. IsFiniteSet({t}) /\ Cardinality({t}) = 1
  BY FS_Singleton
<1>4. IsFiniteSet(1..b[t]) /\ Cardinality(1..b[t]) = b[t]
  BY <1>1, FS_Interval
<1>5. Cardinality({t} \X (1..b[t])) = b[t]
  <2> DEFINE One == {t}
             Bytes == 1..b[t]
  <2>1. IsFiniteSet(One) /\ Cardinality(One) = 1
    BY <1>3
  <2>2. IsFiniteSet(Bytes) /\ Cardinality(Bytes) = b[t]
    BY <1>4
  <2> HIDE DEF One, Bytes
  <2>3. Cardinality(One \X Bytes) = Cardinality(One) * Cardinality(Bytes)
    BY <2>1, <2>2, FS_Product
  <2>4. Cardinality(One) * Cardinality(Bytes) = b[t]
    BY <1>1, <2>1, <2>2
  <2> QED
    BY <2>3, <2>4 DEF One, Bytes
<1> QED
  BY <1>2, <1>5 DEF SumBytes

(* The bytes of two sets of commands that have none in common.             *)
LEMMA BytesAdd ==
  ASSUME NEW b \in [Task -> Nat], NEW S, S \subseteq Task,
         NEW T, T \subseteq Task, S \cap T = {}
  PROVE  /\ SumBytes(b, S \cup T) = SumBytes(b, S) + SumBytes(b, T)
         /\ SumBytes(b, S) \in Nat /\ SumBytes(b, T) \in Nat
<1>1. BytesOf(b, S \cup T) = BytesOf(b, S) \cup BytesOf(b, T)
  BY DEF BytesOf
<1>2. BytesOf(b, S) \cap BytesOf(b, T) = {}
  BY DEF BytesOf
<1>3. IsFiniteSet(BytesOf(b, S)) /\ Cardinality(BytesOf(b, S)) \in Nat
  BY BytesFinite
<1>4. IsFiniteSet(BytesOf(b, T)) /\ Cardinality(BytesOf(b, T)) \in Nat
  BY BytesFinite
<1>5. Cardinality(BytesOf(b, S) \cap BytesOf(b, T)) = 0
  BY <1>2, FS_EmptySet
<1>6. Cardinality(BytesOf(b, S \cup T))
        = Cardinality(BytesOf(b, S)) + Cardinality(BytesOf(b, T)) - 0
  BY <1>1, <1>3, <1>4, <1>5, FS_Union
<1> QED
  BY <1>3, <1>4, <1>6 DEF SumBytes, BytesOf

(* Only the bytes of the commands counted matter.                          *)
LEMMA BytesOnlyOf ==
  ASSUME NEW b, NEW c, NEW S, \A t \in S : b[t] = c[t]
  PROVE  SumBytes(b, S) = SumBytes(c, S)
BY DEF SumBytes

(* The same of commands: how many two sets are that have none in common.   *)
LEMMA TasksAdd ==
  ASSUME NEW S, S \subseteq Task, NEW T, T \subseteq Task, S \cap T = {}
  PROVE  /\ Cardinality(S \cup T) = Cardinality(S) + Cardinality(T)
         /\ Cardinality(S) \in Nat /\ Cardinality(T) \in Nat
<1>1. IsFiniteSet(S) /\ Cardinality(S) \in Nat /\ IsFiniteSet(T) /\ Cardinality(T) \in Nat
  BY SubTaskCardinality
<1>2. Cardinality(S \cap T) = 0
  BY FS_EmptySet
<1>3. Cardinality(S \cup T) = Cardinality(S) + Cardinality(T) - 0
  BY <1>1, <1>2, FS_Union
<1> QED
  BY <1>1, <1>3

(* Fewer commands are not more.                                            *)
LEMMA FewerTasks ==
  ASSUME NEW T, T \subseteq Task, NEW S, S \subseteq T
  PROVE  Cardinality(S) <= Cardinality(T)
BY SubTaskCardinality, FS_Subset

(* Among any commands there is a first one and a last one.                 *)
LEMMA FirstTask ==
  ASSUME NEW S, S \subseteq Nat, S # {}
  PROVE  \E t \in S : \A u \in S : t <= u
<1>1. PICK t \in S : \A u \in S : ~(<<u, t>> \in OpToRel(<, Nat))
  BY NatLessThanWellFounded, WFMin
<1>2. \A u \in S : ~(u < t)
  BY <1>1 DEF OpToRel
<1> QED
  BY <1>2

LEMMA LastTask ==
  ASSUME NEW S, S \subseteq Task, S # {}
  PROVE  \E t \in S : \A u \in S : u <= t
<1> DEFINE Bounds == {n \in Nat : \A u \in S : u <= n}
<1>1. MaxTask \in Bounds
  BY LimitAssumption DEF Task
<1>2. PICK n \in Bounds : \A m \in Bounds : n <= m
  BY <1>1, FirstTask
<1>3. PICK v \in S : TRUE
  OBVIOUS
<1>4. v \in Nat /\ v >= 1 /\ v <= n /\ n \in Nat
  BY <1>2, LimitAssumption DEF Task
<1>5. n - 1 \in Nat /\ n - 1 \notin Bounds
  BY <1>2, <1>4
<1>6. PICK w \in S : ~(w <= n - 1)
  BY <1>5
<1>7. w = n
  BY <1>2, <1>4, <1>6, TaskFinite
<1> QED
  BY <1>2, <1>7

-----------------------------------------------------------------------------
(* What #pump starts.  The commands it starts are ready, so they share no  *)
(* key; they fit in the free slots; and it stops short of one that is      *)
(* ready only when the slots are taken.                                    *)
LEMMA PumpFits ==
  ASSUME NEW st, NEW ks, NEW held, NEW flying \in Int, flying <= MaxInFlight
  PROVE  flying + Cardinality(Started(st, ks, held, flying)) <= MaxInFlight
<1> DEFINE ready == Ready(st, ks, held)
           go == Started(st, ks, held, flying)
           before(t) == {u \in ready : u < t}
<1>1. /\ ready \subseteq Task /\ go \subseteq ready
      /\ \A t \in go : flying + Cardinality(before(t)) < MaxInFlight
  BY DEF Started, Ready, In
<1> HIDE DEF ready, go
<1>2. CASE go = {}
  BY <1>2, FS_EmptySet, LimitAssumption DEF go
<1>3. CASE go # {}
  <2>1. PICK t \in go : \A u \in go : u <= t
    BY <1>1, <1>3, LastTask
  <2>2. go \subseteq before(t) \cup {t}
    BY <1>1, <2>1, TaskFinite
  <2>9. t \in Nat /\ ~(t < t)
    BY <1>1, <2>1, TaskFinite
  <2>3. before(t) \subseteq Task /\ {t} \subseteq Task /\ before(t) \cap {t} = {}
    BY <1>1, <2>1, <2>9
  <2>4. /\ Cardinality(before(t) \cup {t}) = Cardinality(before(t)) + Cardinality({t})
        /\ Cardinality(before(t)) \in Nat
    BY <2>3, TasksAdd
  <2>5. Cardinality({t}) = 1
    BY FS_Singleton
  <2>6. Cardinality(go) <= Cardinality(before(t) \cup {t})
    BY <2>2, <2>3, FewerTasks
  <2>7. Cardinality(go) \in Nat
    BY <1>1, SubTaskCardinality
  <2>8. flying + Cardinality(before(t)) < MaxInFlight
    BY <1>1, <2>1
  <2> QED
    BY <2>4, <2>5, <2>6, <2>7, <2>8, LimitAssumption DEF go
<1> QED
  BY <1>2, <1>3

LEMMA PumpFills ==
  ASSUME NEW st, NEW ks, NEW held, NEW flying \in Int,
         flying + Cardinality(Started(st, ks, held, flying)) < MaxInFlight
  PROVE  Started(st, ks, held, flying) = Ready(st, ks, held)
<1> DEFINE ready == Ready(st, ks, held)
           go == Started(st, ks, held, flying)
           before(t) == {u \in ready : u < t}
<1>1. /\ ready \subseteq Task
      /\ go = {t \in ready : flying + Cardinality(before(t)) < MaxInFlight}
  BY DEF Started, Ready, In
<1>2. flying + Cardinality(go) < MaxInFlight
  OBVIOUS
<1> HIDE DEF ready, go
<1>3. ASSUME ready \ go # {}
      PROVE  FALSE
  <2>1. PICK t \in ready \ go : \A u \in ready \ go : t <= u
    BY <1>1, <1>3, FirstTask, TaskFinite
  <2>2. ASSUME NEW u \in ready, u < t
        PROVE  u \in go
    <3>1. u \in Nat /\ t \in Nat /\ ~(t <= u)
      BY <1>1, <2>1, <2>2, TaskFinite
    <3> QED
      BY <2>1, <3>1
  <2>3. go \subseteq Task
    BY <1>1
  <2>7. before(t) \subseteq go
    BY <2>2
  <2>4. Cardinality(before(t)) <= Cardinality(go)
    BY <2>3, <2>7, FewerTasks
  <2>5. Cardinality(before(t)) \in Nat /\ Cardinality(go) \in Nat
    BY <2>3, <2>7, SubTaskCardinality
  <2>6. ~(flying + Cardinality(before(t)) < MaxInFlight)
    BY <1>1, <2>1
  <2> QED
    BY <1>2, <2>4, <2>5, <2>6, LimitAssumption
<1> QED
  BY <1>1, <1>3 DEF ready, go

(* The books of given fields.                                              *)
HeldExact(held, st, ks) ==
  \A k \in Key : held[k] = IF \E t \in In(st, Holding) : k \in ks[t] THEN 1 ELSE 0

SlotsExact(flying, st) ==
  flying = Cardinality(In(st, Holding)) /\ flying <= MaxInFlight

BytesExact(queued, b, st) ==
  queued = SumBytes(b, In(st, Waiting)) /\ queued <= MaxQueuedBytes

(* Who waits for the queue to fall idle: nobody before it is closed, and   *)
(* it is idle once one of them was told so.                                *)
ClosersTold(cl, st, shut) ==
  /\ shut => In(st, Waiting) = {}
  /\ \A c \in Closer : cl[c] # "none" => shut
  /\ \A c \in Closer : cl[c] = "idle" => In(st, Holding) = {}

(* The commands before and after #pump: what it started has left the array *)
(* and is held.                                                            *)
LEMMA PumpMoves ==
  ASSUME NEW st \in [Task -> Stage], NEW ks, NEW b, NEW held, NEW flying, NEW queued,
         PumpFrom(st, ks, b, held, flying, queued)
  PROVE  LET go == Started(st, ks, held, flying)
         IN  /\ go \subseteq In(st, Waiting)
             /\ In(stage', Waiting) = In(st, Waiting) \ go
             /\ In(stage', Holding) = In(st, Holding) \cup go
             /\ In(st, Holding) \cap go = {}
<1> DEFINE go == Started(st, ks, held, flying)
<1>1. go \subseteq In(st, Waiting)
  BY DEF Started, Ready
<1>2. \A t \in Task : stage'[t] = IF t \in go THEN "running" ELSE st[t]
  BY DEF PumpFrom
<1> HIDE DEF go
<1>3. \A t \in go : t \in Task /\ st[t] = "pending"
  BY <1>1 DEF In, Waiting
<1> QED
  BY <1>1, <1>2, <1>3 DEF In, Waiting, Holding, go

(* Each key that #pump takes was free and is taken once.                   *)
LEMMA PumpKeepsHeld ==
  ASSUME NEW st \in [Task -> Stage], NEW ks \in [Task -> SUBSET Key], NEW b,
         NEW held, NEW flying, NEW queued,
         PumpFrom(st, ks, b, held, flying, queued), HeldExact(held, st, ks)
  PROVE  HeldExact(heldKeys', stage', ks)
<1> DEFINE go == Started(st, ks, held, flying)
           ofKey(k) == {t \in go : k \in ks[t]}
<1>1. /\ go \subseteq Task /\ go \subseteq In(st, Waiting)
      /\ \A t \in go : \A k \in ks[t] : held[k] <= 0
      /\ \A t, u \in go : u < t => ~Shared(ks, t, u)
  BY DEF Started, Ready, In
<1>2. \A k \in Key : heldKeys'[k] = held[k] + Cardinality(ofKey(k))
  BY DEF PumpFrom
<1>3. In(stage', Holding) = In(st, Holding) \cup go
  BY PumpMoves
<1> HIDE DEF go
<1> SUFFICES ASSUME NEW k \in Key
             PROVE  heldKeys'[k] = IF \E t \in In(stage', Holding) : k \in ks[t] THEN 1 ELSE 0
  BY DEF HeldExact
<1>4. held[k] = IF \E t \in In(st, Holding) : k \in ks[t] THEN 1 ELSE 0
  BY DEF HeldExact
<1>5. CASE ofKey(k) = {}
  <2>1. Cardinality(ofKey(k)) = 0
    BY <1>5, FS_EmptySet
  <2>2. (\E t \in In(stage', Holding) : k \in ks[t])
          <=> (\E t \in In(st, Holding) : k \in ks[t])
    BY <1>3, <1>5
  <2> QED
    BY <1>2, <1>4, <2>1, <2>2
<1>6. CASE ofKey(k) # {}
  <2>1. PICK t \in ofKey(k) : TRUE
    BY <1>6
  <2>2. \A u \in ofKey(k) : u = t
    <3> SUFFICES ASSUME NEW u \in ofKey(k), u # t PROVE FALSE
      OBVIOUS
    <3>1. t \in Nat /\ u \in Nat /\ (u < t \/ t < u)
      BY <1>1, <2>1, TaskFinite
    <3>2. Shared(ks, t, u) /\ Shared(ks, u, t)
      BY <2>1 DEF Shared
    <3> QED
      BY <1>1, <2>1, <3>1, <3>2
  <2>3. ofKey(k) = {t}
    BY <2>1, <2>2
  <2>4. Cardinality(ofKey(k)) = 1
    BY <2>3, FS_Singleton
  <2>5. held[k] = 0
    BY <1>1, <1>4, <2>1
  <2>6. \E u \in In(stage', Holding) : k \in ks[u]
    BY <1>3, <2>1
  <2> QED
    BY <1>2, <2>4, <2>5, <2>6
<1> QED
  BY <1>5, <1>6

LEMMA PumpKeepsSlots ==
  ASSUME NEW st \in [Task -> Stage], NEW ks, NEW b, NEW held, NEW flying \in Int, NEW queued,
         PumpFrom(st, ks, b, held, flying, queued), SlotsExact(flying, st)
  PROVE  SlotsExact(inFlight', stage')
<1> DEFINE go == Started(st, ks, held, flying)
<1>1. /\ inFlight' = flying + Cardinality(go)
      /\ flying = Cardinality(In(st, Holding)) /\ flying <= MaxInFlight
  BY DEF PumpFrom, SlotsExact
<1>2. /\ In(stage', Holding) = In(st, Holding) \cup go
      /\ In(st, Holding) \cap go = {} /\ go \subseteq In(st, Waiting)
  BY PumpMoves
<1>3. In(st, Holding) \subseteq Task /\ In(st, Waiting) \subseteq Task
  BY DEF In
<1>4. Cardinality(In(st, Holding) \cup go) = Cardinality(In(st, Holding)) + Cardinality(go)
  BY <1>2, <1>3, TasksAdd
<1>5. flying + Cardinality(go) <= MaxInFlight
  BY <1>1, PumpFits
<1> QED
  BY <1>1, <1>2, <1>4, <1>5 DEF SlotsExact

LEMMA PumpKeepsBytes ==
  ASSUME NEW st \in [Task -> Stage], NEW ks, NEW b \in [Task -> Nat], NEW held, NEW flying,
         NEW queued, PumpFrom(st, ks, b, held, flying, queued), BytesExact(queued, b, st)
  PROVE  BytesExact(queuedBytes', b, stage')
<1> DEFINE go == Started(st, ks, held, flying)
           left == In(st, Waiting) \ go
<1>1. /\ queuedBytes' = queued - SumBytes(b, go)
      /\ queued = SumBytes(b, In(st, Waiting)) /\ queued <= MaxQueuedBytes
  BY DEF PumpFrom, BytesExact
<1>2. In(stage', Waiting) = left /\ go \subseteq In(st, Waiting)
  BY PumpMoves
<1> HIDE DEF go
<1>3. /\ left \subseteq Task /\ go \subseteq Task
      /\ left \cap go = {} /\ left \cup go = In(st, Waiting)
  BY <1>2 DEF In
<1>4. /\ SumBytes(b, left \cup go) = SumBytes(b, left) + SumBytes(b, go)
      /\ SumBytes(b, left) \in Nat /\ SumBytes(b, go) \in Nat
  BY <1>3, BytesAdd
<1>5. SumBytes(b, In(st, Waiting)) = SumBytes(b, left) + SumBytes(b, go)
  BY <1>3, <1>4
<1>6. queuedBytes' = SumBytes(b, left) /\ queuedBytes' <= queued
  BY <1>1, <1>4, <1>5
<1> QED
  BY <1>1, <1>2, <1>4, <1>6, LimitAssumption DEF BytesExact

(* #pump never adds to the array.                                          *)
LEMMA PumpKeepsRoom ==
  ASSUME NEW st \in [Task -> Stage], NEW ks, NEW b, NEW held, NEW flying, NEW queued,
         PumpFrom(st, ks, b, held, flying, queued),
         Cardinality(In(st, Waiting)) <= MaxQueuedCommands
  PROVE  Cardinality(In(stage', Waiting)) <= MaxQueuedCommands
<1>1. In(stage', Waiting) \subseteq In(st, Waiting)
  BY PumpMoves
<1>2. In(st, Waiting) \subseteq Task /\ In(stage', Waiting) \subseteq Task
  BY <1>1 DEF In
<1>3. Cardinality(In(stage', Waiting)) <= Cardinality(In(st, Waiting))
  BY <1>1, <1>2, FewerTasks
<1>4. Cardinality(In(stage', Waiting)) \in Nat /\ Cardinality(In(st, Waiting)) \in Nat
  BY <1>2, SubTaskCardinality
<1> QED
  BY <1>3, <1>4, LimitAssumption

(* After #pump a slot is free only if nothing in the array may start.      *)
LEMMA PumpConserves ==
  ASSUME NEW st \in [Task -> Stage], NEW ks \in [Task -> SUBSET Key], NEW b,
         NEW held, NEW flying \in Int, NEW queued,
         PumpFrom(st, ks, b, held, flying, queued), HeldExact(held, st, ks),
         inFlight' < MaxInFlight
  PROVE  Ready(stage', ks, heldKeys') = {}
<1> DEFINE go == Started(st, ks, held, flying)
           ofKey(k) == {t \in go : k \in ks[t]}
<1>1. /\ inFlight' = flying + Cardinality(go)
      /\ \A k \in Key : heldKeys'[k] = held[k] + Cardinality(ofKey(k))
  BY DEF PumpFrom
<1>2. go = Ready(st, ks, held)
  BY <1>1, PumpFills
<1>3. In(stage', Waiting) = In(st, Waiting) \ go /\ go \subseteq In(st, Waiting)
  BY PumpMoves
<1> HIDE DEF go
<1>4. \A k \in Key : Cardinality(ofKey(k)) \in Nat
  BY <1>3, SubTaskCardinality DEF In
<1> SUFFICES ASSUME NEW t \in Ready(stage', ks, heldKeys')
             PROVE  FALSE
  OBVIOUS
<1>9. \A k \in Key : held[k] \in {0, 1}
  BY DEF HeldExact
<1>5. /\ t \in In(stage', Waiting) /\ t \in Task
      /\ \A k \in ks[t] : heldKeys'[k] <= 0
      /\ \A u \in In(stage', Waiting) : u < t => ~Shared(ks, t, u)
  BY DEF Ready, In
<1>6. \A k \in ks[t] : held[k] <= 0
  <2> SUFFICES ASSUME NEW k \in ks[t] PROVE held[k] <= 0
    OBVIOUS
  <2>1. k \in Key /\ held[k] \in {0, 1} /\ heldKeys'[k] <= 0
    BY <1>5, <1>9
  <2>2. heldKeys'[k] = held[k] + Cardinality(ofKey(k)) /\ Cardinality(ofKey(k)) \in Nat
    BY <1>1, <1>4, <2>1
  <2> QED
    BY <2>1, <2>2
<1>7. ASSUME NEW u \in In(st, Waiting), u < t, Shared(ks, t, u)
      PROVE  FALSE
  <2>1. u \in go
    BY <1>3, <1>5, <1>7
  <2>2. PICK k \in ks[t] : k \in ks[u]
    BY <1>7 DEF Shared
  <2>3. k \in Key /\ held[k] \in {0, 1} /\ heldKeys'[k] <= 0
    BY <1>5, <1>9, <2>2
  <2>4. u \in ofKey(k) /\ ofKey(k) \subseteq Task
    BY <1>3, <2>1, <2>2 DEF In
  <2>5. Cardinality(ofKey(k)) >= 1
    BY <2>4, StartedCounts
  <2>6. heldKeys'[k] = held[k] + Cardinality(ofKey(k)) /\ Cardinality(ofKey(k)) \in Nat
    BY <1>1, <1>4, <2>3
  <2> QED
    BY <2>3, <2>5, <2>6
<1>8. t \in Ready(st, ks, held)
  BY <1>3, <1>5, <1>6, <1>7 DEF Ready
<1> QED
  BY <1>2, <1>3, <1>5, <1>8

(* A waiter of close() is told that the queue is idle only when it is.     *)
LEMMA PumpTellsClosers ==
  ASSUME NEW st \in [Task -> Stage], NEW ks, NEW b, NEW held, NEW flying \in Int, NEW queued,
         PumpFrom(st, ks, b, held, flying, queued), SlotsExact(flying, st),
         ClosersTold(closer, st, closed), closed' = closed
  PROVE  ClosersTold(closer', stage', closed')
<1> DEFINE go == Started(st, ks, held, flying)
<1>1. closer' = Woken(closer, stage', inFlight')
  BY DEF PumpFrom
<1>2. /\ go \subseteq In(st, Waiting)
      /\ In(stage', Waiting) = In(st, Waiting) \ go
      /\ In(stage', Holding) = In(st, Holding) \cup go
  BY PumpMoves
<1> HIDE DEF go
<1>3. SlotsExact(inFlight', stage')
  BY PumpKeepsSlots
<1>4. \A c \in Closer : /\ closer'[c] # "none" => closer[c] # "none"
                        /\ closer'[c] = "idle" => \/ closer[c] = "idle"
                                                  \/ inFlight' = 0
  BY <1>1 DEF Woken
<1>5. inFlight' = 0 => In(stage', Holding) = {}
  <2>1. In(stage', Holding) \subseteq Task
    BY DEF In
  <2> QED
    BY <1>3, <2>1, SubTaskCardinality, FS_EmptySet DEF SlotsExact
<1>6. closed => go = {} /\ In(stage', Waiting) = {}
  BY <1>2 DEF ClosersTold
<1>7. ASSUME NEW c \in Closer, closer'[c] = "idle"
      PROVE  In(stage', Holding) = {}
  BY <1>2, <1>4, <1>5, <1>6, <1>7 DEF ClosersTold
<1> QED
  BY <1>4, <1>6, <1>7 DEF ClosersTold

(* What the books say of the fields of the queue.                          *)
Books ==
  /\ HeldExact(heldKeys, stage, keys)
  /\ SlotsExact(inFlight, stage)
  /\ BytesExact(queuedBytes, bytes, stage)
  /\ Cardinality(In(stage, Waiting)) <= MaxQueuedCommands
  /\ WorkConserving
  /\ ClosersTold(closer, stage, closed)

(* The two callers of #pump: books that balance for the fields they have   *)
(* just changed balance after it.                                          *)
LEMMA PumpKeepsBooks ==
  ASSUME NEW st \in [Task -> Stage], NEW ks \in [Task -> SUBSET Key],
         NEW b \in [Task -> Nat], NEW held, NEW flying \in Int, NEW queued,
         PumpFrom(st, ks, b, held, flying, queued),
         HeldExact(held, st, ks), SlotsExact(flying, st), BytesExact(queued, b, st),
         Cardinality(In(st, Waiting)) <= MaxQueuedCommands,
         ClosersTold(closer, st, closed),
         keys' = ks, bytes' = b, closed' = closed
  PROVE  Books'
<1>1. HeldExact(heldKeys', stage', keys')
  BY PumpKeepsHeld
<1>2. SlotsExact(inFlight', stage')
  BY PumpKeepsSlots
<1>3. BytesExact(queuedBytes', bytes', stage')
  BY PumpKeepsBytes
<1>4. Cardinality(In(stage', Waiting)) <= MaxQueuedCommands
  BY PumpKeepsRoom
<1>5. inFlight' < MaxInFlight => Ready(stage', keys', heldKeys') = {}
  BY PumpConserves
<1>6. ClosersTold(closer', stage', closed')
  BY PumpTellsClosers
<1> QED
  BY <1>1, <1>2, <1>3, <1>4, <1>5, <1>6 DEF Books, WorkConserving

(* A step that moves no command into or out of the array and the slots     *)
(* leaves the books as they are.                                           *)
LEMMA StillBooks ==
  ASSUME Books, In(stage', Waiting) = In(stage, Waiting),
         In(stage', Holding) = In(stage, Holding),
         \A t \in In(stage, Waiting \cup Holding) : keys'[t] = keys[t] /\ bytes'[t] = bytes[t],
         UNCHANGED <<queuedBytes, inFlight, heldKeys, closed, closer>>
  PROVE  Books'
<1>1. In(stage, Waiting) \subseteq In(stage, Waiting \cup Holding)
  BY DEF In
<1>2. In(stage, Holding) \subseteq In(stage, Waiting \cup Holding)
  BY DEF In
<1>3. HeldExact(heldKeys', stage', keys')
  BY <1>2 DEF Books, HeldExact
<1>4. SlotsExact(inFlight', stage')
  BY DEF Books, SlotsExact
<1>5. SumBytes(bytes', In(stage, Waiting)) = SumBytes(bytes, In(stage, Waiting))
  BY <1>1, BytesOnlyOf
<1>6. BytesExact(queuedBytes', bytes', stage')
  BY <1>5 DEF Books, BytesExact
<1>7. Ready(stage', keys', heldKeys') = Ready(stage, keys, heldKeys)
  BY <1>1 DEF Ready, Shared
<1>8. ClosersTold(closer', stage', closed')
  BY DEF Books, ClosersTold
<1> QED
  BY <1>3, <1>4, <1>6, <1>7, <1>8 DEF Books, WorkConserving

(* The numbers the books are made of.                                      *)
LEMMA BytesAreNumbers == TypeOK => bytes \in [Task -> Nat]
<1>1. Size \cup {0} \subseteq Nat
  BY SizeAssumption
<1> QED
  BY <1>1 DEF TypeOK

LEMMA BooksOpen == Init => Books
<1> SUFFICES ASSUME Init PROVE Books
  OBVIOUS
<1>1. In(stage, Waiting) = {} /\ In(stage, Holding) = {}
  BY DEF Init, In, Waiting, Holding
<1>2. Cardinality({}) = 0
  BY FS_EmptySet
<1>3. HeldExact(heldKeys, stage, keys)
  BY <1>1 DEF Init, HeldExact
<1>4. SlotsExact(inFlight, stage)
  BY <1>1, <1>2, LimitAssumption DEF Init, SlotsExact
<1>5. SumBytes(bytes, {}) = 0
  BY <1>2 DEF SumBytes
<1>6. BytesExact(queuedBytes, bytes, stage)
  BY <1>1, <1>5, LimitAssumption DEF Init, BytesExact
<1>7. Cardinality(In(stage, Waiting)) <= MaxQueuedCommands
  BY <1>1, <1>2, LimitAssumption
<1>8. Ready(stage, keys, heldKeys) = {}
  BY <1>1 DEF Ready
<1>9. ClosersTold(closer, stage, closed)
  BY <1>1 DEF Init, ClosersTold
<1> QED
  BY <1>3, <1>4, <1>6, <1>7, <1>8, <1>9 DEF Books, WorkConserving

(* execute(): a command that is refused is not in the books; one that is   *)
(* admitted enters the array, within its limits, before the pump.          *)
LEMMA ExecuteKeepsBooks ==
  ASSUME IInv, Books, NEW ks \in SUBSET Key, NEW b \in Size, Execute(ks, b)
  PROVE  Books'
<1> DEFINE t == arrived + 1
           st == [stage EXCEPT ![t] = "pending"]
           ks1 == [keys EXCEPT ![t] = ks]
           b1 == [bytes EXCEPT ![t] = b]
<1>1. TypeOK /\ ArrivedInOrder
  BY DEF IInv
<1>2. /\ t \in Task /\ stage[t] = "unsent"
      /\ keys' = ks1 /\ bytes' = b1 /\ closed' = closed
  BY <1>1, TaskFinite, LimitAssumption DEF Execute, Task, TypeOK, ArrivedInOrder
<1>3. \A u \in Task : u # t => ks1[u] = keys[u] /\ b1[u] = bytes[u]
  BY <1>1 DEF TypeOK
<1>4. ks1 \in [Task -> SUBSET Key] /\ b1 \in [Task -> Nat] /\ b1[t] = b /\ b \in Nat
  BY <1>1, <1>2, BytesAreNumbers, SizeAssumption DEF TypeOK
<1>5. st \in [Task -> Stage] /\ \A u \in Task : st[u] = IF u = t THEN "pending" ELSE stage[u]
  BY <1>1, <1>2 DEF TypeOK, Stage, Waiting
<1>6. t \notin In(stage, Waiting \cup Holding)
  BY <1>2 DEF In, Waiting, Holding
<1> HIDE DEF ks1, b1, t
<1>7. CASE ~Admits(b)
  <2>1. /\ stage' = [stage EXCEPT ![t] = "refused"]
        /\ UNCHANGED <<queuedBytes, inFlight, heldKeys, closer>>
    BY <1>7 DEF Execute, t
  <2>2. \A u \in Task : stage'[u] = IF u = t THEN "refused" ELSE stage[u]
    BY <2>1, <1>1, <1>2 DEF TypeOK
  <2>3. In(stage', Waiting) = In(stage, Waiting) /\ In(stage', Holding) = In(stage, Holding)
    BY <1>2, <2>2 DEF In, Waiting, Holding
  <2>4. \A u \in In(stage, Waiting \cup Holding) : keys'[u] = keys[u] /\ bytes'[u] = bytes[u]
    BY <1>2, <1>3, <1>6 DEF In
  <2> QED
    BY <1>2, <2>1, <2>3, <2>4, StillBooks
<1>8. CASE Admits(b)
  <2>1. PumpFrom(st, ks1, b1, heldKeys, inFlight, queuedBytes + b)
    BY <1>8 DEF Execute, t, ks1, b1
  <2>2. /\ ~closed
        /\ ~(Cardinality(In(stage, Waiting)) >= MaxQueuedCommands)
        /\ ~(queuedBytes + b > MaxQueuedBytes)
    BY <1>8 DEF Admits, Full
  <2>3. In(st, Waiting) = In(stage, Waiting) \cup {t} /\ In(st, Holding) = In(stage, Holding)
    BY <1>2, <1>5 DEF In, Waiting, Holding
  <2> HIDE DEF st
  <2>4. In(stage, Waiting) \subseteq Task /\ {t} \subseteq Task /\ In(stage, Waiting) \cap {t} = {}
    BY <1>2, <1>6 DEF In
  <2>5. HeldExact(heldKeys, st, ks1)
    <3>1. \A u \in In(stage, Holding) : ks1[u] = keys[u]
      BY <1>3, <1>6 DEF In
    <3> QED
      BY <2>3, <3>1 DEF Books, HeldExact
  <2>6. SlotsExact(inFlight, st)
    BY <2>3 DEF Books, SlotsExact
  <2>7. BytesExact(queuedBytes + b, b1, st)
    <3>1. /\ SumBytes(b1, In(stage, Waiting) \cup {t})
               = SumBytes(b1, In(stage, Waiting)) + SumBytes(b1, {t})
          /\ SumBytes(b1, In(stage, Waiting)) \in Nat
      BY <1>4, <2>4, BytesAdd
    <3>2. SumBytes(b1, {t}) = b
      BY <1>2, <1>4, BytesOfOne
    <3>3. \A u \in In(stage, Waiting) : b1[u] = bytes[u]
      BY <1>3, <1>6 DEF In
    <3>4. SumBytes(b1, In(stage, Waiting)) = SumBytes(bytes, In(stage, Waiting))
      BY <3>3, BytesOnlyOf
    <3>5. queuedBytes = SumBytes(bytes, In(stage, Waiting))
      BY DEF Books, BytesExact
    <3>6. SumBytes(b1, In(st, Waiting)) = queuedBytes + b /\ queuedBytes + b \in Nat
      <4>1. SumBytes(b1, In(st, Waiting)) = SumBytes(b1, In(stage, Waiting) \cup {t})
        BY <2>3
      <4> QED
        BY <1>4, <3>1, <3>2, <3>4, <3>5, <4>1
    <3> QED
      BY <2>2, <3>6, LimitAssumption DEF BytesExact
  <2>8. Cardinality(In(st, Waiting)) <= MaxQueuedCommands
    <3>1. /\ Cardinality(In(stage, Waiting) \cup {t})
               = Cardinality(In(stage, Waiting)) + Cardinality({t})
          /\ Cardinality(In(stage, Waiting)) \in Nat
      BY <2>4, TasksAdd
    <3>2. Cardinality({t}) = 1
      BY FS_Singleton
    <3>3. Cardinality(In(st, Waiting)) = Cardinality(In(stage, Waiting) \cup {t})
      BY <2>3
    <3> QED
      BY <2>2, <3>1, <3>2, <3>3, LimitAssumption
  <2>9. ClosersTold(closer, st, closed)
    BY <2>2, <2>3 DEF Books, ClosersTold
  <2>10. inFlight \in Int
    BY <1>1 DEF TypeOK
  <2> QED
    BY <1>2, <1>4, <1>5, <2>1, <2>5, <2>6, <2>7, <2>8, <2>9, <2>10, PumpKeepsBooks
<1> QED
  BY <1>7, <1>8

(* close(): the array is emptied and its bytes with it.                    *)
LEMMA CloseKeepsBooks ==
  ASSUME IInv, Books, NEW c \in Closer, Close(c)
  PROVE  Books'
<1> DEFINE st == [t \in Task |->
                    IF ~closed /\ stage[t] = "pending" THEN "rejected" ELSE stage[t]]
<1>1. /\ closed' = TRUE /\ stage' = st
      /\ queuedBytes' = IF closed THEN queuedBytes ELSE 0
      /\ closer' = [closer EXCEPT ![c] =
                      IF inFlight = 0 /\ In(st, Waiting) = {} THEN "idle" ELSE "waiting"]
      /\ UNCHANGED <<arrived, keys, bytes, attempt, inFlight, heldKeys>>
  BY DEF Close, BytesAfterClose
<1>2. TypeOK
  BY DEF IInv
<1>3. closed => In(stage, Waiting) = {}
  BY DEF Books, ClosersTold
<1>4. In(st, Waiting) = {} /\ In(st, Holding) = In(stage, Holding)
  BY <1>3 DEF In, Waiting, Holding
<1> HIDE DEF st
<1>5. HeldExact(heldKeys', stage', keys')
  BY <1>1, <1>4 DEF Books, HeldExact
<1>6. SlotsExact(inFlight', stage')
  BY <1>1, <1>4 DEF Books, SlotsExact
<1>7. Cardinality({}) = 0
  BY FS_EmptySet
<1>8. \A b \in {bytes, bytes'} : SumBytes(b, {}) = 0
  BY <1>7 DEF SumBytes
<1>9. queuedBytes' = 0
  BY <1>1, <1>3, <1>8 DEF Books, BytesExact
<1>10. BytesExact(queuedBytes', bytes', stage')
  BY <1>1, <1>4, <1>8, <1>9, LimitAssumption DEF BytesExact
<1>11. Cardinality(In(stage', Waiting)) <= MaxQueuedCommands
  BY <1>1, <1>4, <1>7, LimitAssumption
<1>12. Ready(stage', keys', heldKeys') = {}
  BY <1>1, <1>4 DEF Ready
<1>13. inFlight = 0 => In(stage, Holding) = {}
  <2>1. In(stage, Holding) \subseteq Task
    BY DEF In
  <2> QED
    BY <2>1, SubTaskCardinality, FS_EmptySet DEF Books, SlotsExact
<1>14. \A d \in Closer : closer'[d] = "idle" => closer[d] = "idle" \/ inFlight = 0
  BY <1>1, <1>2 DEF TypeOK
<1>15. ClosersTold(closer', stage', closed')
  BY <1>1, <1>4, <1>13, <1>14 DEF Books, ClosersTold
<1> QED
  BY <1>5, <1>6, <1>10, <1>11, <1>12, <1>15 DEF Books, WorkConserving

(* The finally callback of #start: one command's slot and keys come back.  *)
LEMMA ReleaseKeepsBooks ==
  ASSUME IInv, Books, NEW t \in Task, Release(t)
  PROVE  Books'
<1> DEFINE st == [stage EXCEPT ![t] = "finished"]
<1>1. /\ PumpFrom(st, keys, bytes, Freed(t), inFlight - 1, queuedBytes)
      /\ stage[t] = "settled" /\ UNCHANGED <<arrived, keys, bytes, closed>>
  BY DEF Release
<1>2. TypeOK /\ NoOvertaking
  BY DEF IInv
<1>3. /\ keys \in [Task -> SUBSET Key] /\ bytes \in [Task -> Nat] /\ inFlight - 1 \in Int
  BY <1>2, BytesAreNumbers DEF TypeOK
<1>4. st \in [Task -> Stage] /\ \A u \in Task : st[u] = IF u = t THEN "finished" ELSE stage[u]
  BY <1>2 DEF TypeOK, Stage, Ended
<1>5. /\ In(st, Waiting) = In(stage, Waiting)
      /\ In(st, Holding) = In(stage, Holding) \ {t}
      /\ t \in In(stage, Holding)
  BY <1>1, <1>4 DEF In, Waiting, Holding
<1> HIDE DEF st
<1>6. ASSUME NEW u \in In(stage, Holding), u # t
      PROVE  keys[u] \cap keys[t] = {}
  <2>1. /\ stage[t] \in Holding /\ stage[t] \notin Ended
        /\ u \in Task /\ stage[u] \in Holding /\ stage[u] \notin Ended
    BY <1>1, <1>6 DEF In, Holding, Ended
  <2>2. u < t \/ t < u
    BY <1>6, <2>1, TaskFinite
  <2> QED
    BY <1>2, <2>1, <2>2 DEF NoOvertaking, Shared
<1>7. HeldExact(Freed(t), st, keys)
  <2> SUFFICES ASSUME NEW k \in Key
               PROVE  Freed(t)[k] = IF \E u \in In(st, Holding) : k \in keys[u] THEN 1 ELSE 0
    BY DEF HeldExact
  <2>1. heldKeys[k] = IF \E u \in In(stage, Holding) : k \in keys[u] THEN 1 ELSE 0
    BY DEF Books, HeldExact
  <2>2. Freed(t)[k] = IF k \in keys[t] THEN heldKeys[k] - 1 ELSE heldKeys[k]
    BY DEF Freed
  <2>3. CASE k \in keys[t]
    <3>1. ~\E u \in In(st, Holding) : k \in keys[u]
      BY <1>5, <1>6, <2>3
    <3>2. heldKeys[k] = 1
      BY <1>5, <2>1, <2>3
    <3> QED
      BY <2>2, <2>3, <3>1, <3>2
  <2>4. CASE k \notin keys[t]
    <3>1. (\E u \in In(st, Holding) : k \in keys[u])
            <=> (\E u \in In(stage, Holding) : k \in keys[u])
      BY <1>5, <2>4
    <3> QED
      BY <2>1, <2>2, <2>4, <3>1
  <2> QED
    BY <2>3, <2>4
<1>8. SlotsExact(inFlight - 1, st)
  <2>1. In(stage, Holding) \subseteq Task
    BY DEF In
  <2>2. IsFiniteSet(In(stage, Holding)) /\ Cardinality(In(stage, Holding)) \in Nat
    BY <2>1, SubTaskCardinality
  <2>3. Cardinality(In(stage, Holding) \ {t}) = Cardinality(In(stage, Holding)) - 1
    BY <1>5, <2>2, FS_RemoveElement
  <2> QED
    BY <1>5, <2>2, <2>3, LimitAssumption DEF Books, SlotsExact
<1>9. BytesExact(queuedBytes, bytes, st)
  BY <1>5 DEF Books, BytesExact
<1>10. Cardinality(In(st, Waiting)) <= MaxQueuedCommands
  BY <1>5 DEF Books
<1>11. ClosersTold(closer, st, closed)
  BY <1>5 DEF Books, ClosersTold
<1> QED
  BY <1>1, <1>3, <1>4, <1>7, <1>8, <1>9, <1>10, <1>11, PumpKeepsBooks

(* A command that changes its stage within the slots is no entry.          *)
LEMMA WithinKeepsBooks ==
  ASSUME IInv, Books, NEW t \in Task, NEW s \in Holding,
         stage[t] \in Holding, stage' = [stage EXCEPT ![t] = s],
         UNCHANGED <<keys, bytes, queuedBytes, inFlight, heldKeys, closed, closer>>
  PROVE  Books'
<1>1. TypeOK
  BY DEF IInv
<1>2. \A u \in Task : stage'[u] = IF u = t THEN s ELSE stage[u]
  BY <1>1 DEF TypeOK
<1>3. s \notin Waiting /\ stage[t] \notin Waiting
  BY DEF Waiting, Holding
<1>4. In(stage', Waiting) = In(stage, Waiting) /\ In(stage', Holding) = In(stage, Holding)
  BY <1>2, <1>3 DEF In
<1> QED
  BY <1>4, StillBooks

LEMMA StepKeepsBooks == IInv /\ Books /\ [Next]_vars => Books'
<1> SUFFICES ASSUME IInv, Books, [Next]_vars
             PROVE  Books'
  OBVIOUS
<1>1. ASSUME NEW t \in Task, Conflict(t) \/ Retry(t) \/ Settle(t)
      PROVE  Books'
  BY <1>1, WithinKeepsBooks DEF Conflict, Retry, Settle, Holding
<1>2. CASE UNCHANGED vars
  BY <1>2, StillBooks DEF vars
<1> QED
  BY <1>1, <1>2, ExecuteKeepsBooks, CloseKeepsBooks, ReleaseKeepsBooks DEF Next

(* The books of the queue, counted by hand in three methods, agree with    *)
(* the commands for any number of them: each key is held once by the one   *)
(* command that has it, the slots and the bytes are those of the commands  *)
(* inside, within their limits, no slot stays free while a command may     *)
(* start, and a close() that has resolved found the queue empty for good.  *)
THEOREM BooksAlwaysBalance == Spec => []BooksBalance
<1>1. IInv /\ Books => BooksBalance
  <2> SUFFICES ASSUME IInv, Books PROVE BooksBalance
    OBVIOUS
  <2>1. TypeOK
    BY DEF IInv
  <2>2. KeysHeldExactly
    BY DEF Books, HeldExact, KeysHeldExactly
  <2>3. SlotsAndBytesExact
    BY DEF Books, SlotsExact, BytesExact, SlotsAndBytesExact
  <2>4. WorkConserving
    BY DEF Books
  <2>5. ClosedIsQuiet
    BY DEF Books, ClosersTold, ClosedIsQuiet, In
  <2> QED
    BY <2>1, <2>2, <2>3, <2>4, <2>5 DEF BooksBalance
<1> QED
  BY InitHolds, StepHolds, BooksOpen, StepKeepsBooks, <1>1, PTL DEF Spec
=============================================================================
