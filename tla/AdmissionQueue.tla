--------------------------- MODULE AdmissionQueue ---------------------------
(***************************************************************************)
(* KeyedAdmissionQueue (packages/orchestration/src/admission-queue.ts):    *)
(* the gate every Host command passes.  Commands are numbered in the order *)
(* their execute() calls arrive, so the array #pending is the set of       *)
(* numbers whose stage is "pending", read in increasing order: execute     *)
(* pushes at the end and #pump only removes.                               *)
(*                                                                         *)
(* A JavaScript turn is one step.  A command's promise settles in one      *)
(* turn (Settle) and its slot and keys are given back in a later one       *)
(* (Release): code woken by the first can call execute before the second.  *)
(***************************************************************************)
EXTENDS Integers, FiniteSets

CONSTANTS
  Key,                 \* ordering keys, such as Thread ids
  Size,                \* the byte sizes a command may declare
  Closer,              \* callers of close()
  MaxTask,             \* bound of the model: execute() calls
  MaxInFlight, MaxQueuedCommands, MaxQueuedBytes,
  MaxConflictAttempts  \* 4 in the code

ASSUME SizeAssumption == Size \subseteq Nat
ASSUME LimitAssumption ==
  /\ MaxTask \in Nat
  /\ MaxInFlight \in Nat \ {0}
  /\ MaxQueuedCommands \in Nat \ {0}
  /\ MaxQueuedBytes \in Nat \ {0}
  /\ MaxConflictAttempts \in Nat \ {0}

VARIABLES
  arrived,      \* number of execute() calls so far
  stage,        \* stage of each command
  keys, bytes,  \* what each command declared
  attempt,      \* times a command has been run
  queuedBytes, inFlight, heldKeys, closed,   \* the queue's own fields
  closer        \* the promise of each close() call

vars == <<arrived, stage, keys, bytes, attempt, queuedBytes, inFlight, heldKeys,
          closed, closer>>

Task == 1..MaxTask

(* Stages: "running" is inside run(); "backoff" sleeps after a transaction *)
(* conflict; "settled" has resolved its caller but not yet released.       *)
Waiting == {"pending"}
Holding == {"running", "backoff", "settled"}
Ended   == {"finished", "refused", "rejected"}
Stage   == {"unsent"} \cup Waiting \cup Holding \cup Ended

Shared(ks, t, u) == ks[t] \cap ks[u] # {}

In(st, S) == {t \in Task : st[t] \in S}

TypeOK ==
  /\ arrived \in 0..MaxTask
  /\ stage \in [Task -> Stage]
  /\ keys \in [Task -> SUBSET Key]
  /\ bytes \in [Task -> Size \cup {0}]
  /\ attempt \in [Task -> 0..MaxConflictAttempts]
  /\ inFlight \in Int
  /\ heldKeys \in [Key -> Int]
  /\ closed \in BOOLEAN
  /\ closer \in [Closer -> {"none", "waiting", "idle"}]

Init ==
  /\ arrived = 0
  /\ stage = [t \in Task |-> "unsent"]
  /\ keys = [t \in Task |-> {}]
  /\ bytes = [t \in Task |-> 0]
  /\ attempt = [t \in Task |-> 0]
  /\ queuedBytes = 0
  /\ inFlight = 0
  /\ heldKeys = [k \in Key |-> 0]
  /\ closed = FALSE
  /\ closer = [c \in Closer |-> "none"]

-----------------------------------------------------------------------------
(* Mutant of Ready: the scan forgets the keys of the commands it skipped.  *)
Ready_ForgetsSkipped(st, ks, held) ==
  {t \in In(st, Waiting) : \A k \in ks[t] : held[k] <= 0}

(* #pump: a pending command is ready when no key of it is held and no      *)
(* earlier pending command names one of its keys.  An earlier command that *)
(* the same scan starts holds the key, one it skips puts it in             *)
(* waitingKeys: either way it blocks.  The scan stops at maxInFlight.      *)
Ready(st, ks, held) ==
  {t \in In(st, Waiting) :
      /\ \A k \in ks[t] : held[k] <= 0
      /\ \A u \in In(st, Waiting) : u < t => ~Shared(ks, t, u)}

Started_HeadOnly(st, ks, held, flying) ==
  {t \in Ready(st, ks, held) : flying < MaxInFlight /\ \A u \in In(st, Waiting) : u >= t}

Started(st, ks, held, flying) ==
  LET ready == Ready(st, ks, held)
  IN  {t \in ready : flying + Cardinality({u \in ready : u < t}) < MaxInFlight}

(* The bytes of the commands S together, each byte counted once.           *)
SumBytes(b, S) == Cardinality(UNION {{t} \X (1..b[t]) : t \in S})

(* Mutant of Woken: only the first waiter hears that the queue is idle.     *)
Woken_First(cl, st, flying) ==
  IF flying = 0 /\ In(st, Waiting) = {} /\ \E c \in Closer : cl[c] = "waiting"
  THEN [cl EXCEPT ![CHOOSE c \in Closer : cl[c] = "waiting"] = "idle"]
  ELSE cl

(* Resolving the waiters of close() once nothing runs or waits.            *)
Woken(cl, st, flying) ==
  IF flying = 0 /\ In(st, Waiting) = {}
  THEN [c \in Closer |-> IF cl[c] = "waiting" THEN "idle" ELSE cl[c]]
  ELSE cl

(* #pump with its #start calls, on the fields the caller has just changed. *)
PumpFrom(st, ks, b, held, flying, queued) ==
  LET go == Started(st, ks, held, flying)
  IN  /\ stage' = [t \in Task |-> IF t \in go THEN "running" ELSE st[t]]
      /\ attempt' = [t \in Task |-> IF t \in go THEN 1 ELSE attempt[t]]
      /\ heldKeys' = [k \in Key |-> held[k] + Cardinality({t \in go : k \in ks[t]})]
      /\ inFlight' = flying + Cardinality(go)
      /\ queuedBytes' = queued - SumBytes(b, go)
      /\ closer' = Woken(closer, stage', inFlight')

-----------------------------------------------------------------------------
Full(b) ==
  \/ Cardinality(In(stage, Waiting)) >= MaxQueuedCommands
  \/ queuedBytes + b > MaxQueuedBytes

Admits(b) == ~closed /\ ~Full(b)

(* execute(): admit the command and pump, or refuse it.                    *)
Execute(ks, b) ==
  LET t   == arrived + 1
      ks1 == [keys EXCEPT ![t] = ks]
      b1  == [bytes EXCEPT ![t] = b]
  IN  /\ arrived < MaxTask
      /\ arrived' = t
      /\ keys' = ks1
      /\ bytes' = b1
      /\ \/ /\ ~Admits(b)
            /\ stage' = [stage EXCEPT ![t] = "refused"]
            /\ UNCHANGED <<attempt, queuedBytes, inFlight, heldKeys, closer>>
         \/ /\ Admits(b)
            /\ PumpFrom([stage EXCEPT ![t] = "pending"], ks1, b1, heldKeys,
                        inFlight, queuedBytes + b)
      /\ UNCHANGED closed

BytesAfterClose == IF closed THEN queuedBytes ELSE 0

(* close(): the first call rejects what waits; every call then waits for   *)
(* the commands in flight.                                                 *)
Close(c) ==
  LET st == [t \in Task |->
               IF ~closed /\ stage[t] = "pending" THEN "rejected" ELSE stage[t]]
  IN  /\ closer[c] = "none"
      /\ closed' = TRUE
      /\ stage' = st
      /\ queuedBytes' = BytesAfterClose
      /\ closer' = [closer EXCEPT ![c] =
                      IF inFlight = 0 /\ In(st, Waiting) = {} THEN "idle" ELSE "waiting"]
      /\ UNCHANGED <<arrived, keys, bytes, attempt, inFlight, heldKeys>>

MayRetry(t) == attempt[t] < MaxConflictAttempts

(* A run that lost to a concurrent transaction sleeps, keeping its keys.   *)
Conflict(t) ==
  /\ stage[t] = "running"
  /\ MayRetry(t)
  /\ stage' = [stage EXCEPT ![t] = "backoff"]
  /\ UNCHANGED <<arrived, keys, bytes, attempt, queuedBytes, inFlight, heldKeys,
                 closed, closer>>

Retry(t) ==
  /\ stage[t] = "backoff"
  /\ stage' = [stage EXCEPT ![t] = "running"]
  /\ attempt' = [attempt EXCEPT ![t] = @ + 1]
  /\ UNCHANGED <<arrived, keys, bytes, queuedBytes, inFlight, heldKeys, closed, closer>>

(* run() returned, threw, or lost its last attempt: the caller hears of it.*)
Settle(t) ==
  /\ stage[t] = "running"
  /\ stage' = [stage EXCEPT ![t] = "settled"]
  /\ UNCHANGED <<arrived, keys, bytes, attempt, queuedBytes, inFlight, heldKeys,
                 closed, closer>>

(* Mutant of Freed: the finished command's keys stay held.                  *)
Freed_Leaked(t) == heldKeys

Freed(t) ==
  [k \in Key |-> IF k \in keys[t] THEN heldKeys[k] - 1 ELSE heldKeys[k]]

(* The finally callback of #start.                                         *)
Release(t) ==
  /\ stage[t] = "settled"
  /\ PumpFrom([stage EXCEPT ![t] = "finished"], keys, bytes, Freed(t),
              inFlight - 1, queuedBytes)
  /\ UNCHANGED <<arrived, keys, bytes, closed>>

Next ==
  \/ \E ks \in SUBSET Key, b \in Size : Execute(ks, b)
  \/ \E c \in Closer : Close(c)
  \/ \E t \in Task : Conflict(t) \/ Retry(t) \/ Settle(t) \/ Release(t)

Spec == Init /\ [][Next]_vars

(* A command's own promise settles (its work is a bounded transaction) and *)
(* the event loop runs every timer and microtask; nobody has to call.      *)
Fairness ==
  \A t \in Task : /\ WF_vars(Settle(t))
                  /\ WF_vars(Retry(t))
                  /\ WF_vars(Release(t))

LiveSpec == Spec /\ Fairness

-----------------------------------------------------------------------------
(* A command that was admitted has started only if every earlier admitted  *)
(* command sharing a key has ended, wherever that one was: running,        *)
(* sleeping after a conflict, or still waiting (admission-queue.ts:27-35). *)
NoOvertaking ==
  \A t, u \in Task :
    /\ u < t
    /\ Shared(keys, t, u)
    /\ stage[t] \in Holding \cup {"finished"}
    => stage[u] \in Ended

(* The counters agree with the commands they count, so a lost or doubled   *)
(* release can neither wedge a key nor free one early.                     *)
KeysHeldExactly ==
  \A k \in Key :
    heldKeys[k] = IF \E t \in In(stage, Holding) : k \in keys[t] THEN 1 ELSE 0

SlotsAndBytesExact ==
  /\ inFlight = Cardinality(In(stage, Holding))
  /\ inFlight <= MaxInFlight
  /\ queuedBytes = SumBytes(bytes, In(stage, Waiting))
  /\ queuedBytes <= MaxQueuedBytes
  /\ Cardinality(In(stage, Waiting)) <= MaxQueuedCommands

(* Between turns no command that may start is left waiting while a slot is *)
(* free: a slow Thread never holds up an unrelated one.                    *)
WorkConserving ==
  inFlight < MaxInFlight => Ready(stage, keys, heldKeys) = {}

(* Once some close() has resolved, nothing runs or waits, and never will.  *)
ClosedIsQuiet ==
  (\E c \in Closer : closer[c] = "idle") =>
     closed /\ In(stage, Waiting \cup Holding) = {}

(* The books of the queue: what #pump, #start and close count by hand      *)
(* always agrees with the commands themselves, also across close(), and a  *)
(* slot that is counted as free is put to use.                             *)
BooksBalance ==
  TypeOK /\ KeysHeldExactly /\ SlotsAndBytesExact /\ WorkConserving /\ ClosedIsQuiet

(* Every admitted command is eventually answered, and every close()        *)
(* eventually resolves, however often commands conflict and retry.         *)
AdmittedIsAnswered ==
  \A t \in Task : stage[t] \in Waiting \cup Holding ~> stage[t] \in Ended
CloseResolves ==
  \A c \in Closer : closer[c] = "waiting" ~> closer[c] = "idle"

(* Nobody waits on the queue for ever, neither a caller nor a close.       *)
EveryoneIsAnswered == AdmittedIsAnswered /\ CloseResolves
=============================================================================
