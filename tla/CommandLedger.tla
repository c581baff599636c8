---------------------------- MODULE CommandLedger ---------------------------
(***************************************************************************)
(* apps/runner/src/agent/command-ledger.ts: what makes a command that the  *)
(* Host sends again be answered as the first time, and carried out once.   *)
(* An entry is made before the operation runs, so that copies that arrive  *)
(* meanwhile await the same result.  A refusal that may be retried is      *)
(* forgotten, so that the retry is tried again.                            *)
(*                                                                         *)
(* Operations are numbered; an operation is the promise of its result.     *)
(***************************************************************************)
EXTENDS Integers, Sequences, SequencesExt, Subsequences

CONSTANTS
  Command,      \* command identities
  MaxEntries,   \* maxEntries
  MaxOperation  \* bound of the model: operations

Operation == 1..MaxOperation

LedgerAssumption == MaxEntries \in Nat \ {0} /\ MaxOperation \in Nat

VARIABLES
  entries,  \* #entries, in the order of the Map: the operation of each
  op,       \* each operation: its command and where it is
  evicted   \* history: operations whose entry was pruned

vars == <<entries, op, evicted>>

NoOp == [state |-> "none"]
Ops == {o \in Operation : op[o] # NoOp}

TypeOK ==
  /\ entries \in Seq(Operation) /\ IsInjective(entries) /\ Len(entries) < MaxEntries
  /\ op \in [Operation -> {NoOp} \cup [state : {"running", "final", "retryable"},
                                       command : Command]]
  /\ evicted \subseteq Operation

Init == entries = <<>> /\ op = [o \in Operation |-> NoOp] /\ evicted = {}

(* #prune: the entries that are too old, and then the oldest while there   *)
(* are too many.                                                           *)
Pruned(es, expired) ==
  LET young == Omit(es, expired)
  IN  IF Len(young) < MaxEntries THEN young
      ELSE SubSeq(young, Len(young) - MaxEntries + 2, Len(young))

Of(es, c) == {o \in ToSet(es) : op[o].command = c}

(* execute, of a command that is not known: pruned before and after.       *)
Executes(c, expired) ==
  /\ Of(Pruned(entries, expired), c) = {}
  /\ \E o \in Operation \ Ops :
       /\ \A q \in Operation \ Ops : o <= q
       /\ op' = [op EXCEPT ![o] = [state |-> "running", command |-> c]]
       /\ entries' = Pruned(Append(Pruned(entries, expired), o), {})
       /\ evicted' = evicted \cup (ToSet(Append(entries, o)) \ ToSet(entries'))

(* A copy awaits the operation of its identity; one of other content is    *)
(* refused.                                                                *)
Recalls(c, expired) ==
  /\ Of(Pruned(entries, expired), c) # {}
  /\ entries' = Pruned(entries, expired)
  /\ evicted' = evicted \cup (ToSet(entries) \ ToSet(entries'))
  /\ op' = op

(* Mutant: whatever entry its identity has by now goes. *)
Own_Identity(o, q) == op[q].command = op[o].command

(* The operation ends.  A refusal that may be retried removes its own entry*)
(* and no other.                                                           *)
Own(o, q) == q = o

Ends(o) ==
  /\ op[o].state = "running"
  /\ \/ op' = [op EXCEPT ![o].state = "final"] /\ entries' = entries
     \/ /\ op' = [op EXCEPT ![o].state = "retryable"]
        /\ entries' = Omit(entries, {q \in Ops : Own(o, q)})
  /\ UNCHANGED evicted

Next ==
  \/ \E c \in Command, expired \in SUBSET ToSet(entries) :
       Executes(c, expired) \/ Recalls(c, expired)
  \/ \E o \in Operation : Ends(o)

Spec == Init /\ [][Next]_vars

-----------------------------------------------------------------------------
(* Properties. *)

(* What is under way or was answered for good is what its identity finds,  *)
(* and nothing else is, unless it was pruned: so no copy of it is carried  *)
(* out a second time, and each is answered by its result.                  *)
Remembered ==
  \A o \in Ops \ evicted : op[o].state # "retryable" =>
    /\ o \in ToSet(entries)
    /\ \A q \in ToSet(entries) : op[q].command = op[o].command => q = o

(* A refusal that may be retried is never the answer to a later copy.      *)
RefusalsForgotten == \A o \in ToSet(entries) : op[o].state # "retryable"

(* Of each command the ledger knows what it should, and nothing else.      *)
CommandsAnsweredOnce == TypeOK /\ Remembered /\ RefusalsForgotten
=============================================================================
