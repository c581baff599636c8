------------------------ MODULE ExecutionCoordinator ------------------------
(***************************************************************************)
(* packages/orchestration/src/execution-coordinator.ts: how the Host picks *)
(* the pending commands it dispatches.  A poll lists them, the queue holds *)
(* what the polls found, a pump takes from the queue what there is room    *)
(* for, and each taken command is claimed, dispatched and settled on its   *)
(* own.  A command a Runner was not ready for goes back to pending, and its*)
(* back-off paces the next try.                                            *)
(*                                                                         *)
(* The database is the status of each command.  A listing is read in one   *)
(* step and applied in another.  The clock is left out: a back-off elapses *)
(* at any time after it was recorded.                                      *)
(***************************************************************************)
EXTENDS Integers, Sequences, FiniteSets, SequencesExt, Subsequences

CONSTANTS
  MaxCommand,    \* bound of the model: commands, in the order they were created
  ThreadOf,      \* the Thread of each command
  IsRun,         \* whether a command is a run.execute; else it is a control
  MaxRuns,       \* maxConcurrentRuns
  MaxControls,   \* maxConcurrentControls
  MaxQueued,     \* maxQueuedCommands, of the queue and of a listing
  MaxRejection,  \* bound of the model: rejections of one command
  Pausable,      \* commands whose Thread's queue is paused and resumed at times
  Absent,        \* commands whose Runner comes and goes
  Uncertain      \* commands whose dispatch may end with its outcome unknown

Command == 1..MaxCommand
Kind == {"run", "control"}

ASSUME CoordinatorAssumption ==
  /\ MaxCommand \in Nat /\ MaxRejection \in Nat
  /\ MaxRuns \in Nat \ {0} /\ MaxControls \in Nat \ {0} /\ MaxQueued \in Nat \ {0}
  /\ IsRun \in [Command -> BOOLEAN]
  /\ Pausable \subseteq Command /\ Absent \subseteq Command /\ Uncertain \subseteq Command

VARIABLES
  status,    \* the row of each command; "dispatched" also while its Run executes
  paused,    \* commands whose Thread's queue is paused
  ready,     \* commands the dispatcher finds available now
  queue,     \* #queue
  stage,     \* where the dispatch of each command is: #dispatchingIds
  backoff,   \* #dispatchBackoff
  reads,     \* #reads: the poll under way, and whether another is requested
  timer,     \* #pollTimer is set
  life,      \* "on" between start and stop
  owed,      \* history: commands whose last back-off has not elapsed
  rejected,  \* history: rejections of each command since it was last accepted
  excused    \* history: commands paused, unlisted or given back since then

db == <<status, paused>>
history == <<owed, rejected, excused>>
vars == <<db, ready, queue, stage, backoff, reads, timer, life, history>>

NoEntry == [attempts |-> 0, elapsed |-> TRUE, fresh |-> FALSE]
IdleReads == [phase |-> "idle", again |-> FALSE, listing |-> <<>>]

KindOf(c) == IF IsRun[c] THEN "run" ELSE "control"
Dispatching == {c \in Command : stage[c] # "none"}
Room(kind) == IF kind = "run" THEN MaxRuns ELSE MaxControls

(* Types, the bound of the queue and the slots of each kind.               *)
TypeOK ==
  /\ status \in [Command -> {"none", "pending", "dispatched", "over"}]
  /\ paused \subseteq Command /\ ready \subseteq Command /\ owed \subseteq Command /\ excused \subseteq Command
  /\ queue \in Seq(Command) /\ Len(queue) <= MaxQueued
  /\ stage \in [Command -> {"none", "claiming", "dispatching", "retried"}]
  /\ backoff \in [Command -> [attempts : 0..MaxRejection, elapsed : BOOLEAN, fresh : BOOLEAN]]
  /\ reads \in [phase : {"idle", "reading", "read"}, again : BOOLEAN, listing : Seq(Command)]
  /\ timer \in BOOLEAN /\ life \in {"off", "on", "stopping"}
  /\ rejected \in [Command -> 0..MaxRejection]
  /\ \A kind \in Kind : Cardinality({c \in Dispatching : KindOf(c) = kind}) <= Room(kind)

Init ==
  /\ status = [c \in Command |-> "none"] /\ paused = {} /\ ready = Command \ Absent
  /\ queue = <<>> /\ stage = [c \in Command |-> "none"]
  /\ backoff = [c \in Command |-> NoEntry]
  /\ reads = IdleReads /\ timer = FALSE /\ life = "off"
  /\ owed = {} /\ rejected = [c \in Command |-> 0] /\ excused = {}

-----------------------------------------------------------------------------
(* The pump. *)

(* Mutant: the slots are not counted.                                      *)
Eligible_NoRoom(c, busy) ==
  /\ c \notin busy
  /\ IsRun[c] => \A d \in busy : IsRun[d] => ThreadOf[d] # ThreadOf[c]
  /\ backoff'[c].elapsed
  /\ c \in ready

(* What #pump looks for, with the commands of busy being dispatched.       *)
Eligible(c, busy) ==
  /\ Cardinality({d \in busy : KindOf(d) = KindOf(c)}) < Room(KindOf(c))
  /\ c \notin busy
  /\ IsRun[c] => \A d \in busy : IsRun[d] => ThreadOf[d] # ThreadOf[c]
  /\ backoff'[c].elapsed
  /\ c \in ready

(* #pump takes from the queue q until nothing in it can be dispatched: each*)
(* command that can be beside those of busy and those taken before it.     *)
Taken(q, busy, T) ==
  \A i \in DOMAIN q :
    q[i] \in T <=> life = "on" /\ Eligible(q[i], busy \cup {c \in T : \E j \in 1..i - 1 : q[j] = c})

(* The queue becomes q, and of stages st those the pump takes are claimed. *)
Pump(q, st) ==
  \E busy \in {{c \in Command : st[c] # "none"}}, T \in SUBSET ToSet(q) :
    /\ Taken(q, busy, T)
    /\ queue' = Omit(q, T)
    /\ stage' = [c \in Command |-> IF c \in T THEN "claiming" ELSE st[c]]

-----------------------------------------------------------------------------
(* Polls: CoalescedWake runs one at a time, and one more if it was woken   *)
(* meanwhile.  Starting a poll, back-offs recorded before it grow old.     *)
Aged == [c \in Command |-> [backoff[c] EXCEPT !.fresh = FALSE]]

Woken == IF life # "on" THEN reads
         ELSE IF reads.phase = "idle" THEN [IdleReads EXCEPT !.phase = "reading"]
         ELSE [reads EXCEPT !.again = TRUE]
(* The pass has settled: another was requested, or the timer of the next   *)
(* is set (#schedulePoll).                                                 *)
NextPass == IF reads.again THEN [IdleReads EXCEPT !.phase = "reading"] ELSE IdleReads

(* Mutant: the timer is set only if a pass was requested.                  *)
Rescheduled_Requested == timer \/ (reads.again /\ life = "on")
Rescheduled == timer \/ (~reads.again /\ life = "on")

Wake ==
  /\ life = "on"
  /\ reads' = Woken
  /\ backoff' = IF reads.phase = "idle" THEN Aged ELSE backoff
  /\ UNCHANGED <<db, ready, queue, stage, timer, life, history>>

TimerFires ==
  /\ timer /\ life = "on"
  /\ timer' = FALSE
  /\ reads' = Woken
  /\ backoff' = IF reads.phase = "idle" THEN Aged ELSE backoff
  /\ UNCHANGED <<db, ready, queue, stage, life, history>>

(* listPendingCommands: a Thread's next Run, and any control.              *)
Listed(c) ==
  /\ status[c] = "pending"
  /\ IsRun[c] => /\ c \notin paused
                 /\ \A d \in Command : d < c /\ IsRun[d] /\ ThreadOf[d] = ThreadOf[c]
                                       => status[d] = "over"

Listing ==
  LET l == Subsequence([i \in Command |-> i], {c \in Command : Listed(c)})
  IN  SubSeq(l, 1, IF Len(l) < MaxQueued THEN Len(l) ELSE MaxQueued)

ReadListing ==
  /\ reads.phase = "reading"
  /\ reads' = [reads EXCEPT !.phase = "read", !.listing = Listing]
  /\ excused' = excused \cup {c \in Command : Listed(c) /\ c \notin ToSet(Listing)}
  /\ UNCHANGED <<db, ready, queue, stage, backoff, timer, life, owed, rejected>>

ReadFails ==
  /\ reads.phase = "reading"
  /\ reads' = NextPass
  /\ backoff' = IF reads.again THEN Aged ELSE backoff
  /\ timer' = Rescheduled
  /\ UNCHANGED <<db, ready, queue, stage, life, history>>

(* Mutant: every entry that is not listed goes. *)
Keeps_Listed(c) == c \in ToSet(reads.listing) \/ stage[c] # "none"

(* #poll, once it has the listing: a back-off is dropped with its command, *)
(* and what is not queued yet is, as far as there is room.                 *)
Keeps(c) == \/ c \in ToSet(reads.listing) \/ stage[c] # "none"
            \/ backoff[c].fresh
Queued ==
  LET new == Omit(reads.listing, ToSet(queue))
      room == MaxQueued - Len(queue)
  IN  queue \o SubSeq(new, 1, IF Len(new) < room THEN Len(new) ELSE room)

ApplyListing ==
  /\ reads.phase = "read"
  /\ LET kept == [c \in Command |-> IF Keeps(c) THEN backoff[c] ELSE NoEntry]
     IN  backoff' = IF reads.again
                    THEN [c \in Command |-> [kept[c] EXCEPT !.fresh = FALSE]] ELSE kept
  /\ \E q \in {Queued} : Pump(q, stage)
  /\ reads' = NextPass
  /\ timer' = Rescheduled
  /\ UNCHANGED <<db, ready, life, history>>

-----------------------------------------------------------------------------
(* #execute.  When it settles, its slot is free: the queue is pumped and   *)
(* the pending commands are read again, now or at the next tick.           *)
Settle(c, entry, now) ==
  /\ backoff' = IF now /\ reads.phase = "idle" /\ life = "on"
                THEN [Aged EXCEPT ![c] = [entry EXCEPT !.fresh = FALSE]]
                ELSE [backoff EXCEPT ![c] = entry]
  /\ Pump(queue, [stage EXCEPT ![c] = "none"])
  /\ reads' = IF now THEN Woken ELSE reads
  /\ timer' = IF ~now /\ life = "on" THEN TRUE ELSE timer

(* claimCommand: only a command that is still pending.  A claim that fails *)
(* leaves it so.                                                           *)
Claim(c) ==
  /\ stage[c] = "claiming" /\ Listed(c)
  /\ status' = [status EXCEPT ![c] = "dispatched"]
  /\ stage' = [stage EXCEPT ![c] = "dispatching"]
  /\ UNCHANGED <<paused, ready, queue, backoff, reads, timer, life, history>>

(* Mutant: the slot of a claim that missed is not freed.                   *)
ClaimMisses_KeepsSlot(c) ==
  /\ stage[c] = "claiming" /\ ~Listed(c)
  /\ reads' = Woken
  /\ UNCHANGED <<db, ready, queue, stage, backoff, timer, life, history>>

ClaimMisses(c) ==
  /\ stage[c] = "claiming" /\ ~Listed(c)
  /\ Settle(c, backoff[c], TRUE)
  /\ UNCHANGED <<db, ready, life, history>>

ClaimFails(c) ==
  /\ stage[c] = "claiming"
  /\ Settle(c, backoff[c], FALSE)
  /\ UNCHANGED <<db, ready, life, history>>

Accepted(c) ==
  /\ stage[c] = "dispatching"
  /\ status' = [status EXCEPT ![c] = IF @ = "dispatched" /\ ~IsRun[c] THEN "over" ELSE @]
  /\ rejected' = [rejected EXCEPT ![c] = 0]
  /\ owed' = owed \ {c} /\ excused' = excused \ {c}
  /\ Settle(c, NoEntry, TRUE)
  /\ UNCHANGED <<paused, ready, life>>

(* failCommand, markSteerUnknown: the command is not sent again.           *)
Failed(c) ==
  /\ stage[c] = "dispatching"
  /\ status' = [status EXCEPT ![c] = IF @ = "dispatched" THEN "over" ELSE @]
  /\ Settle(c, backoff[c], TRUE)
  /\ UNCHANGED <<paused, ready, life, history>>

(* An outcome nobody knows, or the store fails after the claim: the        *)
(* command stays dispatched until a recovery sees to it.                   *)
Unsettled(c) ==
  /\ c \in Uncertain /\ stage[c] = "dispatching"
  /\ \E now \in BOOLEAN : Settle(c, backoff[c], now)
  /\ UNCHANGED <<db, ready, life, history>>

(* retryCommand commits, and only then is the back-off recorded.           *)
Retry(c) ==
  /\ stage[c] = "dispatching" /\ rejected[c] < MaxRejection
  /\ status' = [status EXCEPT ![c] = IF @ = "dispatched" THEN "pending" ELSE @]
  /\ stage' = [stage EXCEPT ![c] = "retried"]
  /\ owed' = owed \cup {c}
  /\ rejected' = [rejected EXCEPT ![c] = @ + 1]
  /\ UNCHANGED <<paused, ready, queue, backoff, reads, timer, life, excused>>

BackOff(c) ==
  /\ stage[c] = "retried"
  /\ Settle(c, [attempts |-> backoff[c].attempts + 1, elapsed |-> FALSE, fresh |-> TRUE], TRUE)
  /\ UNCHANGED <<db, ready, life, history>>

Elapses(c) ==
  /\ c \in owed /\ stage[c] # "retried"
  /\ owed' = owed \ {c}
  /\ backoff' = [backoff EXCEPT ![c].elapsed = TRUE]
  /\ UNCHANGED <<db, ready, queue, stage, reads, timer, life, rejected, excused>>

-----------------------------------------------------------------------------
(* start and stop. *)
Start ==
  /\ life = "off"
  /\ life' = "on"
  /\ reads' = [IdleReads EXCEPT !.phase = "reading"]
  /\ backoff' = Aged
  /\ UNCHANGED <<db, ready, queue, stage, timer, history>>

Stop ==
  /\ life = "on"
  /\ life' = "stopping" /\ timer' = FALSE
  /\ reads' = [reads EXCEPT !.again = FALSE]
  /\ UNCHANGED <<db, ready, queue, stage, backoff, history>>

(* #stop waits for the poll and the dispatches under way.  The back-offs   *)
(* go with the queue.                                                      *)
Stopped ==
  /\ life = "stopping" /\ reads.phase = "idle" /\ Dispatching = {}
  /\ life' = "off" /\ queue' = <<>>
  /\ backoff' = [c \in Command |-> NoEntry]
  /\ owed' = {} /\ rejected' = [c \in Command |-> 0] /\ excused' = {}
  /\ UNCHANGED <<db, ready, stage, reads, timer>>

(* The rest of the Host: commands are created, their Runs end, recoveries  *)
(* and stops move them, Threads are paused, Runners come and go.           *)
Create(c) ==
  /\ status[c] = "none" /\ \A d \in Command : d < c => status[d] # "none"
  /\ status' = [status EXCEPT ![c] = "pending"]
  /\ UNCHANGED <<paused, ready, queue, stage, backoff, reads, timer, life, history>>

Ends(c) ==
  /\ status[c] \in {"pending", "dispatched"}
  /\ status' = [status EXCEPT ![c] = "over"]
  /\ UNCHANGED <<paused, ready, queue, stage, backoff, reads, timer, life, history>>

(* A recovery gives a command back; one that is being dispatched is not    *)
(* its to give (dispatchingRunIds).  No poll has listed it meanwhile, and  *)
(* of one that was left unsettled the back-off may be gone.                *)
Requeued(c) ==
  /\ stage[c] = "none" /\ status[c] = "dispatched"
  /\ status' = [status EXCEPT ![c] = "pending"]
  /\ excused' = IF rejected[c] = 0 THEN excused ELSE excused \cup {c}
  /\ UNCHANGED <<paused, ready, queue, stage, backoff, reads, timer, life, owed, rejected>>

Pause(c) ==
  /\ c \in Pausable /\ IsRun[c]
  /\ paused' = IF c \in paused THEN paused \ {c} ELSE paused \cup {c}
  /\ excused' = excused \cup {c}
  /\ UNCHANGED <<status, ready, queue, stage, backoff, reads, timer, life, owed, rejected>>

Comes(c) ==
  /\ c \in Absent
  /\ ready' = IF c \in ready THEN ready \ {c} ELSE ready \cup {c}
  /\ UNCHANGED <<db, queue, stage, backoff, reads, timer, life, history>>

Settles(c) == Claim(c) \/ ClaimMisses(c) \/ Accepted(c) \/ Failed(c) \/ BackOff(c)

Next ==
  \/ Wake \/ TimerFires \/ ReadListing \/ ReadFails \/ ApplyListing
  \/ \E c \in Command : \/ Settles(c) \/ ClaimFails(c) \/ Unsettled(c) \/ Retry(c) \/ Elapses(c)
                        \/ Create(c) \/ Ends(c) \/ Requeued(c) \/ Pause(c) \/ Comes(c)
  \/ Start \/ Stop \/ Stopped

(* Timers fire, statements and dispatches end; a claim does not fail for   *)
(* ever.                                                                   *)
Fairness ==
  /\ WF_vars(TimerFires) /\ SF_vars(ReadListing) /\ WF_vars(ApplyListing)
  /\ WF_vars(Stopped)
  /\ \A c \in Command : /\ WF_vars(Settles(c)) /\ SF_vars(Claim(c)) /\ WF_vars(Elapses(c))

Spec == Init /\ [][Next]_vars
LiveSpec == Spec /\ Fairness

-----------------------------------------------------------------------------
(* Properties. *)

(* A command the Runner was not ready for is not claimed again before its  *)
(* back-off has elapsed, whatever was listed, queued or pruned meanwhile.  *)
(* A pause of its Thread excuses it: no listing names a paused command, so *)
(* the next poll drops its back-off with those of commands that are over.  *)
(* So does a listing that is full of commands created before it.           *)
RetriesArePaced ==
  [][\A c \in Command : status[c] = "pending" /\ status'[c] = "dispatched"
                       => c \notin owed \ excused]_vars

(* No poll forgets how often a pending command was rejected: its next      *)
(* back-off is longer than its last (#poll, #backOff).                     *)
RejectionsCounted ==
  \A c \in Command \ excused :
    status[c] = "pending" /\ stage[c] # "retried" => backoff[c].attempts = rejected[c]

(* Once stopped, the coordinator holds nothing and nothing runs.           *)
OffIsQuiet ==
  life = "off" => /\ queue = <<>> /\ Dispatching = {} /\ reads.phase = "idle" /\ ~timer
                  /\ \A c \in Command : backoff[c] = NoEntry

(* The coordinator's own state is consistent. *)
CoordinatorSound == TypeOK /\ RejectionsCounted /\ OffIsQuiet

(* A command that could be dispatched does not wait for ever: no wake-up,  *)
(* poll or freed slot is lost.                                             *)
Waits(c) == life = "on" /\ Listed(c) /\ c \in ready /\ stage[c] = "none"
NoneForgotten == \A c \in Command : ~<>[]Waits(c)

(* The map of back-offs does not grow: the entry of a command that is over *)
(* goes, as long as the coordinator is on.                                 *)
EntriesGo == \A c \in Command :
  ~<>[](life = "on" /\ status[c] = "over" /\ backoff[c] # NoEntry)

(* And a coordinator that is stopped comes to its end (#stop).             *)
StopEnds == life = "stopping" ~> life = "off"

NothingLingers == EntriesGo /\ StopEnds
=============================================================================
