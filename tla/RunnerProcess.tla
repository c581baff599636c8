--------------------------- MODULE RunnerProcess ----------------------------
(***************************************************************************)
(* The small state machines of a Runner's process: the inbox of its        *)
(* connection, module BoundedInbox, the ledger of the commands it read     *)
(* from there, module CommandLedger, and the pool of the engines that      *)
(* carry them out, module WarmEngines.  They hand values on and share no   *)
(* state, so each is followed with the others at rest.                     *)
(***************************************************************************)
EXTENDS WarmEngines

CONSTANTS Kind, MaxItems, MaxBytes, MaxPush, MaxRead, Command, MaxEntries, MaxOperation

VARIABLES followed,  \* what a behaviour is about: "inbox", "ledger" or "engines"
          queue, waiters, bytes, closed, arrived, answer, entries, op, evicted

Inbox == INSTANCE BoundedInbox
Ledger == INSTANCE CommandLedger

ASSUME ProcessAssumption == Inbox!InboxAssumption /\ Ledger!LedgerAssumption

inboxVars == <<queue, waiters, bytes, closed, arrived, answer>>
ledgerVars == <<entries, op, evicted>>
processVars == <<followed, vars, inboxVars, ledgerVars>>

ProcessInit ==
  /\ followed \in {"inbox", "ledger", "engines"}
  /\ Init /\ Inbox!Init /\ Ledger!Init

ProcessNext ==
  /\ \/ followed = "inbox" /\ Inbox!Next /\ UNCHANGED <<vars, ledgerVars>>
     \/ followed = "ledger" /\ Ledger!Next /\ UNCHANGED <<vars, inboxVars>>
     \/ followed = "engines" /\ Next /\ UNCHANGED <<inboxVars, ledgerVars>>
  /\ UNCHANGED followed

ProcessFairness == followed = "engines" => Fairness

ProcessSpec == ProcessInit /\ [][ProcessNext]_processVars /\ ProcessFairness

-----------------------------------------------------------------------------
(* What the Host sent is read in order and once.                           *)
FramesAreRead == Inbox!FramesAreRead

(* What is sent again is answered as the first time, and carried out once. *)
CommandsAnsweredOnce == Ledger!CommandsAnsweredOnce
=============================================================================
