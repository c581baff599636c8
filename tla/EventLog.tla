------------------------------ MODULE EventLog ------------------------------
(***************************************************************************)
(* What the Host promises of the log of one Run: whatever becomes of the   *)
(* connections, it holds what the Run's attempts said, each event once and *)
(* in the order it was said.  Only an attempt that was superseded, or a Run*)
(* that has ended, is heard in part.  RunJournal is shown to implement it. *)
(***************************************************************************)
EXTENDS Integers, Sequences

CONSTANT Event      \* records with fields gen, n and kind

VARIABLES
  said,             \* the events the attempts have said
  log,              \* the events the Host has recorded, in order
  muted             \* generations that are no longer heard in full

vars == <<said, log, muted>>

Recorded == {log[i] : i \in DOMAIN log}

TypeOK == said \subseteq Event /\ log \in Seq(Event) /\ muted \subseteq Int

Init == said = {} /\ log = <<>> /\ muted = {}

(* An attempt numbers what it says upwards, and nothing follows its end.   *)
Say(e) ==
  /\ \A f \in said : f.gen = e.gen => f.n < e.n /\ f.kind = "note"
  /\ said' = said \cup {e}
  /\ UNCHANGED <<log, muted>>

(* The log goes on with the next event of the attempt that is heard.       *)
Record(e) ==
  /\ e \in said
  /\ \A f \in Recorded : f.gen <= e.gen /\ f.n < e.n /\ f.kind = "note"
  /\ e.gen \notin muted => \A f \in said : f.gen = e.gen /\ f.n < e.n => f \in Recorded
  /\ log' = Append(log, e)
  /\ UNCHANGED <<said, muted>>

Mute(g) ==
  /\ muted' = muted \cup {g}
  /\ UNCHANGED <<said, log>>

Next ==
  \E e \in Event : Say(e) \/ Record(e) \/ Mute(e.gen)

Spec == Init /\ [][Next]_vars
=============================================================================
