--------------------------- MODULE TriggersProofs ---------------------------
(***************************************************************************)
(* Proofs about Triggers, for every set of occurrences and every number of *)
(* boots, restarts and faults: a program is started once at most for its   *)
(* occurrence, what is recorded of it is what it said, and its row takes   *)
(* no step the clocks do not expect.  The inductive invariant relates the  *)
(* three records an occurrence has at the Host, its row, its command and   *)
(* its dispatch (Courses), and says that what was sent of it is in one     *)
(* place at a time: on the connection, on the Runner, in a transaction of  *)
(* the Host, or with the hook of a connection that was lost (Single).      *)
(*                                                                         *)
(* And proofs about the clocks, for every set of Triggers, every horizon   *)
(* and every limit: only an active Trigger has a next run, no instant is   *)
(* fired twice or too soon, no backlog forms, and a success archives a     *)
(* Trigger only when its instant has passed.  Their invariant says why a   *)
(* clock that does not run has stopped (ClockRight), and that the next     *)
(* instant of a Trigger is later than all it has queued (Ahead).           *)
(***************************************************************************)
EXTENDS Triggers, FiniteSetTheorems, SequenceTheorems, TLAPS

At(o) == dispatch[o].at
Status(o) == row[o].status

(* What goes with each state of the command.  Between a Host restart and the
   end a claimed occurrence may be pending with no dispatch left. *)
Course(o) ==
  \/ command[o] = "pending" /\ At(o) = "none" /\ Status(o) = "pending"
  \/ /\ command[o] = "dispatched"
     /\ \/ At(o) \in {"claimed", "named"} /\ Status(o) = "pending"
        \/ At(o) \in {"retry", "failed"} /\ Status(o) \in {"pending", "running"}
        \/ At(o) \in {"started", "sent"} /\ Status(o) = "running"
        \/ At(o) = "none" /\ Status(o) \in {"pending", "running"}
  \/ command[o] = "failed" /\ At(o) = "none" /\ Status(o) \in {"failed", "canceled"}
  \/ /\ command[o] = "succeeded" /\ At(o) = "none"
     /\ Status(o) \in Dispatch!Outcome /\ said[o] = Status(o)

(* Nothing was started for an occurrence that may still be sent. *)
Unsent(o) ==
  \/ Status(o) \in {"pending", "canceled"}
  \/ At(o) \in {"claimed", "named", "started", "retry", "failed"}

(* How the three records of an occurrence agree. *)
CourseOK(o) ==
  /\ Course(o)
  /\ starts[o] \in {0, 1}
  /\ Unsent(o) => starts[o] = 0
  /\ o \in owned => At(o) = "sent"

Courses == \A o \in Occurrence : CourseOK(o)

(* What a transaction has been told. *)
Result == [occ : Occurrence, gen : Nat, how : Dispatch!Outcome, boot : 1..MaxBoot, live : BOOLEAN]

(* Where an occurrence is besides: messages, transactions and hooks. *)
Sent(o)   == {m \in net : m.occ = o}
Heard(o)  == {t \in taken : t.occ = o}
Hooked(o) == \E h \in lost : o \in h.occs

(* A message is all there is of its occurrence, and says what the Runner did. *)
SentOK(o, m) ==
  /\ m.gen \in Nat /\ Sent(o) = {m} /\ Heard(o) = {}
  /\ At(o) = "sent" /\ program[o] = 0
  /\ \/ m.kind = "execute" /\ starts[o] = 0
     \/ m.kind = "rejected" /\ starts[o] = 0 /\ m.how \in {"retry", "failed"}
     \/ m.kind = "result" /\ starts[o] = 1 /\ m.how \in Dispatch!Outcome /\ said[o] = m.how

(* So is a transaction; its dispatch waits for it while the connection lives. *)
HeardOK(o, t) ==
  /\ Heard(o) = {t} /\ said[o] = t.how
  /\ program[o] = 0 /\ starts[o] = 1
  /\ At(o) = IF t.live THEN "sent" ELSE "none"

SingleOK(o) ==
  /\ \A m \in Sent(o) : SentOK(o, m)
  /\ \A t \in Heard(o) : HeardOK(o, t)
  /\ program[o] # 0 => At(o) = "sent" /\ starts[o] = 1
  /\ Hooked(o) => At(o) = "none" /\ command[o] # "pending"

Single ==
  /\ \A m \in net : m.occ \in Occurrence
  /\ taken \subseteq Result
  /\ \A o \in Occurrence : SingleOK(o)

Carried == Dispatch!TypeOK /\ Courses /\ Single

(* The types of a dispatch and of a row. *)
Calls == [at : {"none", "claimed", "named", "started", "sent", "retry", "failed"}, boot : 0..MaxBoot]
Rows  == [status : Dispatch!Final \cup {"pending", "running"}, gen : Nat, boot : 0..MaxBoot]

(* Nothing of the occurrence is anywhere but in its records. *)
Nowhere(o) == Sent(o) = {} /\ Heard(o) = {} /\ ~Hooked(o) /\ program[o] = 0

(* What a step to another occurrence leaves as it was. *)
Same(p) ==
  /\ row'[p] = row[p] /\ command'[p] = command[p] /\ dispatch'[p] = dispatch[p]
  /\ starts'[p] = starts[p] /\ said'[p] = said[p] /\ program'[p] = program[p]
  /\ p \in owned' <=> p \in owned

SamePlaces(p) ==
  Sent(p)' = Sent(p) /\ Heard(p)' = Heard(p) /\ (Hooked(p)' => Hooked(p))

-----------------------------------------------------------------------------
(* Lemmas about the records of one occurrence.                             *)

(* An occurrence that may still be sent is in its records only. *)
LEMMA UnsentIsNowhere ==
  ASSUME Carried, NEW o \in Occurrence,
         \/ command[o] = "pending"
         \/ At(o) \in {"claimed", "named", "started", "retry", "failed"}
  PROVE  Nowhere(o) /\ starts[o] = 0 /\ o \notin owned
<1>1. CourseOK(o) /\ SingleOK(o)
  BY DEF Carried, Courses, Single
<1>2. starts[o] = 0 /\ At(o) # "sent" /\ o \notin owned
  BY <1>1 DEF CourseOK, Course, Unsent
<1> QED
  BY <1>1, <1>2 DEF Nowhere, SingleOK, SentOK, HeardOK

(* The records of one occurrence change at a time. *)
LEMMA OneCourse ==
  ASSUME Courses, NEW o \in Occurrence, \A p \in Occurrence \ {o} : Same(p), CourseOK(o)'
  PROVE  Courses'
<1> SUFFICES ASSUME NEW p \in Occurrence, p # o PROVE CourseOK(p)'
  BY DEF Courses
<1>1. CourseOK(p) /\ Same(p)
  BY DEF Courses
<1> QED
  BY <1>1 DEF CourseOK, Course, Unsent, Same, At, Status

(* One occurrence changes its place at a time. *)
LEMMA OneSingle ==
  ASSUME Single, NEW o \in Occurrence, \A p \in Occurrence \ {o} : Same(p) /\ SamePlaces(p),
         \A m \in net' : m.occ \in Occurrence, taken' \subseteq Result,
         SingleOK(o)'
  PROVE  Single'
<1> SUFFICES ASSUME NEW p \in Occurrence, p # o PROVE SingleOK(p)'
  BY DEF Single
<1>1. SingleOK(p) /\ Same(p) /\ SamePlaces(p)
  BY DEF Single
<1>2. ASSUME NEW m \in Sent(p)' PROVE SentOK(p, m)'
  BY <1>1, <1>2 DEF SingleOK, SentOK, Same, SamePlaces, At
<1>3. ASSUME NEW t \in Heard(p)' PROVE HeardOK(p, t)'
  BY <1>1, <1>3 DEF SingleOK, HeardOK, Same, SamePlaces, At
<1>4. program'[p] # 0 => At(p)' = "sent" /\ starts'[p] = 1
  BY <1>1 DEF SingleOK, Same, At
<1>5. Hooked(p)' => At(p)' = "none" /\ command'[p] # "pending"
  BY <1>1 DEF SingleOK, Same, SamePlaces, At
<1> QED
  BY <1>2, <1>3, <1>4, <1>5 DEF SingleOK

(* A step that leaves every place as it was changes none. *)
LEMMA PlacesStay ==
  ASSUME UNCHANGED <<net, taken, lost>>, NEW p
  PROVE  SamePlaces(p)
  BY DEF SamePlaces, Sent, Heard, Hooked

(* No dispatch is one. *)
LEMMA NoCallTyped == Dispatch!NoCall \in Calls
  BY SMT, Bounds DEF Dispatch!NoCall, Calls, Dispatch!DispatchBounds

(* A dispatch changes in one field of one occurrence. *)
LEMMA AtBecomes ==
  ASSUME Dispatch!TypeOK, NEW o \in Occurrence, NEW a,
         dispatch' = [dispatch EXCEPT ![o].at = a]
  PROVE  /\ At(o)' = a
         /\ \A p \in Occurrence \ {o} : dispatch'[p] = dispatch[p]
  BY DEF Dispatch!TypeOK, At

-----------------------------------------------------------------------------
(* The owner and the coordinator.                                          *)

(* At first every occurrence waits, and nothing was sent. *)
LEMMA InitCarries == ASSUME Dispatch!Init PROVE Carried
<1> USE DEF Dispatch!Init, Dispatch!Queued, Dispatch!NoCall
<1>1. Dispatch!TypeOK
  BY Bounds, SMT DEF Dispatch!TypeOK, Dispatch!Final, Dispatch!Outcome, Dispatch!DispatchBounds
<1>2. Courses
  BY DEF Courses, CourseOK, Course, Unsent, At, Status
<1>3. Single
  BY DEF Single, SingleOK, Sent, Heard, Hooked, At
<1> QED
  BY <1>1, <1>2, <1>3 DEF Carried

(* Cancel: nothing was sent for a command that is pending. *)
LEMMA CancelCarries ==
  ASSUME Carried, NEW o \in Occurrence, Dispatch!Cancel(o)
  PROVE  Carried'
<1> USE DEF Carried
<1>1. Nowhere(o) /\ starts[o] = 0 /\ o \notin owned
  BY UnsentIsNowhere DEF Dispatch!Cancel, At
<1>2. CourseOK(o)
  BY DEF Courses
<1>3. /\ \A p \in Occurrence \ {o} : Same(p)
      /\ UNCHANGED <<net, taken, lost, program, starts, owned>>
  BY DEF Dispatch!Cancel, Dispatch!TypeOK, Dispatch!tables, Dispatch!runner, Same
<1>4. Dispatch!TypeOK'
  BY SMT DEF Dispatch!Cancel, Dispatch!TypeOK, Dispatch!Final, Dispatch!Outcome,
     Dispatch!tables, Dispatch!runner
<1>5. CourseOK(o)'
  BY <1>1, <1>2, <1>3 DEF CourseOK, Course, Unsent, At, Status, Dispatch!Cancel, Dispatch!TypeOK,
     Dispatch!tables, Dispatch!runner
<1>6. Courses'
  BY <1>3, <1>5, OneCourse
<1>7. Single'
  <2>1. SingleOK(o)'
    BY <1>1, <1>3 DEF Nowhere, SingleOK, Sent, Heard, Hooked
  <2> QED
    BY <1>3, <2>1, PlacesStay, OneSingle DEF Single
<1> QED
  BY <1>4, <1>6, <1>7

(* Claim: a pending command has nothing anywhere, and now a dispatch. *)
LEMMA ClaimCarries ==
  ASSUME Carried, NEW o \in Occurrence, Dispatch!Claim(o)
  PROVE  Carried'
<1> USE DEF Carried
<1>1. Nowhere(o) /\ starts[o] = 0 /\ o \notin owned
  BY UnsentIsNowhere DEF Dispatch!Claim, At
<1>2. CourseOK(o)
  BY DEF Courses
<1>3. /\ \A p \in Occurrence \ {o} : Same(p)
      /\ UNCHANGED <<net, taken, lost, program, starts, owned>>
  BY DEF Dispatch!Claim, Dispatch!TypeOK, Dispatch!tables, Dispatch!runner, Same
<1>4. Dispatch!TypeOK'
  BY SMT DEF Dispatch!Claim, Dispatch!TypeOK, Dispatch!Final, Dispatch!Outcome, Dispatch!tables,
     Dispatch!runner
<1>5. CourseOK(o)'
  BY <1>1, <1>2, <1>3 DEF CourseOK, Course, Unsent, At, Status, Dispatch!Claim, Dispatch!TypeOK,
     Dispatch!tables, Dispatch!runner
<1>6. Courses'
  BY <1>3, <1>5, OneCourse
<1>7. Single'
  <2>1. SingleOK(o)'
    BY <1>1, <1>3 DEF Nowhere, SingleOK, Sent, Heard, Hooked
  <2> QED
    BY <1>3, <2>1, PlacesStay, OneSingle DEF Single
<1> QED
  BY <1>4, <1>6, <1>7

(* Name: the dispatch goes on, or waits to be retried; nothing was sent. *)
LEMMA NameCarries ==
  ASSUME Carried, NEW o \in Occurrence, Dispatch!Name(o)
  PROVE  Carried'
<1> USE DEF Carried
<1>1. Nowhere(o) /\ starts[o] = 0 /\ o \notin owned
  BY UnsentIsNowhere DEF Dispatch!Name, At
<1>2. CourseOK(o)
  BY DEF Courses
<1>3. /\ \A p \in Occurrence \ {o} : Same(p)
      /\ UNCHANGED <<net, taken, lost, program, starts, owned>>
  BY DEF Dispatch!Name, Dispatch!TypeOK, Dispatch!tables, Dispatch!runner, Same
<1>4. Dispatch!TypeOK'
  <2>1. CASE link
    BY <2>1, SMT DEF Dispatch!Name, Dispatch!TypeOK, Dispatch!Final, Dispatch!Outcome,
       Dispatch!tables, Dispatch!runner
  <2>2. CASE ~link
    BY <2>2, SMT, Bounds DEF Dispatch!Name, Dispatch!DispatchBounds, Dispatch!TypeOK,
       Dispatch!Final, Dispatch!Outcome, Dispatch!tables, Dispatch!runner
  <2> QED
    BY <2>1, <2>2
<1>5. CourseOK(o)'
  BY <1>1, <1>2, <1>3 DEF CourseOK, Course, Unsent, At, Status, Dispatch!Name, Dispatch!TypeOK,
     Dispatch!tables, Dispatch!runner, Dispatch!NoCall
<1>6. Courses'
  BY <1>3, <1>5, OneCourse
<1>7. Single'
  <2>1. SingleOK(o)'
    BY <1>1, <1>3 DEF Nowhere, SingleOK, Sent, Heard, Hooked
  <2> QED
    BY <1>3, <2>1, PlacesStay, OneSingle DEF Single
<1> QED
  BY <1>4, <1>6, <1>7

(* StartExecution: the row is bound before anything is sent. *)
LEMMA StartExecutionCarries ==
  ASSUME Carried, NEW o \in Occurrence, Dispatch!StartExecution(o)
  PROVE  Carried'
<1> USE DEF Carried
<1>1. Nowhere(o) /\ starts[o] = 0 /\ o \notin owned
  BY UnsentIsNowhere DEF Dispatch!StartExecution, At
<1>2. CourseOK(o)
  BY DEF Courses
<1>3. /\ \A p \in Occurrence \ {o} : Same(p)
      /\ UNCHANGED <<net, taken, lost, program, starts, owned>>
  BY DEF Dispatch!StartExecution, Dispatch!TypeOK, Dispatch!tables, Dispatch!runner, Same
<1>4. Dispatch!TypeOK'
  BY SMT DEF Dispatch!StartExecution, Dispatch!TypeOK, Dispatch!Final, Dispatch!Outcome,
     Dispatch!tables, Dispatch!runner, Dispatch!Binding
<1>5. CourseOK(o)'
  BY <1>1, <1>2, <1>3 DEF CourseOK, Course, Unsent, At, Status, Dispatch!StartExecution,
     Dispatch!TypeOK,
     Dispatch!tables, Dispatch!runner, Dispatch!Binding
<1>6. Courses'
  BY <1>3, <1>5, OneCourse
<1>7. Single'
  <2>1. SingleOK(o)'
    BY <1>1, <1>3 DEF Nowhere, SingleOK, Sent, Heard, Hooked
  <2> QED
    BY <1>3, <2>1, PlacesStay, OneSingle DEF Single
<1> QED
  BY <1>4, <1>6, <1>7

(* Throws: a dispatch that ends before it has sent anything. *)
LEMMA ThrowsCarries ==
  ASSUME Carried, NEW o \in Occurrence, Dispatch!Throws(o)
  PROVE  Carried'
<1> USE DEF Carried
<1>1. Nowhere(o) /\ starts[o] = 0 /\ o \notin owned
  BY UnsentIsNowhere DEF Dispatch!Throws, At
<1>2. CourseOK(o)
  BY DEF Courses
<1>3. /\ \A p \in Occurrence \ {o} : Same(p)
      /\ UNCHANGED <<net, taken, lost, program, starts, owned>>
  BY DEF Dispatch!Throws, Dispatch!TypeOK, Dispatch!tables, Dispatch!runner, Same
<1>4. Dispatch!TypeOK'
  <2>1. CASE faults' = faults + 1 /\ faults < MaxFault /\ dispatch' = [dispatch EXCEPT ![o].at = "retry"]
    BY <2>1, SMT, Bounds DEF Dispatch!Throws, Dispatch!DispatchBounds, Dispatch!TypeOK,
       Dispatch!Final, Dispatch!Outcome, Dispatch!tables, Dispatch!runner
  <2>2. CASE dispatch' = [dispatch EXCEPT ![o].at = "failed"] /\ faults' = faults
    BY <2>2, SMT DEF Dispatch!Throws, Dispatch!TypeOK, Dispatch!Final, Dispatch!Outcome,
       Dispatch!tables, Dispatch!runner
  <2> QED
    BY <2>1, <2>2, Zenon DEF Dispatch!Throws
<1>5. CourseOK(o)'
  BY <1>1, <1>2, <1>3 DEF CourseOK, Course, Unsent, At, Status, Dispatch!Throws, Dispatch!TypeOK,
     Dispatch!tables, Dispatch!runner
<1>6. Courses'
  BY <1>3, <1>5, OneCourse
<1>7. Single'
  <2>1. SingleOK(o)'
    BY <1>1, <1>3 DEF Nowhere, SingleOK, Sent, Heard, Hooked
  <2> QED
    BY <1>3, <2>1, PlacesStay, OneSingle DEF Single
<1> QED
  BY <1>4, <1>6, <1>7

(* A row that waits again is a row. *)
LEMMA RowWaits ==
  ASSUME NEW S, NEW r \in [status : S, gen : Nat, boot : 0..MaxBoot], "pending" \in S
  PROVE  [r EXCEPT !.status = "pending", !.boot = 0] \in [status : S, gen : Nat, boot : 0..MaxBoot]
<1>1. 0 \in 0..MaxBoot
  BY SMT, Bounds DEF Dispatch!DispatchBounds
<1>2. [r EXCEPT !.status = "pending"] \in [status : S, gen : Nat, boot : 0..MaxBoot]
  OBVIOUS
<1>3. PICK q \in [status : S, gen : Nat, boot : 0..MaxBoot] : q = [r EXCEPT !.status = "pending"]
  BY <1>2, Zenon
<1>4. [q EXCEPT !.boot = 0] \in [status : S, gen : Nat, boot : 0..MaxBoot]
  BY <1>1
<1> QED
  BY <1>3, <1>4, Zenon

(* RetryCommand: only a dispatch that started nothing is retried. *)
LEMMA RetryCommandCarries ==
  ASSUME Carried, NEW o \in Occurrence, Dispatch!RetryCommand(o)
  PROVE  Carried'
<1> USE DEF Carried
<1>1. Nowhere(o) /\ starts[o] = 0 /\ o \notin owned
  BY UnsentIsNowhere DEF Dispatch!RetryCommand, At
<1>2. CourseOK(o)
  BY DEF Courses
<1>3. /\ \A p \in Occurrence \ {o} : Same(p)
      /\ UNCHANGED <<net, taken, lost, program, starts, owned>>
  BY DEF Dispatch!RetryCommand, Dispatch!TypeOK, Dispatch!tables, Dispatch!runner, Same
<1>4. Dispatch!TypeOK'
  <2>1. /\ Dispatch!NoCall \in Calls
        /\ dispatch' = [dispatch EXCEPT ![o] = Dispatch!NoCall]
    BY NoCallTyped DEF Dispatch!RetryCommand
  <2>2. UNCHANGED <<link, boot, owned, lost, net, taken, program, starts, said, restarts, faults>>
    BY DEF Dispatch!RetryCommand, Dispatch!runner
  <2>3. /\ command' \in [Occurrence -> {"pending", "dispatched", "succeeded", "failed"}]
        /\ row' \in [Occurrence -> Rows]
    <3>1. CASE command[o] = "dispatched" /\ row[o].status = "running"
      <4>1. /\ command' = [command EXCEPT ![o] = "pending"]
            /\ row' = [row EXCEPT ![o] = [@ EXCEPT !.status = "pending", !.boot = 0]]
        BY <3>1, Zenon DEF Dispatch!RetryCommand
      <4> QED
        BY <4>1, RowWaits, Bounds DEF Dispatch!TypeOK, Rows, Dispatch!DispatchBounds
    <3>2. CASE ~(command[o] = "dispatched" /\ row[o].status = "running")
      <4>1. /\ row' = row
            /\ command' = [command EXCEPT ![o] = "pending"] \/ command' = command
        BY <3>2, Zenon DEF Dispatch!RetryCommand, Dispatch!tables
      <4> QED
        BY <4>1, SMT DEF Dispatch!TypeOK, Rows
    <3> QED
      BY <3>1, <3>2
  <2>4. dispatch' \in [Occurrence -> Calls]
    BY <2>1, Zenon DEF Dispatch!TypeOK, Calls
  <2> QED
    BY <2>2, <2>3, <2>4, Zenon DEF Dispatch!TypeOK, Rows, Calls
<1>5. CourseOK(o)'
  <2>1. /\ command[o] = "dispatched" /\ Status(o) \in {"pending", "running"}
    BY <1>2 DEF CourseOK, Course, At, Dispatch!RetryCommand
  <2>2. /\ command'[o] = "pending" /\ row'[o].status = "pending"
        /\ dispatch'[o] = Dispatch!NoCall
    <3>1. CASE row[o].status = "running"
      <4>1. /\ command' = [command EXCEPT ![o] = "pending"]
            /\ row' = [row EXCEPT ![o] = [@ EXCEPT !.status = "pending", !.boot = 0]]
            /\ dispatch' = [dispatch EXCEPT ![o] = Dispatch!NoCall]
        BY <2>1, <3>1, Zenon DEF Dispatch!RetryCommand
      <4> QED
        BY <4>1, SMT DEF Dispatch!TypeOK
    <3>2. CASE row[o].status = "pending"
      <4>1. /\ command' = [command EXCEPT ![o] = "pending"]
            /\ row' = row
            /\ dispatch' = [dispatch EXCEPT ![o] = Dispatch!NoCall]
        BY <2>1, <3>2, SMT DEF Dispatch!RetryCommand
      <4> QED
        BY <3>2, <4>1, SMT DEF Dispatch!TypeOK
    <3> QED
      BY <2>1, <3>1, <3>2 DEF Status
  <2>3. At(o)' = "none" /\ Status(o)' = "pending" /\ starts'[o] = 0 /\ o \notin owned'
    BY <1>1, <1>3, <2>2 DEF At, Status, Dispatch!NoCall
  <2> QED
    BY <2>2, <2>3 DEF CourseOK, Course, At, Status
<1>6. Courses'
  BY <1>3, <1>5, OneCourse
<1>7. Single'
  <2>1. SingleOK(o)'
    BY <1>1, <1>3 DEF Nowhere, SingleOK, Sent, Heard, Hooked
  <2> QED
    BY <1>3, <2>1, PlacesStay, OneSingle DEF Single
<1> QED
  BY <1>4, <1>6, <1>7

(* FailCommand: what failed before it was sent stays failed. *)
LEMMA FailCommandCarries ==
  ASSUME Carried, NEW o \in Occurrence, Dispatch!FailCommand(o)
  PROVE  Carried'
<1> USE DEF Carried
<1>1. Nowhere(o) /\ starts[o] = 0 /\ o \notin owned
  BY UnsentIsNowhere DEF Dispatch!FailCommand, At
<1>2. CourseOK(o)
  BY DEF Courses
<1>3. /\ \A p \in Occurrence \ {o} : Same(p)
      /\ UNCHANGED <<net, taken, lost, program, starts, owned>>
  BY DEF Dispatch!FailCommand, Dispatch!TypeOK, Dispatch!tables, Dispatch!runner, Same
<1>4. Dispatch!TypeOK'
  <2>1. /\ Dispatch!NoCall \in Calls
        /\ dispatch' = [dispatch EXCEPT ![o] = Dispatch!NoCall]
    BY NoCallTyped DEF Dispatch!FailCommand
  <2>2. /\ command' = [command EXCEPT ![o] = IF @ = "dispatched" THEN "failed" ELSE @]
        /\ row' = [row EXCEPT ![o].status = IF @ \in {"pending", "running"} THEN "failed" ELSE @]
        /\ UNCHANGED <<link, boot, owned, lost, net, taken, program, starts, said, restarts, faults>>
    BY DEF Dispatch!FailCommand, Dispatch!runner
  <2> QED
    BY <2>1, <2>2, SMT DEF Dispatch!TypeOK, Rows, Calls, Dispatch!Final, Dispatch!Outcome
<1>5. CourseOK(o)'
  BY <1>1, <1>2, <1>3 DEF CourseOK, Course, Unsent, At, Status, Dispatch!FailCommand,
     Dispatch!TypeOK,
     Dispatch!tables, Dispatch!runner, Dispatch!NoCall
<1>6. Courses'
  BY <1>3, <1>5, OneCourse
<1>7. Single'
  <2>1. SingleOK(o)'
    BY <1>1, <1>3 DEF Nowhere, SingleOK, Sent, Heard, Hooked
  <2> QED
    BY <1>3, <2>1, PlacesStay, OneSingle DEF Single
<1> QED
  BY <1>4, <1>6, <1>7

(* Send: the first message of the occurrence, whose program never started. *)
LEMMA SendCarries ==
  ASSUME Carried, NEW o \in Occurrence, Dispatch!Send(o)
  PROVE  Carried'
<1> USE DEF Carried
<1>1. Nowhere(o) /\ starts[o] = 0 /\ o \notin owned
  BY UnsentIsNowhere DEF Dispatch!Send, At
<1>2. CourseOK(o)
  BY DEF Courses
<1>3. UNCHANGED <<row, command, taken, lost, program, starts, said>>
  BY DEF Dispatch!Send, Dispatch!tables, Dispatch!runner
<1>4. Dispatch!TypeOK'
  BY SMT DEF Dispatch!Send, Dispatch!TypeOK, Dispatch!Final, Dispatch!Outcome, Dispatch!tables,
     Dispatch!runner
<1>5. \A p \in Occurrence \ {o} : Same(p) /\ SamePlaces(p)
  BY DEF Dispatch!Send, Dispatch!Message, Dispatch!TypeOK, Dispatch!tables, Dispatch!runner,
     Same, SamePlaces, Sent, Heard, Hooked
<1>6. CourseOK(o)'
  BY <1>1, <1>2, <1>3 DEF CourseOK, Course, Unsent, At, Status, Dispatch!Send, Dispatch!TypeOK
<1>7. SingleOK(o)'
  <2>1. Heard(o)' = {} /\ ~Hooked(o)' /\ program'[o] = 0 /\ starts'[o] = 0
    BY <1>1, <1>3 DEF Nowhere, Heard, Hooked
  <2>2. CASE link
    <3>1. /\ Sent(o)' = {Dispatch!Message("execute", o, row[o].gen, "none")}
          /\ At(o)' = "sent"
      BY <1>1, <2>2 DEF Dispatch!Send, Dispatch!Message, Dispatch!TypeOK, Nowhere, Sent, At
    <3>2. row[o].gen \in Nat
      BY DEF Dispatch!TypeOK
    <3> QED
      BY <2>1, <3>1, <3>2 DEF SingleOK, SentOK, Dispatch!Message
  <2>3. CASE ~link
    BY <1>1, <2>1, <2>3 DEF SingleOK, Nowhere, Sent, Dispatch!Send
  <2> QED
    BY <2>2, <2>3
<1>8. \A m \in net' : m.occ \in Occurrence
  BY DEF Dispatch!Send, Dispatch!Message, Single
<1> QED
  BY <1>3, <1>4, <1>5, <1>6, <1>7, <1>8, OneCourse, OneSingle DEF Single

-----------------------------------------------------------------------------
(* The Runner, and what the Host hears.                                    *)

(* What is known of a message that is there. *)
LEMMA Carries ==
  ASSUME Carried, NEW m \in net
  PROVE  /\ m.occ \in Occurrence /\ SentOK(m.occ, m)
         /\ CourseOK(m.occ) /\ SingleOK(m.occ) /\ ~Hooked(m.occ)
         /\ command[m.occ] = "dispatched" /\ Status(m.occ) = "running"
<1>1. m.occ \in Occurrence /\ m \in Sent(m.occ)
  BY DEF Carried, Single, Sent
<1>2. SingleOK(m.occ) /\ CourseOK(m.occ)
  BY <1>1 DEF Carried, Single, Courses
<1>3. SentOK(m.occ, m)
  BY <1>1, <1>2 DEF SingleOK
<1> QED
  BY <1>1, <1>2, <1>3 DEF SentOK, SingleOK, CourseOK, Course

(* Admit: the one execute message becomes a program, or its refusal. *)
LEMMA AdmitCarries ==
  ASSUME Carried, NEW m, Dispatch!Admit(m)
  PROVE  Carried'
<1> USE DEF Carried
<1> DEFINE o == m.occ
<1>1. m \in net /\ m.kind = "execute"
  BY DEF Dispatch!Admit
<1>2. /\ o \in Occurrence /\ SentOK(o, m) /\ CourseOK(o) /\ SingleOK(o) /\ ~Hooked(o)
      /\ command[o] = "dispatched" /\ Status(o) = "running"
  BY <1>1, Carries
<1>3. /\ UNCHANGED <<row, command, dispatch, link, boot, owned, lost, taken, said, restarts>>
  BY DEF Dispatch!Admit, Dispatch!tables, Dispatch!runner
<1>4. /\ At(o) = "sent" /\ Sent(o) = {m} /\ Heard(o) = {} /\ starts[o] = 0 /\ m.gen \in Nat
  BY <1>1, <1>2 DEF SentOK
<1>5. Dispatch!TypeOK'
  <2>1. program' \in [Occurrence -> Nat] /\ starts' \in [Occurrence -> Nat] /\ faults' \in 0..MaxFault
    BY <1>2, <1>4, SMT, Bounds DEF Dispatch!Admit, Dispatch!TypeOK, Dispatch!DispatchBounds
  <2> QED
    BY <1>3, <2>1 DEF Dispatch!TypeOK
<1>6. \A p \in Occurrence \ {o} : Same(p) /\ SamePlaces(p)
  BY <1>2, <1>3 DEF Dispatch!Admit, Dispatch!Message, Dispatch!TypeOK, Same, SamePlaces, Sent,
     Heard, Hooked
<1>7. CourseOK(o)' /\ SingleOK(o)'
  <2>1. Heard(o)' = {} /\ ~Hooked(o)' /\ At(o)' = "sent"
    BY <1>2, <1>3, <1>4 DEF Heard, Hooked, At
  <2>2. ASSUME starts'[o] \in {0, 1} PROVE CourseOK(o)'
    BY <1>2, <1>3, <1>4, <2>2 DEF CourseOK, Course, Unsent, At, Status
  <2>3. CASE /\ program' = [program EXCEPT ![o] = m.gen]
             /\ starts' = [starts EXCEPT ![o] = @ + 1]
             /\ net' = net \ {m}
    <3>1. Sent(o)' = {} /\ starts'[o] = 1
      BY <1>2, <1>4, <2>3 DEF Sent, Dispatch!TypeOK
    <3> QED
      BY <2>1, <2>2, <3>1 DEF SingleOK
  <2>4. ASSUME NEW how \in {"retry", "failed"},
               net' = (net \ {m}) \cup {Dispatch!Message("rejected", o, m.gen, how)},
               UNCHANGED <<program, starts>>
        PROVE  CourseOK(o)' /\ SingleOK(o)'
    <3>1. Sent(o)' = {Dispatch!Message("rejected", o, m.gen, how)}
      BY <1>4, <2>4 DEF Sent, Dispatch!Message
    <3>2. program'[o] = 0 /\ starts'[o] = 0
      BY <1>1, <1>2, <1>4, <2>4 DEF SentOK
    <3> QED
      BY <1>4, <2>1, <2>2, <3>1, <3>2 DEF SingleOK, SentOK, Dispatch!Message
  <2> QED
    BY <2>3, <2>4 DEF Dispatch!Admit
<1>8. \A n \in net' : n.occ \in Occurrence
  BY <1>2 DEF Dispatch!Admit, Dispatch!Message, Single
<1> QED
  BY <1>2, <1>3, <1>5, <1>6, <1>7, <1>8, OneCourse, OneSingle DEF Single

(* Ends: the program's result is the only thing sent of its occurrence. *)
LEMMA EndsCarries ==
  ASSUME Carried, NEW o \in Occurrence, Dispatch!Ends(o)
  PROVE  Carried'
<1> USE DEF Carried
<1>1. CourseOK(o) /\ SingleOK(o) /\ program[o] # 0
  BY DEF Courses, Single, Dispatch!Ends
<1>2. At(o) = "sent" /\ starts[o] = 1 /\ command[o] = "dispatched" /\ Status(o) = "running"
  BY <1>1 DEF SingleOK, CourseOK, Course
<1>3. Sent(o) = {} /\ Heard(o) = {} /\ ~Hooked(o)
  BY <1>1, <1>2 DEF SingleOK, SentOK, HeardOK
<1>4. /\ UNCHANGED <<row, command, dispatch, link, boot, owned, lost, taken, starts, restarts, faults>>
      /\ program' = [program EXCEPT ![o] = 0]
  BY DEF Dispatch!Ends, Dispatch!tables, Dispatch!runner
<1>5. PICK how \in Dispatch!Outcome :
        /\ said' = [said EXCEPT ![o] = how]
        /\ net' = net \cup {Dispatch!Message("result", o, program[o], how)}
  BY DEF Dispatch!Ends
<1>6. Dispatch!TypeOK'
  BY <1>4, <1>5 DEF Dispatch!TypeOK
<1>7. \A p \in Occurrence \ {o} : Same(p) /\ SamePlaces(p)
  BY <1>4, <1>5 DEF Dispatch!Message, Dispatch!TypeOK, Same, SamePlaces, Sent, Heard, Hooked
<1>8. CourseOK(o)'
  BY <1>1, <1>2, <1>4 DEF CourseOK, Course, Unsent, At, Status
<1>9. SingleOK(o)'
  <2>1. /\ Sent(o)' = {Dispatch!Message("result", o, program[o], how)}
        /\ Heard(o)' = {} /\ ~Hooked(o)' /\ At(o)' = "sent"
    BY <1>2, <1>3, <1>4, <1>5 DEF Sent, Heard, Hooked, At, Dispatch!Message
  <2>2. program'[o] = 0 /\ said'[o] = how /\ starts'[o] = 1 /\ program[o] \in Nat
    BY <1>2, <1>4, <1>5 DEF Dispatch!TypeOK
  <2> QED
    BY <2>1, <2>2 DEF SingleOK, SentOK, Dispatch!Message
<1>10. \A m \in net' : m.occ \in Occurrence
  BY <1>5 DEF Dispatch!Message, Single
<1> QED
  BY <1>4, <1>6, <1>7, <1>8, <1>9, <1>10, OneCourse, OneSingle DEF Single

(* HearRejected: the program was not started, and may be sent again. *)
LEMMA HearRejectedCarries ==
  ASSUME Carried, NEW m, Dispatch!HearRejected(m)
  PROVE  Carried'
<1> USE DEF Carried
<1> DEFINE o == m.occ
<1>1. m \in net /\ m.kind = "rejected"
  BY DEF Dispatch!HearRejected
<1>2. /\ o \in Occurrence /\ SentOK(o, m) /\ CourseOK(o) /\ ~Hooked(o)
      /\ command[o] = "dispatched" /\ Status(o) = "running"
  BY <1>1, Carries
<1>3. /\ UNCHANGED <<row, command, link, boot, lost, taken, program, starts, said, restarts, faults>>
      /\ net' = net \ {m} /\ owned' = owned \ {o}
      /\ dispatch' = [dispatch EXCEPT ![o].at = m.how]
  BY DEF Dispatch!HearRejected, Dispatch!tables, Dispatch!runner
<1>4. /\ Sent(o) = {m} /\ Heard(o) = {} /\ starts[o] = 0 /\ program[o] = 0
      /\ m.how \in {"retry", "failed"}
  BY <1>1, <1>2 DEF SentOK
<1>5. Dispatch!TypeOK'
  BY <1>2, <1>3, <1>4 DEF Dispatch!TypeOK
<1>6. \A p \in Occurrence \ {o} : Same(p) /\ SamePlaces(p)
  BY <1>2, <1>3 DEF Dispatch!TypeOK, Same, SamePlaces, Sent, Heard, Hooked
<1>7. At(o)' = m.how
  BY <1>2, <1>3, AtBecomes
<1>8. CourseOK(o)'
  <2>1. /\ command'[o] = "dispatched" /\ Status(o)' = "running" /\ starts'[o] = 0 /\ o \notin owned'
    BY <1>2, <1>3, <1>4 DEF Status
  <2> QED
    BY <1>4, <1>7, <2>1 DEF CourseOK, Course
<1>9. SingleOK(o)'
  BY <1>2, <1>3, <1>4 DEF SingleOK, Sent, Heard, Hooked
<1>10. \A n \in net' : n.occ \in Occurrence
  BY <1>3 DEF Single
<1> QED
  BY <1>2, <1>3, <1>5, <1>6, <1>8, <1>9, <1>10, OneCourse, OneSingle DEF Single

(* HearResult: what was sent is now in a transaction of the Host. *)
LEMMA HearResultCarries ==
  ASSUME Carried, NEW m, Dispatch!HearResult(m)
  PROVE  Carried'
<1> USE DEF Carried
<1> DEFINE o == m.occ
           t == [occ |-> m.occ, gen |-> m.gen, how |-> m.how, boot |-> boot, live |-> TRUE]
<1>1. m \in net /\ m.kind = "result"
  BY DEF Dispatch!HearResult
<1>2. /\ o \in Occurrence /\ SentOK(o, m) /\ CourseOK(o) /\ ~Hooked(o)
  BY <1>1, Carries
<1>3. /\ UNCHANGED <<row, command, dispatch, link, boot, owned, lost, program, starts, said, restarts, faults>>
      /\ net' = net \ {m} /\ taken' = taken \cup {t}
  BY DEF Dispatch!HearResult, Dispatch!tables, Dispatch!runner
<1>4. /\ Sent(o) = {m} /\ Heard(o) = {} /\ starts[o] = 1 /\ program[o] = 0 /\ At(o) = "sent"
      /\ m.how \in Dispatch!Outcome /\ said[o] = m.how
  BY <1>1, <1>2 DEF SentOK
<1>5. Dispatch!TypeOK'
  BY <1>3 DEF Dispatch!TypeOK
<1>6. \A p \in Occurrence \ {o} : Same(p) /\ SamePlaces(p)
  BY <1>2, <1>3 DEF Same, SamePlaces, Sent, Heard, Hooked
<1>7. CourseOK(o)'
  BY <1>2, <1>3 DEF CourseOK, Course, Unsent, At, Status
<1>8. SingleOK(o)'
  <2>1. Sent(o)' = {} /\ Heard(o)' = {t} /\ ~Hooked(o)'
    BY <1>2, <1>3, <1>4 DEF Sent, Heard, Hooked
  <2>2. HeardOK(o, t)'
    BY <1>3, <1>4, <2>1 DEF HeardOK, At
  <2> QED
    BY <1>3, <1>4, <2>1, <2>2 DEF SingleOK
<1>9. (\A n \in net' : n.occ \in Occurrence) /\ taken' \subseteq Result
  <2>1. t \in Result
    BY <1>2, <1>4 DEF Result, Dispatch!TypeOK, SentOK
  <2> QED
    BY <1>2, <1>3, <2>1 DEF Single
<1> QED
  BY <1>2, <1>5, <1>6, <1>7, <1>8, <1>9, OneCourse, OneSingle

-----------------------------------------------------------------------------
(* Connections that are lost, and what becomes of what they carried.       *)

(* A result whose connection is gone is a result. *)
LEMMA Unlive ==
  ASSUME NEW O, NEW H, NEW B, NEW L, NEW f \in L,
         NEW u \in [occ : O, gen : Nat, how : H, boot : B, live : L]
  PROVE  [u EXCEPT !.live = f] \in [occ : O, gen : Nat, how : H, boot : B, live : L]
  BY SMT

(* Down: every message is lost, and every dispatch that waits given up. *)
LEMMA DownKeeps ==
  ASSUME Carried, Dispatch!Down, UNCHANGED <<row, command, starts, said>>,
         NEW S \in SUBSET taken, taken' = {[u EXCEPT !.live = FALSE] : u \in S}
  PROVE  Courses' /\ Single'
<1> USE DEF Carried
<1>1. /\ net' = {} /\ owned' = {} /\ lost' = lost \cup {[boot |-> boot, occs |-> owned]}
      /\ \A p \in Occurrence : /\ program'[p] = 0
                               /\ At(p)' = IF At(p) = "sent" THEN "none" ELSE At(p)
  BY DEF Dispatch!Down, Dispatch!NoCall, At
<1>2. taken' \subseteq Result
  <2>1. ASSUME NEW u \in Result PROVE [u EXCEPT !.live = FALSE] \in Result
    BY Unlive DEF Result
  <2> QED
    BY <2>1 DEF Single
<1>3. ASSUME NEW p \in Occurrence PROVE CourseOK(p)' /\ SingleOK(p)'
  <2>1. CourseOK(p) /\ SingleOK(p)
    BY DEF Courses, Single
  <2>2. Sent(p)' = {} /\ program'[p] = 0 /\ p \notin owned'
    BY <1>1 DEF Sent
  <2>3. CourseOK(p)'
    BY <1>1, <2>1, <2>2 DEF CourseOK, Course, Unsent, Status
  <2>4. ASSUME NEW t \in Heard(p)' PROVE HeardOK(p, t)'
    <3>1. ASSUME NEW v \in Heard(p)'
          PROVE  \E u \in Heard(p) : v = [u EXCEPT !.live = FALSE] /\ v.live = FALSE /\ v.how = u.how
      <4>1. PICK u \in S : v = [u EXCEPT !.live = FALSE]
        BY DEF Heard
      <4>2. u \in Result /\ u \in taken
        BY DEF Single
      <4>3. v.occ = u.occ /\ v.live = FALSE /\ v.how = u.how
        BY <4>1, <4>2, SMT DEF Result
      <4> QED
        BY <4>1, <4>2, <4>3, <3>1 DEF Heard
    <3>2. PICK u \in Heard(p) : t = [u EXCEPT !.live = FALSE] /\ t.live = FALSE /\ t.how = u.how
      BY <3>1
    <3>3. HeardOK(p, u)
      BY <2>1 DEF SingleOK
    <3>4. Heard(p)' = {t}
      BY <3>1, <3>2, <3>3 DEF HeardOK
    <3>5. At(p) \in {"sent", "none"}
      BY <3>3 DEF HeardOK
    <3> QED
      BY <1>1, <2>2, <3>2, <3>3, <3>4, <3>5 DEF HeardOK
  <2>5. Hooked(p)' => At(p)' = "none" /\ command'[p] # "pending"
    <3>1. Hooked(p)' => Hooked(p) \/ p \in owned
      BY <1>1 DEF Hooked
    <3>2. p \in owned => At(p) = "sent" /\ command[p] # "pending"
      BY <2>1 DEF CourseOK, Course
    <3> QED
      BY <1>1, <2>1, <3>1, <3>2 DEF SingleOK
  <2> QED
    BY <2>2, <2>3, <2>4, <2>5 DEF SingleOK
<1> QED
  BY <1>1, <1>2, <1>3 DEF Courses, Single

(* What a lost connection leaves has its type. *)
LEMMA DownTyped ==
  ASSUME Dispatch!TypeOK, Dispatch!Down
  PROVE  /\ dispatch' \in [Occurrence -> Calls]
         /\ link' \in BOOLEAN /\ owned' \subseteq Occurrence
         /\ lost' \subseteq [boot : 1..MaxBoot, occs : SUBSET Occurrence]
         /\ program' \in [Occurrence -> Nat]
<1>1. Dispatch!NoCall \in Calls
  BY NoCallTyped
<1>2. dispatch' \in [Occurrence -> Calls]
  BY <1>1, Zenon DEF Dispatch!Down, Dispatch!TypeOK, Calls
<1>3. [boot |-> boot, occs |-> owned] \in [boot : 1..MaxBoot, occs : SUBSET Occurrence]
  BY DEF Dispatch!TypeOK
<1> QED
  BY <1>2, <1>3 DEF Dispatch!Down, Dispatch!TypeOK

(* What a result finds. *)
LEMMA Finds ==
  ASSUME Carried, NEW t \in taken
  PROVE  /\ t \in Result /\ t.occ \in Occurrence /\ HeardOK(t.occ, t)
         /\ CourseOK(t.occ) /\ SingleOK(t.occ) /\ Sent(t.occ) = {}
<1>1. t \in Result /\ t.occ \in Occurrence /\ t \in Heard(t.occ)
  BY DEF Carried, Single, Heard, Result
<1>2. SingleOK(t.occ) /\ CourseOK(t.occ)
  BY <1>1 DEF Carried, Single, Courses
<1> QED
  BY <1>1, <1>2 DEF SingleOK, SentOK

(* Complete: a result that is accepted ends its occurrence and the command;
   one that is not changes neither, and the connection may be given up. *)
LEMMA CompleteCarries ==
  ASSUME Carried, NEW t, Dispatch!Complete(t)
  PROVE  Carried'
<1> USE DEF Carried
<1> DEFINE o == t.occ
<1>1. t \in taken
  BY DEF Dispatch!Complete
<1>2. /\ t \in Result /\ o \in Occurrence /\ HeardOK(o, t) /\ CourseOK(o) /\ SingleOK(o)
      /\ Sent(o) = {} /\ t.how \in Dispatch!Outcome /\ t.live \in BOOLEAN
  BY <1>1, Finds DEF Result
<1>3. UNCHANGED <<boot, starts, said, restarts, faults>>
  BY DEF Dispatch!Complete
<1>4. CASE t.live /\ row[o].status = "running" /\ Dispatch!Stale(t)
  <2>1. /\ Dispatch!Down /\ taken' = {[u EXCEPT !.live = FALSE] : u \in taken \ {t}}
        /\ UNCHANGED <<row, command>>
    BY <1>4 DEF Dispatch!Complete, Dispatch!Accepts, Dispatch!tables
  <2>2. Courses' /\ Single'
    BY <1>3, <2>1, DownKeeps
  <2>3. Dispatch!TypeOK'
    BY <1>3, <2>1, DownTyped DEF Dispatch!TypeOK, Calls
  <2> QED
    BY <2>2, <2>3
<1>5. CASE ~(t.live /\ row[o].status = "running" /\ Dispatch!Stale(t))
  <2>1. /\ taken' = taken \ {t}
        /\ owned' = owned \ (IF t.live THEN {o} ELSE {})
        /\ dispatch' = [dispatch EXCEPT ![o] = IF t.live THEN Dispatch!NoCall ELSE @]
        /\ UNCHANGED <<link, lost, net, program>>
    BY <1>5 DEF Dispatch!Complete
  <2>2. \/ /\ Dispatch!Accepts(t)
           /\ row' = [row EXCEPT ![o].status = t.how]
           /\ command' = [command EXCEPT ![o] = IF @ = "dispatched" THEN "succeeded" ELSE @]
        \/ ~Dispatch!Accepts(t) /\ UNCHANGED <<row, command>>
    BY DEF Dispatch!Complete, Dispatch!tables
  <2>3. /\ Heard(o) = {t} /\ said[o] = t.how /\ program[o] = 0 /\ starts[o] = 1
        /\ At(o) = IF t.live THEN "sent" ELSE "none"
    BY <1>2 DEF HeardOK
  <2>4. At(o)' = "none" /\ \A p \in Occurrence \ {o} : dispatch'[p] = dispatch[p]
    BY <1>2, <2>1, <2>3 DEF At, Dispatch!NoCall, Dispatch!TypeOK
  <2>5. /\ CourseOK(o)'
        /\ \A p \in Occurrence \ {o} : row'[p] = row[p] /\ command'[p] = command[p]
        /\ command'[o] = "pending" => command[o] = "pending"
    <3>1. o \in owned' => At(o)' = "sent"
      BY <1>2, <2>1, <2>3 DEF CourseOK
    <3>2. CASE /\ Dispatch!Accepts(t)
               /\ row' = [row EXCEPT ![o].status = t.how]
               /\ command' = [command EXCEPT ![o] = IF @ = "dispatched" THEN "succeeded" ELSE @]
      <4>1. Status(o) = "running"
        BY <3>2 DEF Dispatch!Accepts, Status
      <4>2. command[o] = "dispatched"
        BY <1>2, <4>1 DEF CourseOK, Course, Dispatch!Outcome
      <4>3. /\ Status(o)' = t.how /\ command'[o] = "succeeded"
            /\ \A p \in Occurrence \ {o} : row'[p] = row[p] /\ command'[p] = command[p]
        BY <1>2, <3>2, <4>2 DEF Status, Dispatch!TypeOK
      <4> QED
        BY <1>2, <1>3, <2>3, <2>4, <3>1, <4>2, <4>3 DEF CourseOK, Course, Unsent, Dispatch!Outcome
    <3>3. CASE UNCHANGED <<row, command>>
      BY <1>2, <1>3, <2>3, <2>4, <3>1, <3>3 DEF CourseOK, Course, Unsent, Status
    <3> QED
      BY <2>2, <3>2, <3>3
  <2>6. SingleOK(o)'
    <3>1. Sent(o)' = {} /\ Heard(o)' = {} /\ program'[o] = 0
      BY <1>2, <2>1, <2>3 DEF Sent, Heard
    <3>2. Hooked(o)' => Hooked(o)
      BY <2>1 DEF Hooked
    <3> QED
      BY <1>2, <2>4, <2>5, <3>1, <3>2 DEF SingleOK
  <2>7. \A p \in Occurrence \ {o} : Same(p) /\ SamePlaces(p)
    BY <1>3, <2>1, <2>4, <2>5 DEF Same, SamePlaces, Sent, Heard, Hooked
  <2>8. Dispatch!TypeOK'
    <3>1. /\ row' \in [Occurrence -> Rows]
          /\ command' \in [Occurrence -> {"pending", "dispatched", "succeeded", "failed"}]
      <4>1. CASE UNCHANGED <<row, command>>
        BY <4>1 DEF Dispatch!TypeOK, Rows
      <4>2. CASE /\ row' = [row EXCEPT ![o].status = t.how]
                 /\ command' = [command EXCEPT ![o] = IF @ = "dispatched" THEN "succeeded" ELSE @]
        BY <1>2, <4>2, SMT DEF Dispatch!TypeOK, Rows, Dispatch!Final, Dispatch!Outcome
      <4> QED
        BY <2>2, <4>1, <4>2
    <3>2. Dispatch!NoCall \in Calls
      BY NoCallTyped
    <3>3. dispatch' \in [Occurrence -> Calls]
      BY <1>2, <2>1, <3>2, Zenon DEF Dispatch!TypeOK, Calls
    <3> QED
      BY <1>3, <2>1, <3>1, <3>3 DEF Dispatch!TypeOK, Rows, Calls
  <2>9. (\A m \in net' : m.occ \in Occurrence) /\ taken' \subseteq Result
    BY <2>1 DEF Single
  <2> QED
    BY <1>2, <2>5, <2>6, <2>7, <2>8, <2>9, OneCourse, OneSingle
<1> QED
  BY <1>4, <1>5

(* FailActive fails what is running of the set, and its commands. *)
LEMMA Fails ==
  ASSUME Dispatch!TypeOK, NEW F, Dispatch!FailActive(F), NEW o \in Occurrence
  PROVE  /\ o \in F => /\ Status(o)' = "failed"
                       /\ command'[o] = IF command[o] = "dispatched" THEN "failed" ELSE command[o]
         /\ o \notin F => row'[o] = row[o] /\ command'[o] = command[o]
         /\ command'[o] = "pending" => command[o] = "pending"
  BY DEF Dispatch!FailActive, Dispatch!TypeOK, Status

(* A row with another status is a row, *)
LEMMA RowEnds ==
  ASSUME NEW S, NEW B, NEW f \in S, NEW r \in [status : S, gen : Nat, boot : B]
  PROVE  [r EXCEPT !.status = f] \in [status : S, gen : Nat, boot : B]
  BY SMT

(* and FailActive leaves rows and commands what they are. *)
LEMMA FailsTyped ==
  ASSUME Dispatch!TypeOK, NEW F, Dispatch!FailActive(F)
  PROVE  /\ row' \in [Occurrence -> Rows]
         /\ command' \in [Occurrence -> {"pending", "dispatched", "succeeded", "failed"}]
<1>1. row \in [Occurrence -> Rows]
  BY DEF Dispatch!TypeOK, Rows
<1>2. ASSUME NEW r \in Rows PROVE [r EXCEPT !.status = "failed"] \in Rows
  <2>1. "failed" \in Dispatch!Final \cup {"pending", "running"}
    BY DEF Dispatch!Final, Dispatch!Outcome
  <2> QED
    BY <2>1, RowEnds DEF Rows
<1>3. row' \in [Occurrence -> Rows]
  BY <1>1, <1>2, Zenon DEF Dispatch!FailActive
<1>4. command' \in [Occurrence -> {"pending", "dispatched", "succeeded", "failed"}]
  BY DEF Dispatch!FailActive, Dispatch!TypeOK
<1> QED
  BY <1>3, <1>4

(* Recover: the hook of a connection finds what was sent there and is not done. *)
LEMMA RecoverCarries ==
  ASSUME Carried, NEW h, Dispatch!Recover(h)
  PROVE  Carried'
<1> USE DEF Carried
<1>1. /\ h \in lost /\ lost' = lost \ {h}
      /\ UNCHANGED <<dispatch, link, boot, owned, net, taken, program, starts, said, restarts, faults>>
  BY DEF Dispatch!Recover, Dispatch!runner
<1>2. PICK F : /\ F = {o \in Dispatch!Running \cap h.occs : row[o].boot = h.boot}
               /\ Dispatch!FailActive(F)
  BY DEF Dispatch!Recover
<1>3. /\ F \subseteq {o \in Occurrence : row[o].status = "running"}
      /\ \A o \in F : Hooked(o)
  BY <1>1, <1>2 DEF Dispatch!Running, Hooked
<1>4. Dispatch!TypeOK'
  BY <1>1, <1>2, FailsTyped DEF Dispatch!TypeOK, Rows, Calls
<1>5. Courses'
  <2>1. ASSUME NEW o \in Occurrence PROVE CourseOK(o)'
    <3>1. CourseOK(o) /\ SingleOK(o)
      BY DEF Courses, Single
    <3>2. CASE o \in F
      <4>1. At(o) = "none" /\ Status(o) = "running"
        BY <1>3, <3>1, <3>2 DEF SingleOK, Status
      <4> QED
        BY <1>1, <1>2, <3>1, <3>2, <4>1, Fails DEF CourseOK, Course, Unsent, At, Status,
           Dispatch!Outcome
    <3>3. CASE o \notin F
      BY <1>1, <1>2, <3>1, <3>3, Fails DEF CourseOK, Course, Unsent, At, Status
    <3> QED
      BY <3>2, <3>3
  <2> QED
    BY <2>1 DEF Courses
<1>6. Single'
  <2>1. ASSUME NEW o \in Occurrence PROVE SingleOK(o)'
    <3>1. SingleOK(o)
      BY DEF Single
    <3>2. Hooked(o)' => Hooked(o)
      BY <1>1 DEF Hooked
    <3>3. command'[o] = "pending" => command[o] = "pending"
      BY <1>2, Fails
    <3> QED
      BY <1>1, <3>1, <3>2, <3>3 DEF SingleOK, SentOK, HeardOK, Sent, Heard, At
  <2> QED
    BY <1>1, <2>1 DEF Single
<1> QED
  BY <1>4, <1>5, <1>6

-----------------------------------------------------------------------------
(* What goes wrong.                                                        *)

(* Disconnect: what the connection carried is lost, and left to its hook. *)
LEMMA DisconnectCarries ==
  ASSUME Carried, Dispatch!Disconnect
  PROVE  Carried'
<1> USE DEF Carried
<1>1. /\ Dispatch!Down /\ taken' = {[t EXCEPT !.live = FALSE] : t \in taken}
      /\ UNCHANGED <<row, command, boot, starts, said, restarts>>
      /\ faults < MaxFault /\ faults' = faults + 1
  BY DEF Dispatch!Disconnect, Dispatch!tables
<1>2. Courses' /\ Single'
  BY <1>1, DownKeeps
<1>3. faults' \in 0..MaxFault
  BY <1>1, SMT, Bounds DEF Dispatch!TypeOK, Dispatch!DispatchBounds
<1>4. Dispatch!TypeOK'
  BY <1>1, <1>3, DownTyped DEF Dispatch!TypeOK, Calls
<1> QED
  BY <1>2, <1>4

(* Attach and RunnerRestart change nothing an occurrence depends on. *)
LEMMA AttachCarries ==
  ASSUME Carried, Dispatch!Attach \/ Dispatch!RunnerRestart
  PROVE  Carried'
<1> USE DEF Carried
<1>1. UNCHANGED <<row, command, dispatch, owned, lost, net, taken, program, starts, said, restarts, faults>>
  BY DEF Dispatch!Attach, Dispatch!RunnerRestart, Dispatch!tables, Dispatch!runner
<1>2. link' \in BOOLEAN /\ boot' \in 1..MaxBoot
  <2>1. CASE Dispatch!Attach
    BY <2>1 DEF Dispatch!Attach, Dispatch!TypeOK
  <2>2. CASE Dispatch!RunnerRestart
    BY <2>2, SMT, Bounds DEF Dispatch!RunnerRestart, Dispatch!TypeOK, Dispatch!DispatchBounds
  <2> QED
    BY <2>1, <2>2
<1>3. Dispatch!TypeOK'
  BY <1>1, <1>2 DEF Dispatch!TypeOK
<1>4. Courses' /\ Single'
  BY <1>1 DEF Courses, CourseOK, Course, Unsent, At, Status, Single, SingleOK, SentOK, HeardOK,
     Sent, Heard, Hooked
<1> QED
  BY <1>3, <1>4

(* HostRestart: nothing is left but the tables and what the Runner said. *)
LEMMA HostRestartCarries ==
  ASSUME Carried, Dispatch!HostRestart
  PROVE  Carried'
<1> USE DEF Carried
<1>1. /\ restarts < MaxRestart /\ restarts' = restarts + 1
      /\ dispatch' = [o \in Occurrence |-> Dispatch!NoCall]
      /\ link' = FALSE /\ owned' = {} /\ lost' = {} /\ net' = {} /\ taken' = {}
      /\ program' = [o \in Occurrence |-> 0]
      /\ UNCHANGED <<boot, starts, said, faults>>
  BY DEF Dispatch!HostRestart
<1>2. PICK F : F = Dispatch!Running /\ Dispatch!FailActive(F)
  BY DEF Dispatch!HostRestart
<1>3. F = {o \in Occurrence : row[o].status = "running"}
  BY <1>2 DEF Dispatch!Running
<1>4. Dispatch!TypeOK'
  <2>1. Dispatch!NoCall \in Calls
    BY NoCallTyped
  <2>2. dispatch' \in [Occurrence -> Calls]
    BY <1>1, <2>1, Zenon
  <2>3. restarts' \in 0..MaxRestart
    BY <1>1, SMT, Bounds DEF Dispatch!TypeOK, Dispatch!DispatchBounds
  <2> QED
    BY <1>1, <1>2, <1>3, <2>2, <2>3, FailsTyped DEF Dispatch!TypeOK, Rows, Calls
<1>5. ASSUME NEW o \in Occurrence PROVE CourseOK(o)' /\ SingleOK(o)'
  <2>1. CourseOK(o) /\ At(o)' = "none" /\ program'[o] = 0
    BY <1>1 DEF Courses, At, Dispatch!NoCall
  <2>2. Sent(o)' = {} /\ Heard(o)' = {} /\ ~Hooked(o)' /\ o \notin owned'
    BY <1>1 DEF Sent, Heard, Hooked
  <2>3. CourseOK(o)'
    <3>1. CASE o \in F
      BY <1>1, <1>2, <1>3, <2>1, <2>2, <3>1, Fails DEF CourseOK, Course, Unsent, Status,
         Dispatch!Outcome
    <3>2. CASE o \notin F
      BY <1>1, <1>2, <1>3, <2>1, <2>2, <3>2, Fails DEF CourseOK, Course, Unsent, Status
    <3> QED
      BY <3>1, <3>2
  <2> QED
    BY <2>1, <2>2, <2>3 DEF SingleOK
<1> QED
  BY <1>1, <1>4, <1>5 DEF Courses, Single

-----------------------------------------------------------------------------
(* The theorems.                                                           *)

(* Every step of the dispatch preserves the invariant. *)
LEMMA StepCarries ==
  ASSUME Carried, Dispatch!Next
  PROVE  Carried'
<1>1. ASSUME NEW o \in Occurrence, Dispatch!Host(o) \/ Dispatch!Cancel(o) \/ Dispatch!Throws(o) \/ Dispatch!Ends(o)
      PROVE  Carried'
  BY <1>1, CancelCarries, ClaimCarries, NameCarries, StartExecutionCarries, SendCarries,
     ThrowsCarries,
     RetryCommandCarries, FailCommandCarries, EndsCarries DEF Dispatch!Host
<1>2. CASE Dispatch!Hears
  BY <1>2, AdmitCarries, HearRejectedCarries, HearResultCarries, CompleteCarries, RecoverCarries
     DEF Dispatch!Hears
<1> QED
  BY <1>1, <1>2, DisconnectCarries, AttachCarries, HostRestartCarries DEF Dispatch!Next

(* The invariant is of the variables of the dispatch alone. *)
LEMMA StutterCarries ==
  ASSUME Carried, UNCHANGED dispatchVars
  PROVE  Carried'
<1>1. UNCHANGED <<row, command, dispatch, link, boot, owned, lost, net, taken, program, starts, said,
                  restarts, faults>>
  BY DEF dispatchVars
<1> QED
  BY <1>1 DEF Carried, Dispatch!TypeOK, Courses, CourseOK, Course, Unsent, At, Status, Single,
     SingleOK,
     SentOK, HeardOK, Sent, Heard, Hooked

(* What the invariant says of programs. *)
LEMMA CarriedOnce ==
  ASSUME Carried
  PROVE  ProgramsOnce
<1>1. ASSUME NEW o \in Occurrence
      PROVE  /\ starts[o] <= (IF row[o].status = "canceled" THEN 0 ELSE 1)
             /\ row[o].status = "succeeded" => said[o] = "succeeded" /\ command[o] = "succeeded"
             /\ command[o] = "succeeded" => row[o].status = said[o]
             /\ row[o].status = "canceled" => command[o] = "failed"
             /\ row[o].status = "running" => command[o] = "dispatched"
             /\ command[o] = "pending" => row[o].status = "pending"
  <2>1. CourseOK(o)
    BY DEF Carried, Courses
  <2>2. starts[o] <= (IF row[o].status = "canceled" THEN 0 ELSE 1)
    BY <2>1, SMT DEF CourseOK, Unsent, Status
  <2> QED
    BY <2>1, <2>2 DEF CourseOK, Course, Status, Dispatch!Outcome
<1> QED
  BY <1>1 DEF ProgramsOnce, Dispatch!ProgramsOnce, Dispatch!StartedOnce, Dispatch!RecordedTruly,
     Carried

(* Every behaviour keeps the invariant: the row, the command and the
   dispatch of an occurrence agree, and what was sent of it is in one place. *)
THEOREM CarriedHolds == TriggersSpec => []Carried
<1>1. TriggersInit => Carried
  BY InitCarries DEF TriggersInit
<1>2. Carried /\ [TriggersNext]_triggerVars => Carried'
  <2>1. ASSUME Carried, TriggersNext PROVE Carried'
    BY <2>1, StepCarries, StutterCarries DEF TriggersNext
  <2>2. ASSUME Carried, UNCHANGED triggerVars PROVE Carried'
    BY <2>2, StutterCarries DEF triggerVars
  <2> QED
    BY <2>1, <2>2
<1> QED
  BY <1>1, <1>2, PTL DEF TriggersSpec

(* A program is started once at most, and never for an occurrence that was
   canceled; an occurrence is called succeeded only if its program said so. *)
THEOREM ProgramsOnceAlways == TriggersSpec => []ProgramsOnce
<1>1. Carried => ProgramsOnce
  BY CarriedOnce
<1> QED
  BY <1>1, CarriedHolds, PTL

(* The status of a row that waits again. *)
LEMMA Waits ==
  ASSUME NEW S, NEW B, NEW f \in S, NEW b \in B, NEW r \in [status : S, gen : Nat, boot : B]
  PROVE  [r EXCEPT !.status = f, !.boot = b].status = f
<1>1. [r EXCEPT !.status = f] \in [status : S, gen : Nat, boot : B]
  BY RowEnds
<1>2. [r EXCEPT !.status = f].status = f
  BY SMT
<1>3. PICK q \in [status : S, gen : Nat, boot : B] : q = [r EXCEPT !.status = f] /\ q.status = f
  BY <1>1, <1>2, Zenon
<1>4. [q EXCEPT !.boot = b].status = f
  BY <1>3, SMT
<1> QED
  BY <1>3, <1>4, Zenon

(* A row goes only where the clocks expect: each action that writes rows. *)
LEMMA RowStep ==
  ASSUME Carried, Dispatch!Next, NEW o \in Occurrence, row'[o] # row[o]
  PROVE  <<row[o].status, row'[o].status>> \in Dispatch!TableStep
<1> DEFINE Goes(a, b) == row[o].status = a /\ row'[o].status = b
<1>1. \/ Goes("pending", "running") \/ Goes("running", "pending") \/ Goes("pending", "canceled")
      \/ Goes("running", "succeeded") \/ Goes("pending", "failed") \/ Goes("running", "failed")
  <2> USE DEF Carried, Dispatch!TypeOK
  <2>1. ASSUME NEW p \in Occurrence, Dispatch!Cancel(p) PROVE Goes("pending", "canceled")
    BY <2>1 DEF Dispatch!Cancel
  <2>2. ASSUME NEW p \in Occurrence, Dispatch!StartExecution(p) PROVE Goes("pending", "running")
    BY <2>2 DEF Dispatch!StartExecution, Dispatch!Binding
  <2>3. ASSUME NEW p \in Occurrence, Dispatch!RetryCommand(p) PROVE Goes("running", "pending")
    <3>1. /\ row' = [row EXCEPT ![p] = [@ EXCEPT !.status = "pending", !.boot = 0]]
          /\ row[p].status = "running"
      BY <2>3 DEF Dispatch!RetryCommand, Dispatch!tables
    <3>2. p = o
      BY <3>1
    <3>3. [row[o] EXCEPT !.status = "pending", !.boot = 0].status = "pending"
      BY Waits DEF Dispatch!TypeOK
    <3> QED
      BY <3>1, <3>2, <3>3, Zenon
  <2>4. ASSUME NEW p \in Occurrence, Dispatch!FailCommand(p)
        PROVE  Goes("pending", "failed") \/ Goes("running", "failed")
    BY <2>4 DEF Dispatch!FailCommand
  <2>5. ASSUME NEW t \in taken, Dispatch!Complete(t)
        PROVE  Goes("running", "succeeded") \/ Goes("running", "failed")
    <3>1. t.occ \in Occurrence /\ t.how \in Dispatch!Outcome
      BY Finds DEF Result
    <3>2. /\ row' = [row EXCEPT ![t.occ].status = t.how]
          /\ row[t.occ].status = "running"
      BY <2>5 DEF Dispatch!Complete, Dispatch!Accepts, Dispatch!tables
    <3> QED
      BY <3>1, <3>2 DEF Dispatch!Outcome
  <2>6. ASSUME NEW F \in SUBSET Dispatch!Running, Dispatch!FailActive(F) PROVE Goes("running", "failed")
    BY <2>6, Fails DEF Dispatch!Running, Status
  <2>7. CASE Dispatch!Hears
    <3>1. ASSUME NEW m, Dispatch!Admit(m) \/ Dispatch!HearRejected(m) \/ Dispatch!HearResult(m)
          PROVE  FALSE
      BY <3>1 DEF Dispatch!Admit, Dispatch!HearRejected, Dispatch!HearResult, Dispatch!tables
    <3>2. ASSUME NEW h, Dispatch!Recover(h)
          PROVE  \E F \in SUBSET Dispatch!Running : Dispatch!FailActive(F)
      BY <3>2 DEF Dispatch!Recover
    <3> QED
      BY <2>5, <2>6, <2>7, <3>1, <3>2 DEF Dispatch!Hears
  <2>8. CASE Dispatch!HostRestart
    BY <2>6, <2>8 DEF Dispatch!HostRestart
  <2>9. ASSUME NEW p \in Occurrence,
               \/ Dispatch!Claim(p) \/ Dispatch!Name(p) \/ Dispatch!Send(p)
               \/ Dispatch!Throws(p) \/ Dispatch!Ends(p)
        PROVE  FALSE
    BY <2>9 DEF Dispatch!Claim, Dispatch!Name, Dispatch!Send, Dispatch!Throws, Dispatch!Ends,
       Dispatch!tables
  <2>10. ~(Dispatch!Disconnect \/ Dispatch!Attach \/ Dispatch!RunnerRestart)
    BY DEF Dispatch!Disconnect, Dispatch!Attach, Dispatch!RunnerRestart, Dispatch!tables
  <2> HIDE DEF Goes, Carried, Dispatch!TypeOK
  <2> QED
    BY <2>1, <2>2, <2>3, <2>4, <2>7, <2>8, <2>9, <2>10 DEF Dispatch!Next, Dispatch!Host
<1> QED
  BY <1>1 DEF Dispatch!TableStep

(* To the tables an occurrence takes the steps the clocks give it and no
   other: how it ended is never changed. *)
THEOREM TakesTableStepsAlways == TriggersSpec => TakesTableSteps
<1>1. Carried /\ [TriggersNext]_triggerVars =>
        [\A o \in Occurrence : row'[o] # row[o] =>
           <<row[o].status, row'[o].status>> \in Dispatch!TableStep]_(Dispatch!vars)
  BY RowStep DEF TriggersNext, triggerVars, dispatchVars, Dispatch!vars
<1> QED
  BY <1>1, CarriedHolds, PTL DEF TriggersSpec, TakesTableSteps, Dispatch!TakesTableSteps

-----------------------------------------------------------------------------
(* The clocks.  A row that is queued, and the row of a Trigger. *)

QueuedRows == [trigger : Trigger, rev : Nat, at : Nat,
               status : {"pending", "running", "succeeded", "failed", "canceled"}, new : BOOLEAN]

TriggerRows == [status : {"active", "paused", "archived"}, next : 0..(MaxTime + 1), rev : Nat,
                failures : Nat, reason : {"none", "failures", "authority"}]

ClockTyped ==
  /\ now \in 0..MaxTime
  /\ trigger \in [Trigger -> TriggerRows]
  /\ source \in [Trigger -> Seq(Schedules)]
  /\ \A t \in Trigger : trigger[t].rev = Len(source[t]) /\ trigger[t].rev >= 1
  /\ occ \in Seq(QueuedRows)
  /\ told \subseteq DOMAIN occ

(* A clock that runs, and why one that does not run on has stopped: its
   Trigger is not active, or its one instant has passed. *)
ClockRight(r, s, time) ==
  /\ r.next # 0 => r.status = "active" /\ (s # 0 => r.next = s)
  /\ r.status = "active" => /\ r.failures < Threshold /\ r.reason = "none"
                            /\ r.next = 0 => s \in 1..time

(* The next instant of a Trigger is later than all that were queued. *)
Ahead(t, next) == \A i \in DOMAIN occ : occ[i].trigger = t /\ next # 0 => occ[i].at < next

Clocks ==
  \A t \in Trigger : ClockRight(trigger[t], Source(t), now) /\ Ahead(t, trigger[t].next)

Fresh(t) == {i \in Pending(t) : occ[i].new}

(* The rows: no instant twice or too soon, and no backlog of them. *)
RowsRight ==
  /\ \A i \in DOMAIN occ : /\ occ[i].at <= now
                           /\ occ[i].status = "running" => ~occ[i].new
  /\ \A i, j \in DOMAIN occ :
       occ[i].at # 0 /\ occ[j].trigger = occ[i].trigger /\ occ[j].at = occ[i].at => i = j
  /\ \A t \in Trigger :
       /\ Cardinality(Fresh(t)) <= MaxPending
       /\ \A i, j \in Fresh(t) : occ[i].at # 0 /\ occ[j].at # 0 => i = j

ClocksHeld == ClockTyped /\ Clocks /\ RowsRight

(* What a set of rows is when it is written down in some order. *)
LEMMA SetInOrder ==
  ASSUME NEW S, IsFiniteSet(S)
  PROVE  /\ SetToSeq(S) \in Seq(S)
         /\ \A i, j \in 1..Len(SetToSeq(S)) : SetToSeq(S)[i] = SetToSeq(S)[j] => i = j
<1> DEFINE n == Cardinality(S)
<1>1. n \in Nat /\ ExistsBijection(1..n, S)
  BY FS_CardinalityType
<1>2. \E f \in [1..n -> S] : IsInjective(f)
  BY <1>1 DEF ExistsBijection, Bijection, Injection
<1>3. SetToSeq(S) \in [1..n -> S] /\ IsInjective(SetToSeq(S))
  BY <1>2 DEF SetToSeq
<1>4. SetToSeq(S) \in Seq(S) /\ Len(SetToSeq(S)) = n
  BY <1>1, <1>3
<1> QED
  BY <1>3, <1>4 DEF IsInjective

LEMMA OccDomain ==
  ASSUME ClockTyped
  PROVE  /\ DOMAIN occ = 1..Len(occ) /\ Len(occ) \in Nat
         /\ \A i \in DOMAIN occ : occ[i] \in QueuedRows
BY LenProperties, ElementOfSeq DEF ClockTyped

LEMMA PendingFinite ==
  ASSUME ClockTyped, NEW t
  PROVE  /\ IsFiniteSet(Pending(t)) /\ Cardinality(Pending(t)) \in Nat
         /\ Fresh(t) \subseteq Pending(t)
         /\ IsFiniteSet(Fresh(t)) /\ Cardinality(Fresh(t)) \in Nat
         /\ Cardinality(Fresh(t)) <= Cardinality(Pending(t))
<1>1. IsFiniteSet(DOMAIN occ)
  BY OccDomain, FS_Interval
<1>2. Pending(t) \subseteq DOMAIN occ /\ Fresh(t) \subseteq Pending(t)
  BY DEF Pending, Fresh
<1>3. IsFiniteSet(Pending(t))
  BY <1>1, <1>2, FS_Subset
<1>4. IsFiniteSet(Fresh(t)) /\ Cardinality(Fresh(t)) <= Cardinality(Pending(t))
  BY <1>2, <1>3, FS_Subset
<1> QED
  BY <1>2, <1>3, <1>4, FS_CardinalityType

(* Rows that only move on: a run that started is not fresh any more. *)
LEMMA RowsMoveOn ==
  ASSUME ClockTyped, RowsRight, now' \in Int, now' >= now, DOMAIN occ' = DOMAIN occ,
         \A i \in DOMAIN occ :
           /\ occ'[i].trigger = occ[i].trigger /\ occ'[i].at = occ[i].at
           /\ occ'[i].new => occ[i].new
           /\ occ'[i].status = "running" => ~occ'[i].new
           /\ occ'[i].new /\ occ'[i].status = "pending" => occ[i].status = "pending"
  PROVE  RowsRight'
<1>1. \A i \in DOMAIN occ : occ[i].at \in Nat /\ occ[i].at <= now /\ now \in Nat
  BY OccDomain DEF ClockTyped, QueuedRows, RowsRight
<1>2. \A i \in DOMAIN occ' : occ'[i].at <= now' /\ (occ'[i].status = "running" => ~occ'[i].new)
  BY <1>1
<1>3. \A i, j \in DOMAIN occ' :
        occ'[i].at # 0 /\ occ'[j].trigger = occ'[i].trigger /\ occ'[j].at = occ'[i].at => i = j
  BY DEF RowsRight
<1>4. ASSUME NEW t \in Trigger
      PROVE  /\ Cardinality(Fresh(t)') <= MaxPending
             /\ \A i, j \in Fresh(t)' : occ'[i].at # 0 /\ occ'[j].at # 0 => i = j
  <2>1. Fresh(t)' \subseteq Fresh(t) /\ Fresh(t) \subseteq DOMAIN occ
    BY DEF Fresh, Pending
  <2>2. Cardinality(Fresh(t)') <= Cardinality(Fresh(t)) /\ Cardinality(Fresh(t)') \in Nat
    BY <2>1, PendingFinite, FS_Subset, FS_CardinalityType
  <2>3. Cardinality(Fresh(t)) <= MaxPending /\ Cardinality(Fresh(t)) \in Nat
    BY PendingFinite DEF RowsRight
  <2>4. Cardinality(Fresh(t)') <= MaxPending
    BY <2>2, <2>3, ScheduleBounds
  <2> QED
    BY <2>1, <2>4 DEF RowsRight
<1> QED
  BY <1>2, <1>3, <1>4 DEF RowsRight

(* Rows that are queued: one of a Trigger at a time, where there is room,
   and at the instant of its clock or by hand. *)
LEMMA RowsQueued ==
  ASSUME ClockTyped, Clocks, RowsRight, now' = now, occ' \in Seq(QueuedRows),
         Len(occ') >= Len(occ), \A i \in DOMAIN occ : occ'[i] = occ[i],
         \A i, j \in DOMAIN occ' \ DOMAIN occ : occ'[i].trigger = occ'[j].trigger => i = j,
         \A i \in DOMAIN occ' \ DOMAIN occ :
           /\ occ'[i].at <= now /\ occ'[i].status = "pending"
           /\ ~Full(occ'[i].trigger)
           /\ occ'[i].at # 0 => /\ occ'[i].at = trigger[occ'[i].trigger].next
                                /\ ~Collapses(occ'[i].trigger)
  PROVE  RowsRight'
<1>1. /\ DOMAIN occ = 1..Len(occ) /\ DOMAIN occ' = 1..Len(occ')
      /\ Len(occ) \in Nat /\ Len(occ') \in Nat
      /\ DOMAIN occ \subseteq DOMAIN occ'
      /\ \A i \in DOMAIN occ : occ[i] \in QueuedRows
      /\ \A i \in DOMAIN occ' : occ'[i] \in QueuedRows
  BY OccDomain, LenProperties, ElementOfSeq
<1> DEFINE added == DOMAIN occ' \ DOMAIN occ
<1>2. \A i \in DOMAIN occ' : occ'[i].at <= now' /\ (occ'[i].status = "running" => ~occ'[i].new)
  <2>1. \A i \in added : occ'[i].at <= now' /\ occ'[i].status # "running"
    OBVIOUS
  <2> QED
    BY <2>1 DEF RowsRight
<1>3. ASSUME NEW i \in DOMAIN occ', NEW j \in DOMAIN occ',
             occ'[i].at # 0, occ'[j].trigger = occ'[i].trigger, occ'[j].at = occ'[i].at
      PROVE  i = j
  <2>1. CASE i \in DOMAIN occ /\ j \in DOMAIN occ
    BY <1>3, <2>1 DEF RowsRight
  <2>2. CASE i \in added /\ j \in added
    BY <1>3, <2>2
  <2>3. ASSUME NEW k \in added, NEW l \in DOMAIN occ, occ'[k].at # 0,
               occ'[l].trigger = occ'[k].trigger, occ'[l].at = occ'[k].at
        PROVE  FALSE
    <3>1. /\ occ'[k].trigger \in Trigger /\ occ'[k].at = trigger[occ'[k].trigger].next
          /\ occ'[l] = occ[l] /\ occ[l].at \in Nat
      BY <1>1, <2>3 DEF QueuedRows
    <3>2. occ[l].at < trigger[occ'[k].trigger].next
      BY <2>3, <3>1 DEF Clocks, Ahead
    <3> QED
      BY <2>3, <3>1, <3>2
  <2> QED
    BY <1>3, <2>1, <2>2, <2>3
<1>4. ASSUME NEW t \in Trigger
      PROVE  /\ Cardinality(Fresh(t)') <= MaxPending
             /\ \A i, j \in Fresh(t)' : occ'[i].at # 0 /\ occ'[j].at # 0 => i = j
  <2>1. /\ Cardinality(Fresh(t)) <= MaxPending
        /\ \A i, j \in Fresh(t) : occ[i].at # 0 /\ occ[j].at # 0 => i = j
    BY DEF RowsRight
  <2>2. Fresh(t)' \subseteq DOMAIN occ' /\ Fresh(t) \subseteq DOMAIN occ
    BY DEF Fresh, Pending
  <2>3. \A i \in DOMAIN occ : i \in Fresh(t)' <=> i \in Fresh(t)
    BY <1>1 DEF Fresh, Pending
  <2>4. CASE Fresh(t)' \cap added = {}
    <3>1. Fresh(t)' = Fresh(t)
      BY <1>1, <2>2, <2>3, <2>4
    <3> QED
      BY <2>1, <2>2, <3>1
  <2>5. CASE Fresh(t)' \cap added # {}
    <3>1. PICK k \in added : k \in Fresh(t)'
      BY <2>5
    <3>2. occ'[k].trigger = t
      BY <3>1 DEF Fresh, Pending
    <3>3. \A i \in Fresh(t)' : i \in added => i = k
      BY <3>1, <3>2 DEF Fresh, Pending
    <3>4. Fresh(t)' = Fresh(t) \cup {k} /\ k \notin Fresh(t)
      BY <1>1, <2>2, <2>3, <3>1, <3>3
    <3>5. Cardinality(Pending(t)) < MaxPending
      BY <3>2, PendingFinite, ScheduleBounds DEF Full
    <3>6. /\ IsFiniteSet(Fresh(t)) /\ Cardinality(Fresh(t)) \in Nat
          /\ Cardinality(Fresh(t)) <= Cardinality(Pending(t)) /\ Cardinality(Pending(t)) \in Nat
      BY PendingFinite
    <3>7. Cardinality(Fresh(t) \cup {k}) = Cardinality(Fresh(t)) + 1
      BY <3>4, <3>6, FS_AddElement
    <3>8. Cardinality(Fresh(t)') <= MaxPending
      BY <3>4, <3>5, <3>6, <3>7, ScheduleBounds
    <3>9. occ'[k].at # 0 => \A i \in Fresh(t) : occ'[i].at = 0
      <4> SUFFICES ASSUME occ'[k].at # 0, NEW i \in Fresh(t) PROVE occ'[i].at = 0
        OBVIOUS
      <4>1. ~Collapses(t)
        BY <3>2
      <4>2. i \in Pending(t) /\ i \in DOMAIN occ
        BY DEF Fresh, Pending
      <4> QED
        BY <4>1, <4>2 DEF Collapses, Scheduled
    <3> QED
      BY <2>1, <2>2, <3>4, <3>8, <3>9
  <2> QED
    BY <2>4, <2>5
<1> QED
  BY <1>2, <1>3, <1>4 DEF RowsRight

-----------------------------------------------------------------------------
(* The clocks that a step leaves as they are. *)
LEMMA ClockStays ==
  ASSUME ClockTyped, Clocks, now' \in Int, now' >= now, NEW t \in Trigger,
         trigger'[t] = trigger[t], source'[t] = source[t]
  PROVE  ClockRight(trigger'[t], Source(t)', now')
<1>1. Source(t)' = Source(t) /\ ClockRight(trigger[t], Source(t), now) /\ now \in Int
  BY DEF Source, Clocks, ClockTyped
<1>2. Source(t) \in 1..now => Source(t) \in 1..now'
  BY <1>1
<1> QED
  BY <1>1, <1>2 DEF ClockRight

(* A step that is about one Trigger, whose clock stops, is set for later or
   is left. *)
LEMMA OneClock ==
  ASSUME ClocksHeld, NEW t \in Trigger, UNCHANGED <<now, occ, told>>,
         trigger' \in [Trigger -> TriggerRows], source' \in [Trigger -> Seq(Schedules)],
         \A u \in Trigger \ {t} : trigger'[u] = trigger[u] /\ source'[u] = source[u],
         trigger'[t].rev = Len(source'[t]), trigger'[t].rev >= 1,
         ClockRight(trigger'[t], Source(t)', now),
         trigger'[t].next = trigger[t].next \/ trigger'[t].next = 0 \/ trigger'[t].next > now
  PROVE  ClocksHeld'
<1>1. ClockTyped'
  BY DEF ClocksHeld, ClockTyped
<1>2. RowsRight'
  <2>1. \A i \in DOMAIN occ : occ[i].status = "running" => ~occ[i].new
    BY DEF ClocksHeld, RowsRight
  <2>2. now' \in Int /\ now' >= now
    BY DEF ClocksHeld, ClockTyped
  <2> QED
    BY <2>1, <2>2, RowsMoveOn DEF ClocksHeld
<1>3. ASSUME NEW u \in Trigger
      PROVE  ClockRight(trigger'[u], Source(u)', now')
  <2>1. now' \in Int /\ now' >= now
    BY DEF ClocksHeld, ClockTyped
  <2> QED
    BY <2>1, ClockStays DEF ClocksHeld
<1>4. ASSUME NEW u \in Trigger
      PROVE  Ahead(u, trigger[u].next)'
  <2>1. Ahead(u, trigger[u].next)
    BY DEF ClocksHeld, Clocks
  <2>2. CASE trigger'[u].next = trigger[u].next
    BY <2>1, <2>2 DEF Ahead
  <2>3. CASE trigger'[u].next = 0
    BY <2>3 DEF Ahead
  <2>4. CASE trigger'[u].next > now
    <3>1. \A i \in DOMAIN occ : occ[i].at \in Nat /\ occ[i].at <= now
      BY OccDomain DEF ClocksHeld, RowsRight, QueuedRows
    <3>2. now \in Nat /\ trigger'[u].next \in Nat
      BY ScheduleBounds DEF ClocksHeld, ClockTyped, TriggerRows
    <3> QED
      BY <2>4, <3>1, <3>2 DEF Ahead
  <2> QED
    BY <2>2, <2>3, <2>4
<1> QED
  BY <1>1, <1>2, <1>3, <1>4 DEF ClocksHeld, Clocks

(* The instants a clock may be set to. *)
LEMMA FiresLater ==
  ASSUME ClocksHeld, NEW s \in Schedules
  PROVE  /\ now \in Nat /\ now + 1 \in 0..(MaxTime + 1) /\ s \in 0..(MaxTime + 1) /\ s \in Nat
         /\ ResumedFire(s) \in 0..(MaxTime + 1)
         /\ ResumedFire(s) = 0 \/ ResumedFire(s) > now
         /\ ResumedFire(s) # 0 /\ s # 0 => ResumedFire(s) = s
         /\ ResumedFire(s) = 0 => s \in 1..now
BY ScheduleBounds DEF ClocksHeld, ClockTyped, Schedules, Instants, ResumedFire

LEMMA SourceTyped ==
  ASSUME ClocksHeld, NEW t \in Trigger
  PROVE  Source(t) \in Schedules /\ Source(t) \in Nat
<1>1. /\ source[t] \in Seq(Schedules) /\ trigger[t].rev = Len(source[t]) /\ trigger[t].rev >= 1
  BY DEF ClocksHeld, ClockTyped
<1>2. Len(source[t]) \in Nat
  BY <1>1, LenProperties
<1>3. Source(t) \in Schedules
  BY <1>1, <1>2, ElementOfSeq DEF Source
<1> QED
  BY <1>3, ScheduleBounds DEF Schedules, Instants

LEMMA TickHolds == ClocksHeld /\ Tick => ClocksHeld'
<1> SUFFICES ASSUME ClocksHeld, Tick PROVE ClocksHeld'
  OBVIOUS
<1>1. /\ now \in Nat /\ now' = now + 1 /\ now' \in 0..MaxTime
      /\ UNCHANGED <<trigger, source, occ, told>>
  BY ScheduleBounds DEF ClocksHeld, ClockTyped, Tick
<1>2. ClockTyped'
  BY <1>1 DEF ClocksHeld, ClockTyped
<1>3. RowsRight'
  <2>1. \A i \in DOMAIN occ : occ[i].status = "running" => ~occ[i].new
    BY DEF ClocksHeld, RowsRight
  <2> QED
    BY <1>1, <2>1, RowsMoveOn DEF ClocksHeld
<1>4. \A t \in Trigger : ClockRight(trigger'[t], Source(t)', now')
  BY <1>1, ClockStays DEF ClocksHeld
<1>5. \A t \in Trigger : Ahead(t, trigger[t].next)'
  BY <1>1 DEF ClocksHeld, Clocks, Ahead
<1> QED
  BY <1>2, <1>3, <1>4, <1>5 DEF ClocksHeld, Clocks

LEMMA UpdateSourceHolds ==
  ASSUME ClocksHeld, NEW t \in Trigger, NEW s \in Schedules, UpdateSource(t, s)
  PROVE  ClocksHeld'
<1> DEFINE next == IF trigger[t].status = "active" THEN ResumedFire(s) ELSE 0
<1>1. /\ source' = [source EXCEPT ![t] = Append(@, s)]
      /\ trigger' = [trigger EXCEPT ![t].rev = @ + 1, ![t].failures = 0, ![t].next = next]
      /\ UNCHANGED <<now, occ, told>>
  BY DEF UpdateSource
<1>2. /\ trigger \in [Trigger -> TriggerRows] /\ source \in [Trigger -> Seq(Schedules)]
      /\ trigger[t].rev = Len(source[t]) /\ trigger[t].rev >= 1 /\ trigger[t].rev \in Nat
      /\ ClockRight(trigger[t], Source(t), now)
  BY DEF ClocksHeld, ClockTyped, Clocks, TriggerRows
<1>3. next \in 0..(MaxTime + 1) /\ (next = 0 \/ next > now)
  BY FiresLater, ScheduleBounds
<1>4. (next # 0 => trigger[t].status = "active" /\ (s # 0 => next = s))
      /\ (trigger[t].status = "active" /\ next = 0 => s \in 1..now)
  BY FiresLater
<1> HIDE DEF next
<1>5. /\ Append(source[t], s) \in Seq(Schedules)
      /\ Len(Append(source[t], s)) = Len(source[t]) + 1
      /\ Append(source[t], s)[Len(source[t]) + 1] = s
  BY <1>2, AppendProperties
<1>6. trigger'[t] = [trigger[t] EXCEPT !.rev = trigger[t].rev + 1, !.failures = 0, !.next = next]
  BY <1>1, <1>2
<1>7. /\ trigger'[t] \in TriggerRows
      /\ trigger'[t].rev = trigger[t].rev + 1 /\ trigger'[t].failures = 0
      /\ trigger'[t].next = next /\ trigger'[t].status = trigger[t].status
      /\ trigger'[t].reason = trigger[t].reason
  <2> DEFINE r == trigger[t]
             rev == trigger[t].rev + 1
  <2>1. r \in TriggerRows /\ rev \in Nat /\ 0 \in Nat
    BY <1>2
  <2> DEFINE q == [r EXCEPT !.rev = rev, !.failures = 0, !.next = next]
  <2>2. trigger'[t] = q
    BY <1>6
  <2> HIDE DEF r, rev
  <2>3. q \in TriggerRows
    BY <1>3, <2>1 DEF TriggerRows
  <2>4. /\ q.rev = rev /\ q.failures = 0 /\ q.next = next
        /\ q.status = r.status /\ q.reason = r.reason
    BY <1>3, <2>1 DEF TriggerRows
  <2> HIDE DEF q
  <2> QED
    BY <2>2, <2>3, <2>4 DEF r, rev
<1>8. /\ trigger' \in [Trigger -> TriggerRows] /\ source' \in [Trigger -> Seq(Schedules)]
      /\ \A u \in Trigger \ {t} : trigger'[u] = trigger[u] /\ source'[u] = source[u]
      /\ source'[t] = Append(source[t], s)
  BY <1>1, <1>2, <1>5, <1>7
<1>9. Source(t)' = s
  BY <1>2, <1>5, <1>7, <1>8 DEF Source
<1>10. ClockRight(trigger'[t], Source(t)', now)
  BY <1>2, <1>4, <1>7, <1>9, ScheduleBounds DEF ClockRight
<1> QED
  BY <1>1, <1>2, <1>3, <1>5, <1>7, <1>8, <1>10, OneClock

LEMMA UpdateOtherHolds ==
  ASSUME ClocksHeld, NEW t \in Trigger, UpdateOther(t)
  PROVE  ClocksHeld'
<1>0. PICK prog \in BOOLEAN :
        trigger' = [trigger EXCEPT ![t].rev = @ + 1, ![t].failures = IF prog THEN 0 ELSE @]
  BY DEF UpdateOther
<1> DEFINE failures == IF prog THEN 0 ELSE trigger[t].failures
<1>1. source' = [source EXCEPT ![t] = Append(@, Source(t))] /\ UNCHANGED <<now, occ, told>>
  BY DEF UpdateOther
<1>2. /\ trigger \in [Trigger -> TriggerRows] /\ source \in [Trigger -> Seq(Schedules)]
      /\ trigger[t].rev = Len(source[t]) /\ trigger[t].rev >= 1 /\ trigger[t].rev \in Nat
      /\ ClockRight(trigger[t], Source(t), now)
  BY DEF ClocksHeld, ClockTyped, Clocks, TriggerRows
<1>5. /\ Append(source[t], Source(t)) \in Seq(Schedules)
      /\ Len(Append(source[t], Source(t))) = Len(source[t]) + 1
      /\ Append(source[t], Source(t))[Len(source[t]) + 1] = Source(t)
  BY <1>2, SourceTyped, AppendProperties
<1>6. trigger'[t] = [trigger[t] EXCEPT !.rev = trigger[t].rev + 1, !.failures = failures]
  BY <1>0, <1>2
<1>3. failures \in Nat /\ (failures = 0 \/ failures = trigger[t].failures)
  BY <1>2 DEF TriggerRows
<1> HIDE DEF failures
<1>7. /\ trigger'[t] \in TriggerRows
      /\ trigger'[t].rev = trigger[t].rev + 1 /\ trigger'[t].failures = failures
      /\ trigger'[t].next = trigger[t].next /\ trigger'[t].status = trigger[t].status
      /\ trigger'[t].reason = trigger[t].reason
  <2> DEFINE r == trigger[t]
             rev == trigger[t].rev + 1
  <2>1. r \in TriggerRows /\ rev \in Nat /\ 0 \in Nat
    BY <1>2
  <2> DEFINE q == [r EXCEPT !.rev = rev, !.failures = failures]
  <2>2. trigger'[t] = q
    BY <1>6
  <2> HIDE DEF r, rev
  <2>3. q \in TriggerRows
    BY <1>3, <2>1 DEF TriggerRows
  <2>4. /\ q.rev = rev /\ q.failures = failures /\ q.next = r.next
        /\ q.status = r.status /\ q.reason = r.reason
    BY <1>3, <2>1 DEF TriggerRows
  <2> HIDE DEF q
  <2> QED
    BY <2>2, <2>3, <2>4 DEF r, rev
<1>8. /\ trigger' \in [Trigger -> TriggerRows] /\ source' \in [Trigger -> Seq(Schedules)]
      /\ \A u \in Trigger \ {t} : trigger'[u] = trigger[u] /\ source'[u] = source[u]
      /\ source'[t] = Append(source[t], Source(t))
  BY <1>0, <1>1, <1>2, <1>5, <1>7
<1>9. Source(t)' = Source(t)
  BY <1>2, <1>5, <1>7, <1>8 DEF Source
<1>10. ClockRight(trigger'[t], Source(t)', now)
  BY <1>2, <1>3, <1>7, <1>9, ScheduleBounds DEF ClockRight
<1> QED
  BY <1>1, <1>2, <1>5, <1>7, <1>8, <1>10, OneClock

(* A step that writes the row of one Trigger and no source. *)
LEMMA OneRow ==
  ASSUME ClocksHeld, NEW t \in Trigger, UNCHANGED <<now, source, occ, told>>,
         NEW r \in TriggerRows, trigger' = [trigger EXCEPT ![t] = r],
         r.rev = trigger[t].rev, ClockRight(r, Source(t), now),
         r.next = trigger[t].next \/ r.next = 0 \/ r.next > now
  PROVE  ClocksHeld'
<1>1. /\ trigger \in [Trigger -> TriggerRows] /\ source \in [Trigger -> Seq(Schedules)]
      /\ trigger[t].rev = Len(source[t]) /\ trigger[t].rev >= 1
  BY DEF ClocksHeld, ClockTyped
<1>2. /\ trigger' \in [Trigger -> TriggerRows] /\ trigger'[t] = r
      /\ \A u \in Trigger \ {t} : trigger'[u] = trigger[u]
  BY <1>1
<1>3. Source(t)' = Source(t)
  BY <1>2 DEF Source
<1> QED
  BY <1>1, <1>2, <1>3, OneClock

LEMMA PauseHolds ==
  ASSUME ClocksHeld, NEW t \in Trigger, Pause(t)
  PROVE  ClocksHeld'
<1> DEFINE old == trigger[t]
           r == [old EXCEPT !.status = "paused", !.next = 0, !.reason = "none"]
<1>1. trigger' = [trigger EXCEPT ![t] = r] /\ UNCHANGED <<now, source, occ, told>>
  BY DEF Pause
<1>2. old \in TriggerRows /\ 0 \in 0..(MaxTime + 1)
  BY ScheduleBounds DEF ClocksHeld, ClockTyped
<1> HIDE DEF old
<1>3. r \in TriggerRows /\ r.rev = old.rev /\ r.next = 0 /\ r.status = "paused"
  BY <1>2 DEF TriggerRows
<1> HIDE DEF r
<1>4. ClockRight(r, Source(t), now)
  BY <1>3 DEF ClockRight
<1> QED
  BY <1>1, <1>3, <1>4, OneRow DEF old

LEMMA ArchiveHolds ==
  ASSUME ClocksHeld, NEW t \in Trigger, Archive(t)
  PROVE  ClocksHeld'
<1> DEFINE old == trigger[t]
           r == [old EXCEPT !.status = "archived", !.next = 0, !.reason = "none"]
<1>1. trigger' = [trigger EXCEPT ![t] = r] /\ UNCHANGED <<now, source, occ, told>>
  BY DEF Archive
<1>2. old \in TriggerRows /\ 0 \in 0..(MaxTime + 1)
  BY ScheduleBounds DEF ClocksHeld, ClockTyped
<1> HIDE DEF old
<1>3. r \in TriggerRows /\ r.rev = old.rev /\ r.next = 0 /\ r.status = "archived"
  BY <1>2 DEF TriggerRows
<1> HIDE DEF r
<1>4. ClockRight(r, Source(t), now)
  BY <1>3 DEF ClockRight
<1> QED
  BY <1>1, <1>3, <1>4, OneRow DEF old

LEMMA ResumeHolds ==
  ASSUME ClocksHeld, NEW t \in Trigger, Resume(t)
  PROVE  ClocksHeld'
<1> DEFINE old == trigger[t]
           fire == ResumedFire(Source(t))
           r == [old EXCEPT !.status = "active", !.failures = 0, !.reason = "none", !.next = fire]
<1>1. trigger' = [trigger EXCEPT ![t] = r] /\ UNCHANGED <<now, source, occ, told>>
  BY DEF Resume
<1>2. old \in TriggerRows
  BY DEF ClocksHeld, ClockTyped
<1>3. /\ fire \in 0..(MaxTime + 1) /\ (fire = 0 \/ fire > now)
      /\ fire # 0 /\ Source(t) # 0 => fire = Source(t)
      /\ fire = 0 => Source(t) \in 1..now
  BY SourceTyped, FiresLater
<1> HIDE DEF old, fire
<1>4. /\ r \in TriggerRows /\ r.rev = old.rev /\ r.next = fire
      /\ r.status = "active" /\ r.failures = 0 /\ r.reason = "none"
  BY <1>2, <1>3 DEF TriggerRows
<1> HIDE DEF r
<1>5. ClockRight(r, Source(t), now)
  BY <1>3, <1>4, ScheduleBounds DEF ClockRight
<1> QED
  BY <1>1, <1>3, <1>4, <1>5, OneRow DEF old

LEMMA SetNextFireHolds ==
  ASSUME ClocksHeld, NEW t \in Trigger, SetNextFire(t)
  PROVE  ClocksHeld'
<1>0. PICK i \in Instants : i > now /\ trigger' = [trigger EXCEPT ![t].next = i]
  BY DEF SetNextFire
<1> DEFINE old == trigger[t]
           r == [old EXCEPT !.next = i]
<1>1. /\ trigger' = [trigger EXCEPT ![t] = r] /\ UNCHANGED <<now, source, occ, told>>
      /\ old.status = "active" /\ Source(t) = 0
  BY <1>0 DEF SetNextFire
<1>2. old \in TriggerRows /\ ClockRight(old, Source(t), now)
  BY DEF ClocksHeld, ClockTyped, Clocks
<1>3. i \in 0..(MaxTime + 1) /\ i # 0
  BY ScheduleBounds DEF Instants
<1> HIDE DEF old
<1>4. /\ r \in TriggerRows /\ r.rev = old.rev /\ r.next = i
      /\ r.status = old.status /\ r.failures = old.failures /\ r.reason = old.reason
  BY <1>2, <1>3 DEF TriggerRows
<1> HIDE DEF r
<1>5. ClockRight(r, Source(t), now)
  BY <1>1, <1>2, <1>3, <1>4 DEF ClockRight
<1> QED
  BY <1>0, <1>1, <1>4, <1>5, OneRow DEF old

-----------------------------------------------------------------------------
(* The steps that queue. *)

(* No pending row of a Trigger can be told from its Row. *)
LEMMA RowTyped ==
  ASSUME ClocksHeld, NEW t \in Trigger, NEW at \in Nat
  PROVE  /\ Row(t, at) \in QueuedRows
         /\ Row(t, at).trigger = t /\ Row(t, at).at = at /\ Row(t, at).status = "pending"
<1>1. trigger[t].rev \in Nat
  BY DEF ClocksHeld, ClockTyped, TriggerRows
<1> QED
  BY <1>1 DEF Row, QueuedRows

LEMMA ManualHolds ==
  ASSUME ClocksHeld, NEW t \in Trigger, Manual(t)
  PROVE  ClocksHeld'
<1>1. /\ occ' = Append(occ, Row(t, 0)) /\ UNCHANGED <<now, trigger, source, told>> /\ ~Full(t)
  BY DEF Manual
<1>2. /\ Row(t, 0) \in QueuedRows
      /\ Row(t, 0).trigger = t /\ Row(t, 0).at = 0 /\ Row(t, 0).status = "pending"
  BY RowTyped
<1>3. occ \in Seq(QueuedRows) /\ Len(occ) \in Nat /\ DOMAIN occ = 1..Len(occ)
  BY OccDomain DEF ClocksHeld, ClockTyped
<1>4. /\ occ' \in Seq(QueuedRows) /\ Len(occ') = Len(occ) + 1
      /\ \A i \in 1..Len(occ) : occ'[i] = occ[i]
      /\ occ'[Len(occ) + 1] = Row(t, 0)
  BY <1>1, <1>2, <1>3, AppendProperties
<1>5. DOMAIN occ' = 1..(Len(occ) + 1)
  BY <1>4, LenProperties
<1>6. DOMAIN occ \subseteq DOMAIN occ' /\ DOMAIN occ' \ DOMAIN occ = {Len(occ) + 1}
  BY <1>3, <1>5
<1>7. now \in Nat
  BY ScheduleBounds DEF ClocksHeld, ClockTyped
<1>8. RowsRight'
  BY <1>1, <1>2, <1>3, <1>4, <1>6, <1>7, RowsQueued DEF ClocksHeld
<1>9. ClockTyped'
  BY <1>1, <1>4, <1>6 DEF ClocksHeld, ClockTyped
<1>10. ASSUME NEW u \in Trigger
       PROVE  ClockRight(trigger'[u], Source(u)', now') /\ Ahead(u, trigger[u].next)'
  <2>1. ClockRight(trigger[u], Source(u), now) /\ Ahead(u, trigger[u].next)
    BY DEF ClocksHeld, Clocks
  <2>2. Source(u)' = Source(u)
    BY <1>1 DEF Source
  <2>3. trigger[u].next \in Nat
    BY ScheduleBounds DEF ClocksHeld, ClockTyped, TriggerRows
  <2>4. ASSUME NEW i \in DOMAIN occ', occ'[i].trigger = u, trigger[u].next # 0
        PROVE  occ'[i].at < trigger[u].next
    <3>1. CASE i \in DOMAIN occ
      BY <1>3, <1>4, <2>1, <2>4, <3>1 DEF Ahead
    <3>2. CASE i = Len(occ) + 1
      BY <1>2, <1>4, <2>3, <2>4, <3>2
    <3> QED
      BY <1>6, <3>1, <3>2
  <2> QED
    BY <1>1, <2>1, <2>2, <2>4 DEF Ahead
<1> QED
  BY <1>8, <1>9, <1>10 DEF ClocksHeld, Clocks

(* What a claim leaves of a clock that was due. *)
LEMMA ClaimedClock ==
  ASSUME ClocksHeld, NEW t \in Trigger, trigger[t].next \in 1..now,
         NEW r, \/ r = [trigger[t] EXCEPT !.status = "paused", !.next = 0, !.reason = "authority"]
                \/ r = [trigger[t] EXCEPT !.next = FireAfter(Source(t))]
  PROVE  /\ r \in TriggerRows /\ r.rev = trigger[t].rev /\ ClockRight(r, Source(t), now)
         /\ r.next = 0 \/ r.next > now
<1> DEFINE old == trigger[t]
           fire == FireAfter(Source(t))
<1>1. old \in TriggerRows /\ ClockRight(old, Source(t), now) /\ old.next \in 1..now /\ now \in Nat
  BY ScheduleBounds DEF ClocksHeld, ClockTyped, Clocks
<1>2. /\ fire \in 0..(MaxTime + 1) /\ 0 \in 0..(MaxTime + 1) /\ (fire = 0 \/ fire > now)
      /\ fire = 0 => Source(t) # 0
      /\ fire # 0 => Source(t) = 0
  BY ScheduleBounds DEF FireAfter, ClocksHeld, ClockTyped
<1>3. Source(t) \in Nat
  BY SourceTyped
<1>4. old.status = "active" /\ (Source(t) # 0 => Source(t) \in 1..now)
  BY <1>1, <1>3 DEF ClockRight
<1> HIDE DEF fire
<1>5. CASE r = [old EXCEPT !.status = "paused", !.next = 0, !.reason = "authority"]
  <2> HIDE DEF old
  <2>1. r \in TriggerRows /\ r.rev = old.rev /\ r.next = 0 /\ r.status = "paused"
    BY <1>1, <1>2, <1>5 DEF TriggerRows
  <2> QED
    BY <2>1 DEF ClockRight, old
<1>6. CASE r = [old EXCEPT !.next = fire]
  <2> HIDE DEF old
  <2>1. /\ r \in TriggerRows /\ r.rev = old.rev /\ r.next = fire
        /\ r.status = old.status /\ r.failures = old.failures /\ r.reason = old.reason
    BY <1>1, <1>2, <1>6 DEF TriggerRows
  <2>2. ClockRight(r, Source(t), now)
    BY <1>1, <1>2, <1>4, <2>1 DEF ClockRight
  <2> QED
    BY <1>2, <2>1, <2>2 DEF old
<1> QED
  BY <1>5, <1>6 DEF fire

LEMMA ClaimHolds ==
  ASSUME ClocksHeld, NEW barred \in SUBSET Due, Claim(barred)
  PROVE  ClocksHeld'
<1> DEFINE fires == Due \ barred
           queued == {t \in fires : ~Collapses(t)}
           rows == {Row(t, trigger[t].next) : t \in queued}
           added == SetToSeq(rows)
<1>1. /\ \A t \in queued : ~Full(t)
      /\ occ' = occ \o added
      /\ trigger' = [t \in Trigger |->
           IF t \in barred
           THEN [trigger[t] EXCEPT !.status = "paused", !.next = 0, !.reason = "authority"]
           ELSE IF t \in fires THEN [trigger[t] EXCEPT !.next = FireAfter(Source(t))]
           ELSE trigger[t]]
      /\ UNCHANGED <<now, source, told>>
  BY DEF Claim
<1>2. /\ Due \subseteq Trigger /\ queued \subseteq Due /\ now \in Nat
      /\ \A t \in Due : trigger[t].next \in 1..now
      /\ \A t \in queued : ~Collapses(t)
      /\ \A t \in Trigger \ Due : t \notin barred /\ t \notin fires
      /\ \A t \in Due : t \in barred \/ t \in fires
  BY ScheduleBounds DEF Due, ClocksHeld, ClockTyped
<1>3. \A t \in queued : /\ Row(t, trigger[t].next) \in QueuedRows
                        /\ Row(t, trigger[t].next).trigger = t
                        /\ Row(t, trigger[t].next).at = trigger[t].next
                        /\ Row(t, trigger[t].next).status = "pending"
  BY <1>2, RowTyped
<1> HIDE DEF queued
<1>4. /\ rows \subseteq QueuedRows
      /\ \A r \in rows : /\ r.trigger \in queued /\ r.at = trigger[r.trigger].next
                         /\ r.status = "pending" /\ r = Row(r.trigger, r.at)
  BY <1>3
<1>5. IsFiniteSet(rows)
  <2> DEFINE f == [t \in queued |-> Row(t, trigger[t].next)]
  <2>1. f \in Surjection(queued, rows)
    BY DEF Surjection
  <2>2. IsFiniteSet(queued)
    BY <1>2, ScheduleBounds, FS_Subset
  <2> QED
    BY <2>1, <2>2, FS_Surjection
<1> HIDE DEF rows
<1>6. /\ added \in Seq(rows)
      /\ \A i, j \in 1..Len(added) : added[i] = added[j] => i = j
  BY <1>5, SetInOrder
<1> HIDE DEF added
<1>7. added \in Seq(QueuedRows) /\ Len(added) \in Nat /\ \A i \in 1..Len(added) : added[i] \in rows
  BY <1>4, <1>6, SeqMonotonic, LenProperties, ElementOfSeq
<1>8. occ \in Seq(QueuedRows) /\ Len(occ) \in Nat /\ DOMAIN occ = 1..Len(occ)
  BY OccDomain DEF ClocksHeld, ClockTyped
<1>9. /\ occ' \in Seq(QueuedRows) /\ Len(occ') = Len(occ) + Len(added)
      /\ \A i \in 1..(Len(occ) + Len(added)) :
           occ'[i] = IF i <= Len(occ) THEN occ[i] ELSE added[i - Len(occ)]
  BY <1>1, <1>7, <1>8, ConcatProperties
<1>10. DOMAIN occ' = 1..(Len(occ) + Len(added))
  BY <1>9, LenProperties
<1>11. DOMAIN occ \subseteq DOMAIN occ' /\ \A i \in DOMAIN occ : occ'[i] = occ[i]
  BY <1>7, <1>8, <1>9, <1>10
<1>12. \A i \in DOMAIN occ' \ DOMAIN occ :
         i - Len(occ) \in 1..Len(added) /\ occ'[i] = added[i - Len(occ)] /\ occ'[i] \in rows
  BY <1>7, <1>8, <1>9, <1>10
<1>13. ASSUME NEW i \in DOMAIN occ' \ DOMAIN occ, NEW j \in DOMAIN occ' \ DOMAIN occ,
              occ'[i].trigger = occ'[j].trigger
       PROVE  i = j
  <2>1. occ'[i] = occ'[j]
    BY <1>4, <1>12, <1>13
  <2>2. i - Len(occ) = j - Len(occ)
    BY <1>6, <1>12, <2>1
  <2> QED
    BY <1>8, <1>10, <2>2
<1>14. ASSUME NEW i \in DOMAIN occ' \ DOMAIN occ
       PROVE  /\ occ'[i].trigger \in queued
              /\ occ'[i].at = trigger[occ'[i].trigger].next /\ occ'[i].at <= now
              /\ occ'[i].status = "pending"
              /\ ~Full(occ'[i].trigger) /\ ~Collapses(occ'[i].trigger)
  <2> DEFINE r == occ'[i]
  <2>1. r \in rows
    BY <1>12
  <2> HIDE DEF r
  <2>2. r.trigger \in queued /\ r.at = trigger[r.trigger].next /\ r.status = "pending"
    BY <1>4, <2>1
  <2> DEFINE t == r.trigger
  <2>3. t \in queued /\ r.at = trigger[t].next
    BY <2>2
  <2> HIDE DEF t
  <2>4. t \in Due /\ ~Full(t) /\ ~Collapses(t)
    BY <1>1, <1>2, <2>3
  <2>5. r.at \in 1..now
    BY <1>2, <2>3, <2>4
  <2>6. r.at <= now
    BY <1>2, <2>5
  <2> QED
    BY <2>2, <2>4, <2>6 DEF r, t
<1>15. RowsRight'
  <2>1. now' = now
    BY <1>1
  <2>2. Len(occ') >= Len(occ)
    <3> HIDE DEF fires
    <3> QED
      BY <1>7, <1>8, <1>9
  <2>3. ClockTyped /\ Clocks /\ RowsRight
    BY DEF ClocksHeld
  <2>4. \A i, j \in DOMAIN occ' \ DOMAIN occ : occ'[i].trigger = occ'[j].trigger => i = j
    BY <1>13
  <2>5. \A i \in DOMAIN occ' \ DOMAIN occ :
          /\ occ'[i].at <= now /\ occ'[i].status = "pending"
          /\ ~Full(occ'[i].trigger)
          /\ occ'[i].at # 0 => /\ occ'[i].at = trigger[occ'[i].trigger].next
                               /\ ~Collapses(occ'[i].trigger)
    BY <1>14
  <2> QED
    BY <1>9, <1>11, <2>1, <2>2, <2>3, <2>4, <2>5, RowsQueued
<1>16. ASSUME NEW t \in Trigger
       PROVE  /\ trigger'[t] \in TriggerRows /\ trigger'[t].rev = trigger[t].rev
              /\ ClockRight(trigger'[t], Source(t), now)
              /\ t \in Due => trigger'[t].next = 0 \/ trigger'[t].next > now
              /\ t \notin Due => trigger'[t] = trigger[t]
  <2>1. CASE t \notin Due
    BY <1>1, <1>2, <2>1 DEF ClocksHeld, ClockTyped, Clocks
  <2>2. CASE t \in Due
    <3>1. \/ trigger'[t] = [trigger[t] EXCEPT !.status = "paused", !.next = 0,
                                              !.reason = "authority"]
          \/ trigger'[t] = [trigger[t] EXCEPT !.next = FireAfter(Source(t))]
      BY <1>1, <1>2, <2>2
    <3> QED
      BY <1>2, <2>2, <3>1, ClaimedClock
  <2> QED
    BY <2>1, <2>2
<1>17. ClockTyped'
  <2>1. trigger' \in [Trigger -> TriggerRows]
    BY <1>1, <1>16
  <2>2. told' \subseteq DOMAIN occ'
    BY <1>1, <1>11 DEF ClocksHeld, ClockTyped
  <2> QED
    BY <1>1, <1>9, <1>16, <2>1, <2>2 DEF ClocksHeld, ClockTyped
<1>18. ASSUME NEW t \in Trigger
       PROVE  ClockRight(trigger'[t], Source(t)', now') /\ Ahead(t, trigger[t].next)'
  <2>1. Source(t)' = Source(t) /\ now' = now
    BY <1>1, <1>16 DEF Source
  <2>2. \A i \in DOMAIN occ' : occ'[i].at \in Nat /\ occ'[i].at <= now
    <3>1. \A i \in DOMAIN occ' : occ'[i] \in QueuedRows
      BY <1>9, <1>10, ElementOfSeq
    <3> QED
      BY <1>15, <2>1, <3>1 DEF RowsRight, QueuedRows
  <2>3. trigger'[t].next \in Nat
    BY <1>16, ScheduleBounds DEF TriggerRows
  <2>4. CASE t \in Due
    BY <1>2, <1>16, <2>1, <2>2, <2>3, <2>4 DEF Ahead
  <2>5. CASE t \notin Due
    <3>1. Ahead(t, trigger[t].next) /\ trigger'[t] = trigger[t]
      BY <1>16, <2>5 DEF ClocksHeld, Clocks
    <3>2. \A i \in DOMAIN occ' : occ'[i].trigger = t => i \in DOMAIN occ /\ occ'[i] = occ[i]
      BY <1>2, <1>11, <1>14, <2>5
    <3> QED
      BY <1>16, <2>1, <3>1, <3>2 DEF Ahead
  <2> QED
    BY <2>4, <2>5
<1> QED
  BY <1>15, <1>17, <1>18 DEF ClocksHeld, Clocks

-----------------------------------------------------------------------------
(* The steps of one row. *)

(* A row that takes one step: what is typed of the rows, and what is right of
   them, stays so. *)
LEMMA OneOccurrence ==
  ASSUME ClocksHeld, NEW i \in DOMAIN occ, NEW r \in QueuedRows,
         occ' = [occ EXCEPT ![i] = r], now' = now,
         r.trigger = occ[i].trigger, r.at = occ[i].at,
         r.new => occ[i].new,
         r.status = "running" => ~r.new,
         r.new /\ r.status = "pending" => occ[i].status = "pending"
  PROVE  /\ occ' \in Seq(QueuedRows) /\ DOMAIN occ' = DOMAIN occ
         /\ RowsRight'
         /\ \A t, next : Ahead(t, next) => Ahead(t, next)'
<1>1. occ \in Seq(QueuedRows) /\ DOMAIN occ = 1..Len(occ) /\ now \in Int
  BY OccDomain, ScheduleBounds DEF ClocksHeld, ClockTyped
<1>2. /\ occ' \in Seq(QueuedRows) /\ Len(occ') = Len(occ) /\ occ'[i] = r
      /\ \A j \in 1..Len(occ) : j # i => occ'[j] = occ[j]
  BY <1>1, ExceptSeq
<1>3. DOMAIN occ' = DOMAIN occ
  BY <1>1, <1>2, LenProperties
<1>4. ASSUME NEW j \in DOMAIN occ
      PROVE  /\ occ'[j].trigger = occ[j].trigger /\ occ'[j].at = occ[j].at
             /\ occ'[j].new => occ[j].new
             /\ occ'[j].status = "running" => ~occ'[j].new
             /\ occ'[j].new /\ occ'[j].status = "pending" => occ[j].status = "pending"
  <2>1. CASE j = i
    BY <1>2, <2>1
  <2>2. CASE j # i
    BY <1>1, <1>2, <2>2 DEF ClocksHeld, RowsRight
  <2> QED
    BY <2>1, <2>2
<1>5. RowsRight'
  BY <1>1, <1>3, <1>4, RowsMoveOn DEF ClocksHeld
<1> QED
  BY <1>2, <1>3, <1>4, <1>5 DEF Ahead

(* A step of a row that leaves the clocks as they are. *)
LEMMA RowOnly ==
  ASSUME ClocksHeld, NEW i \in DOMAIN occ, NEW r \in QueuedRows,
         occ' = [occ EXCEPT ![i] = r], UNCHANGED <<now, trigger, source>>,
         told' \subseteq told \cup {i},
         r.trigger = occ[i].trigger, r.at = occ[i].at,
         r.new => occ[i].new,
         r.status = "running" => ~r.new,
         r.new /\ r.status = "pending" => occ[i].status = "pending"
  PROVE  ClocksHeld'
<1>1. /\ occ' \in Seq(QueuedRows) /\ DOMAIN occ' = DOMAIN occ
      /\ RowsRight'
      /\ \A t, next : Ahead(t, next) => Ahead(t, next)'
  BY OneOccurrence
<1>2. ClockTyped'
  BY <1>1 DEF ClocksHeld, ClockTyped
<1>3. ASSUME NEW t \in Trigger
      PROVE  ClockRight(trigger'[t], Source(t)', now') /\ Ahead(t, trigger[t].next)'
  <2>1. ClockRight(trigger[t], Source(t), now) /\ Ahead(t, trigger[t].next)
    BY DEF ClocksHeld, Clocks
  <2>2. Source(t)' = Source(t)
    BY DEF Source
  <2>3. Ahead(t, trigger[t].next)'
    BY <1>1, <2>1 DEF Ahead
  <2> QED
    BY <2>1, <2>2, <2>3
<1> QED
  BY <1>1, <1>2, <1>3 DEF ClocksHeld, Clocks

(* A step of a row by which a Trigger's clock stops or stays. *)
LEMMA RowAndClock ==
  ASSUME ClocksHeld, NEW i \in DOMAIN occ, NEW r \in QueuedRows, NEW c \in TriggerRows,
         occ' = [occ EXCEPT ![i] = r], UNCHANGED <<now, source>>,
         told' \subseteq told \cup {i},
         r.trigger = occ[i].trigger, r.at = occ[i].at,
         r.new => occ[i].new,
         r.status = "running" => ~r.new,
         r.new /\ r.status = "pending" => occ[i].status = "pending",
         NEW t \in Trigger, trigger' = [trigger EXCEPT ![t] = c],
         c.rev = trigger[t].rev, ClockRight(c, Source(t), now),
         c.next = trigger[t].next \/ c.next = 0
  PROVE  ClocksHeld'
<1>1. /\ occ' \in Seq(QueuedRows) /\ DOMAIN occ' = DOMAIN occ
      /\ RowsRight'
      /\ \A u, next : Ahead(u, next) => Ahead(u, next)'
  BY OneOccurrence
<1>2. /\ trigger \in [Trigger -> TriggerRows]
      /\ \A u \in Trigger : trigger[u].rev = Len(source[u]) /\ trigger[u].rev >= 1
  BY DEF ClocksHeld, ClockTyped
<1>3. /\ trigger' \in [Trigger -> TriggerRows] /\ trigger'[t] = c
      /\ \A u \in Trigger \ {t} : trigger'[u] = trigger[u]
  BY <1>2
<1>4. ClockTyped'
  BY <1>1, <1>2, <1>3 DEF ClocksHeld, ClockTyped
<1>5. ASSUME NEW u \in Trigger
      PROVE  ClockRight(trigger'[u], Source(u)', now') /\ Ahead(u, trigger[u].next)'
  <2>1. ClockRight(trigger[u], Source(u), now) /\ Ahead(u, trigger[u].next)
    BY DEF ClocksHeld, Clocks
  <2>2. trigger'[u].rev = trigger[u].rev
    BY <1>3
  <2>3. Source(u)' = Source(u)
    BY <2>2 DEF Source
  <2>4. ClockRight(trigger'[u], Source(u)', now')
    BY <1>3, <2>1, <2>3
  <2>5. trigger'[u].next = trigger[u].next \/ trigger'[u].next = 0
    BY <1>3
  <2>6. Ahead(u, trigger[u].next)'
    BY <1>1, <2>1, <2>5 DEF Ahead
  <2> QED
    BY <2>4, <2>6
<1> QED
  BY <1>1, <1>4, <1>5 DEF ClocksHeld, Clocks

(* The statuses a row goes to, with and without the mark of a first start. *)
LEMMA RowStatus ==
  ASSUME ClocksHeld, NEW i \in DOMAIN occ,
         NEW s \in {"pending", "running", "succeeded", "failed", "canceled"},
         NEW r, r = [occ[i] EXCEPT !.status = s]
  PROVE  /\ r \in QueuedRows /\ r.trigger = occ[i].trigger /\ r.at = occ[i].at
         /\ r.new = occ[i].new /\ r.status = s
         /\ occ[i].status = "running" => ~occ[i].new
<1> DEFINE old == occ[i]
<1>1. old \in QueuedRows
  BY OccDomain DEF ClocksHeld
<1>2. old.status = "running" => ~old.new
  BY DEF ClocksHeld, RowsRight
<1> HIDE DEF old
<1>3. r = [old EXCEPT !.status = s]
  BY DEF old
<1>4. /\ r \in QueuedRows /\ r.trigger = old.trigger /\ r.at = old.at
      /\ r.new = old.new /\ r.status = s
  BY <1>1, <1>3 DEF QueuedRows
<1> QED
  BY <1>2, <1>4 DEF old

(* An occurrence is of a Trigger. *)
LEMMA OfTrigger ==
  ASSUME ClocksHeld, NEW i \in DOMAIN occ
  PROVE  occ[i].trigger \in Trigger /\ trigger[occ[i].trigger] \in TriggerRows
<1>1. occ[i] \in QueuedRows
  BY OccDomain DEF ClocksHeld
<1>2. occ[i].trigger \in Trigger
  BY <1>1 DEF QueuedRows
<1> QED
  BY <1>2 DEF ClocksHeld, ClockTyped

LEMMA StartHolds ==
  ASSUME ClocksHeld, NEW i \in DOMAIN occ, Start(i)
  PROVE  ClocksHeld'
<1> DEFINE old == occ[i]
           r == [old EXCEPT !.status = "running", !.new = FALSE]
<1>1. occ' = [occ EXCEPT ![i] = r] /\ UNCHANGED <<now, trigger, source, told>>
  BY DEF Start
<1>2. old \in QueuedRows
  BY OccDomain DEF ClocksHeld
<1> HIDE DEF old
<1>3. /\ r \in QueuedRows /\ r.trigger = old.trigger /\ r.at = old.at
      /\ r.new = FALSE /\ r.status = "running"
  BY <1>2 DEF QueuedRows
<1> HIDE DEF r
<1> QED
  BY <1>1, <1>3, RowOnly DEF old

(* A retry puts a row back that was started: it is not fresh again. *)
LEMMA RetryHolds ==
  ASSUME ClocksHeld, NEW i \in DOMAIN occ, Retry(i)
  PROVE  ClocksHeld'
<1> DEFINE r == [occ[i] EXCEPT !.status = "pending"]
<1>1. /\ occ' = [occ EXCEPT ![i] = r] /\ UNCHANGED <<now, trigger, source, told>>
      /\ occ[i].status = "running"
  BY DEF Retry
<1>2. /\ r \in QueuedRows /\ r.trigger = occ[i].trigger /\ r.at = occ[i].at
      /\ r.new = occ[i].new /\ r.status = "pending"
      /\ occ[i].status = "running" => ~occ[i].new
  BY RowStatus
<1> HIDE DEF r
<1> QED
  BY <1>1, <1>2, RowOnly

(* The ends a row comes to without a word about its Trigger's clock. *)
LEMMA EndHolds ==
  ASSUME ClocksHeld, NEW i \in DOMAIN occ, Cancel(i) \/ Refuse(i) \/ Interrupt(i)
  PROVE  ClocksHeld'
<1>1. PICK s \in {"failed", "canceled"} :
        /\ occ' = [occ EXCEPT ![i].status = s] /\ UNCHANGED <<now, trigger, source>>
        /\ told' \subseteq told \cup {i}
  BY DEF Cancel, Refuse, Interrupt
<1> DEFINE r == [occ[i] EXCEPT !.status = s]
<1>2. /\ r \in QueuedRows /\ r.trigger = occ[i].trigger /\ r.at = occ[i].at
      /\ r.new = occ[i].new /\ r.status = s
  BY RowStatus
<1>3. occ' = [occ EXCEPT ![i] = r]
  BY <1>1
<1> HIDE DEF r
<1> QED
  BY <1>1, <1>2, <1>3, RowOnly

(* A clock that is over is at rest. *)
LEMMA SucceedHolds ==
  ASSUME ClocksHeld, NEW i \in DOMAIN occ, Succeed(i)
  PROVE  ClocksHeld'
<1> DEFINE t == occ[i].trigger
           old == trigger[t]
           r == [occ[i] EXCEPT !.status = "succeeded"]
           recovered == IF Current(i) THEN [old EXCEPT !.failures = 0] ELSE old
           c == IF Finished(t) THEN [recovered EXCEPT !.status = "archived", !.reason = "none"]
                ELSE recovered
<1>1. /\ occ' = [occ EXCEPT ![i] = r] /\ trigger' = [trigger EXCEPT ![t] = c]
      /\ UNCHANGED <<now, source, told>>
  BY DEF Succeed
<1>2. t \in Trigger /\ old \in TriggerRows
  BY OfTrigger
<1>3. /\ r \in QueuedRows /\ r.trigger = occ[i].trigger /\ r.at = occ[i].at
      /\ r.new = occ[i].new /\ r.status = "succeeded"
  BY RowStatus
<1>4. ClockRight(old, Source(t), now) /\ (Finished(t) => old.next = 0)
  BY <1>2 DEF ClocksHeld, Clocks, Finished
<1> HIDE DEF r, old
<1>5. /\ recovered \in TriggerRows /\ recovered.rev = old.rev /\ recovered.next = old.next
      /\ recovered.status = old.status /\ recovered.reason = old.reason
      /\ recovered.failures \in {0, old.failures}
  BY <1>2 DEF TriggerRows
<1>6. ClockRight(recovered, Source(t), now)
  BY <1>4, <1>5, ScheduleBounds DEF ClockRight
<1> HIDE DEF recovered
<1>7. c \in TriggerRows /\ c.rev = old.rev /\ c.next = old.next
  BY <1>5 DEF TriggerRows
<1>8. ClockRight(c, Source(t), now)
  <2>1. CASE Finished(t)
    <3>1. c.status = "archived" /\ c.next = 0
      BY <1>4, <1>5, <2>1 DEF TriggerRows
    <3> QED
      BY <3>1 DEF ClockRight
  <2>2. CASE ~Finished(t)
    BY <1>6, <2>2
  <2> QED
    BY <2>1, <2>2
<1> HIDE DEF c
<1> QED
  BY <1>1, <1>2, <1>3, <1>7, <1>8, RowAndClock DEF old

(* A failure that is counted leaves the clock, or stops it at the threshold. *)
LEMMA FailHolds ==
  ASSUME ClocksHeld, NEW i \in DOMAIN occ, Fail(i)
  PROVE  ClocksHeld'
<1> DEFINE t == occ[i].trigger
           old == trigger[t]
           r == [occ[i] EXCEPT !.status = "failed"]
           counted == [old EXCEPT !.failures = @ + 1]
           c == Counted(t)
<1>1. occ' = [occ EXCEPT ![i] = r] /\ UNCHANGED <<now, source>>
  BY DEF Fail
<1>2. t \in Trigger /\ old \in TriggerRows
  BY OfTrigger
<1>3. /\ r \in QueuedRows /\ r.trigger = occ[i].trigger /\ r.at = occ[i].at
      /\ r.new = occ[i].new /\ r.status = "failed"
  BY RowStatus
<1>4. ClockRight(old, Source(t), now)
  BY <1>2 DEF ClocksHeld, Clocks
<1>5. CASE ~Current(i)
  <2>1. UNCHANGED <<trigger, told>>
    BY <1>5 DEF Fail
  <2> HIDE DEF r
  <2> QED
    BY <1>1, <1>3, <2>1, RowOnly
<1>6. CASE Current(i)
  <2>1. trigger' = [trigger EXCEPT ![t] = c] /\ told' \subseteq told \cup {i}
    BY <1>6 DEF Fail
  <2>2. c = IF old.status = "active" /\ counted.failures >= Threshold
            THEN [counted EXCEPT !.status = "paused", !.next = 0, !.reason = "failures"]
            ELSE counted
    BY DEF Counted
  <2> HIDE DEF c, r, old
  <2>3. /\ counted \in TriggerRows /\ counted.rev = old.rev /\ counted.next = old.next
        /\ counted.status = old.status /\ counted.reason = old.reason
        /\ counted.failures = old.failures + 1 /\ counted.failures \in Nat
    BY <1>2 DEF TriggerRows
  <2> HIDE DEF counted
  <2>4. CASE old.status = "active" /\ counted.failures >= Threshold
    <3>1. 0 \in 0..(MaxTime + 1)
      BY ScheduleBounds
    <3>2. c \in TriggerRows /\ c.rev = old.rev /\ c.next = 0 /\ c.status = "paused"
      BY <2>2, <2>3, <2>4, <3>1 DEF TriggerRows
    <3>3. ClockRight(c, Source(t), now)
      BY <3>2 DEF ClockRight
    <3> QED
      BY <1>1, <1>2, <1>3, <2>1, <3>2, <3>3, RowAndClock DEF old
  <2>5. CASE ~(old.status = "active" /\ counted.failures >= Threshold)
    <3>1. c = counted
      BY <2>2, <2>5
    <3>2. ClockRight(c, Source(t), now)
      BY <1>4, <2>3, <2>5, <3>1, ScheduleBounds DEF ClockRight
    <3> QED
      BY <1>1, <1>2, <1>3, <2>1, <2>3, <3>1, <3>2, RowAndClock DEF old
  <2> QED
    BY <2>4, <2>5
<1> QED
  BY <1>5, <1>6

-----------------------------------------------------------------------------
(* Together. *)

(* A Trigger starts active, armed for its first instant, and nothing is queued. *)
LEMMA InitHoldsClocks == Init => ClocksHeld
<1> SUFFICES ASSUME Init PROVE ClocksHeld
  OBVIOUS
<1>0. PICK f \in [Trigger -> Schedules] :
        source = [t \in Trigger |-> <<f[t]>>] /\ trigger = [t \in Trigger |-> Active(f[t])]
  BY DEF Init
<1>1. now = 0 /\ occ = <<>> /\ told = {} /\ DOMAIN occ = {}
  BY DEF Init
<1>2. ASSUME NEW t \in Trigger
      PROVE  /\ trigger[t] \in TriggerRows /\ source[t] \in Seq(Schedules)
             /\ trigger[t].rev = Len(source[t]) /\ trigger[t].rev >= 1
             /\ ClockRight(trigger[t], Source(t), now)
  <2> DEFINE s == f[t]
             fire == FirstFire(s)
  <2>1. s \in Schedules /\ source[t] = <<s>> /\ trigger[t] = Active(s)
    BY <1>0
  <2> HIDE DEF s
  <2>2. fire \in 0..(MaxTime + 1) /\ fire # 0 /\ (s # 0 => fire = s)
    BY <1>1, <2>1, ScheduleBounds DEF FirstFire, Schedules, Instants
  <2>3. trigger[t] = [status |-> "active", next |-> fire, rev |-> 1, failures |-> 0,
                      reason |-> "none"]
    BY <2>1 DEF Active
  <2> HIDE DEF fire
  <2>4. /\ trigger[t] \in TriggerRows /\ trigger[t].rev = 1 /\ trigger[t].next = fire
        /\ trigger[t].status = "active" /\ trigger[t].failures = 0
        /\ trigger[t].reason = "none"
    BY <2>2, <2>3 DEF TriggerRows
  <2>5. source[t] \in Seq(Schedules) /\ Len(source[t]) = 1 /\ source[t][1] = s
    BY <2>1
  <2>6. Source(t) = s
    BY <2>4, <2>5 DEF Source
  <2>7. ClockRight(trigger[t], Source(t), now)
    BY <2>2, <2>4, <2>6, ScheduleBounds DEF ClockRight
  <2> QED
    BY <2>4, <2>5, <2>7
<1>3. ClockTyped
  <2>1. trigger \in [Trigger -> TriggerRows] /\ source \in [Trigger -> Seq(Schedules)]
    BY <1>0, <1>2
  <2>2. now \in 0..MaxTime /\ occ \in Seq(QueuedRows) /\ told \subseteq DOMAIN occ
    BY <1>1, ScheduleBounds
  <2> QED
    BY <1>2, <2>1, <2>2 DEF ClockTyped
<1>4. Clocks
  BY <1>1, <1>2 DEF Clocks, Ahead
<1>5. RowsRight
  <2>1. ASSUME NEW t \in Trigger PROVE Fresh(t) = {} /\ Cardinality(Fresh(t)) <= MaxPending
    <3>1. Fresh(t) = {}
      BY <1>1 DEF Fresh, Pending
    <3>2. Cardinality(Fresh(t)) = 0
      BY <3>1, FS_EmptySet
    <3> QED
      BY <3>1, <3>2, ScheduleBounds
  <2> QED
    BY <1>1, <2>1 DEF RowsRight
<1> QED
  BY <1>3, <1>4, <1>5 DEF ClocksHeld

LEMMA StepHoldsClocks == ClocksHeld /\ Next => ClocksHeld'
<1> SUFFICES ASSUME ClocksHeld, Next PROVE ClocksHeld'
  OBVIOUS
<1>1. CASE Tick
  BY <1>1, TickHolds
<1>2. ASSUME NEW barred \in SUBSET Due, Claim(barred) PROVE ClocksHeld'
  BY <1>2, ClaimHolds
<1>3. ASSUME NEW t \in Trigger,
             \/ Manual(t) \/ UpdateOther(t) \/ Pause(t) \/ Resume(t) \/ Archive(t)
             \/ SetNextFire(t)
      PROVE  ClocksHeld'
  BY <1>3, ManualHolds, UpdateOtherHolds, PauseHolds, ResumeHolds, ArchiveHolds, SetNextFireHolds
<1>4. ASSUME NEW t \in Trigger, NEW s \in Schedules, UpdateSource(t, s) PROVE ClocksHeld'
  BY <1>4, UpdateSourceHolds
<1>5. ASSUME NEW i \in DOMAIN occ,
             \/ Start(i) \/ Retry(i) \/ Cancel(i) \/ Refuse(i) \/ Interrupt(i)
             \/ Succeed(i) \/ Fail(i)
      PROVE  ClocksHeld'
  BY <1>5, StartHolds, RetryHolds, EndHolds, SucceedHolds, FailHolds
<1> QED
  BY <1>1, <1>2, <1>3, <1>4, <1>5 DEF Next, ClaimDue

LEMMA StutterHoldsClocks == ClocksHeld /\ UNCHANGED vars => ClocksHeld'
<1> SUFFICES ASSUME ClocksHeld, UNCHANGED vars PROVE ClocksHeld'
  OBVIOUS
<1>1. now' = now /\ trigger' = trigger /\ source' = source /\ occ' = occ /\ told' = told
  BY DEF vars
<1>2. ClockTyped'
  BY <1>1 DEF ClocksHeld, ClockTyped
<1>3. \A t \in Trigger : Source(t)' = Source(t) /\ (Ahead(t, trigger[t].next)
                                                    => Ahead(t, trigger[t].next)')
  BY <1>1 DEF Source, Ahead
<1>4. Clocks'
  BY <1>1, <1>3 DEF ClocksHeld, Clocks
<1>5. RowsRight'
  <2>1. \A t : Fresh(t)' = Fresh(t)
    BY <1>1 DEF Fresh, Pending
  <2> QED
    BY <1>1, <2>1 DEF ClocksHeld, RowsRight
<1> QED
  BY <1>2, <1>4, <1>5 DEF ClocksHeld

(* While the dispatch is followed the clocks are at rest. *)
THEOREM ClocksHeldAlways == TriggersSpec => []ClocksHeld
<1>1. TriggersInit => ClocksHeld
  BY InitHoldsClocks DEF TriggersInit
<1>2. ClocksHeld /\ [TriggersNext]_triggerVars => ClocksHeld'
  <2> SUFFICES ASSUME ClocksHeld, [TriggersNext]_triggerVars PROVE ClocksHeld'
    OBVIOUS
  <2>1. Next \/ UNCHANGED vars
    BY DEF TriggersNext, triggerVars
  <2> QED
    BY <2>1, StepHoldsClocks, StutterHoldsClocks
<1> QED
  BY <1>1, <1>2, PTL DEF TriggersSpec

(* A set of which any two members are one has one member at most. *)
LEMMA OneAtMost ==
  ASSUME NEW S, \A x, y \in S : x = y
  PROVE  Cardinality(S) <= 1
<1>1. CASE S = {}
  BY <1>1, FS_EmptySet
<1>2. CASE S # {}
  <2>1. PICK x : S = {x}
    BY <1>2
  <2> QED
    BY <2>1, FS_Singleton
<1> QED
  BY <1>1, <1>2

LEMMA ClocksHeldSound == ClocksHeld => TypeOK /\ StoppedIsStopped /\ NoBacklog /\ NoInstantTwice
<1> SUFFICES ASSUME ClocksHeld PROVE TypeOK /\ StoppedIsStopped /\ NoBacklog /\ NoInstantTwice
  OBVIOUS
<1>1. /\ \A i \in DOMAIN occ : occ[i] \in QueuedRows
      /\ \A t \in Trigger : trigger[t] \in TriggerRows /\ source[t] \in Seq(Schedules)
  BY OccDomain DEF ClocksHeld, ClockTyped
<1>2. TypeOK
  BY <1>1 DEF ClocksHeld, ClockTyped, TypeOK, QueuedRows, TriggerRows
<1>3. StoppedIsStopped
  BY DEF ClocksHeld, Clocks, ClockRight, StoppedIsStopped
<1>4. NoBacklog
  <2>1. ASSUME NEW t \in Trigger
        PROVE  Cardinality({i \in Fresh(t) : Scheduled(i)}) <= 1
    <3>1. \A i, j \in {k \in Fresh(t) : Scheduled(k)} : i = j
      BY DEF ClocksHeld, RowsRight, Scheduled
    <3> QED
      BY <3>1, OneAtMost
  <2>2. \A t \in Trigger : Cardinality(Fresh(t)) <= MaxPending
    BY DEF ClocksHeld, RowsRight
  <2> QED
    BY <2>1, <2>2 DEF NoBacklog, Fresh
<1>5. NoInstantTwice
  BY DEF ClocksHeld, RowsRight, NoInstantTwice, Scheduled
<1> QED
  BY <1>2, <1>3, <1>4, <1>5

(* A success archives only what finished: a one-shot whose clock is at rest, and
   of an active one it rests because the instant has passed. *)
LEMMA ArchivesWhatIsOver ==
  ASSUME ClocksHeld, NEW i \in DOMAIN occ, Succeed(i),
         NEW t, t = occ[i].trigger,
         trigger'[t].status = "archived", trigger[t].status # "archived"
  PROVE  Source(t) \in 1..now
<1>1. t \in Trigger /\ trigger[t] \in TriggerRows /\ Source(t) \in Nat /\ now \in Nat
  BY OfTrigger, SourceTyped, ScheduleBounds DEF ClocksHeld, ClockTyped
<1>2. Finished(t)
  <2>1. SUFFICES ASSUME ~Finished(t) PROVE FALSE
    OBVIOUS
  <2> DEFINE old == trigger[t]
             recovered == IF Current(i) THEN [old EXCEPT !.failures = 0] ELSE old
  <2>2. trigger' = [trigger EXCEPT ![t] = recovered]
    BY <2>1 DEF Succeed
  <2>3. trigger'[t] = recovered
    BY <1>1, <2>2 DEF ClocksHeld, ClockTyped
  <2>4. old \in TriggerRows /\ old.status # "archived"
    BY <1>1
  <2> HIDE DEF old
  <2>5. recovered.status = old.status
    BY <2>4 DEF TriggerRows
  <2> QED
    BY <2>3, <2>4, <2>5
<1>3. /\ trigger[t].next = 0 /\ Source(t) # 0
      /\ trigger[t].status = "active" \/ Source(t) <= now
  BY <1>2 DEF Finished
<1>4. trigger[t].status = "active" => Source(t) \in 1..now
  BY <1>1, <1>3 DEF ClocksHeld, Clocks, ClockRight
<1> QED
  BY <1>1, <1>3, <1>4

(* The clocks fire what they should, once, and never a Trigger that stopped; and
   a success archives a Trigger only when its one instant has passed. *)
THEOREM ClocksAreSound == TriggersSpec => ClockSound
<1>1. ClocksHeld /\ [TriggersNext]_triggerVars =>
        [\A i \in DOMAIN occ :
           LET t == occ[i].trigger
           IN Succeed(i) /\ trigger'[t].status = "archived" /\ trigger[t].status # "archived"
                => Source(t) \in 1..now]_vars
  BY ArchivesWhatIsOver
<1> QED
  BY <1>1, ClocksHeldAlways, ClocksHeldSound, PTL
     DEF TriggersSpec, ClockSound, ArchivedWhenOver

=============================================================================
