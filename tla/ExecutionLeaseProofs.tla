------------------------ MODULE ExecutionLeaseProofs ------------------------
(***************************************************************************)
(* Proofs about ExecutionLease, for every lease, margin and timer.  The    *)
(* inductive invariant has three parts: every grant, taken or in flight,   *)
(* is backed by the Host's lease (Backed); the Runner's timers have not    *)
(* run past what bounds them (Timers); and the Host takes the Run back only*)
(* from a lease that ran out or a Runner that cannot begin it (Taken).     *)
(***************************************************************************)
EXTENDS ExecutionLease, TLAPS

Backed ==
  /\ hostLease <= now + Lease
  /\ attachedAt <= now
  /\ \A f \in toHost : f.at <= now
  /\ \A f \in toRunner : /\ f.type = "renewed" => f.at + Lease <= hostLease
                         /\ f.type = "attached" => attachedAt + Lease <= hostLease
  /\ GrantIsBacked

Timers ==
  /\ phase = "sent" => ~granted
  /\ phase \in {"waiting", "acting"} => now <= watch /\ watch <= now + Watch
  /\ phase = "acting" => granted /\ watch < deadline + Watch
  /\ phase = "stopping" => now <= haltAt
  /\ phase = "stopping" /\ Margin >= Watch + Grace => haltAt < hostLease

(* The execution has ended, or its execute command is lost: no engine will *)
(* begin under this binding.                                               *)
Barren == \/ phase = "gone"
          \/ phase = "sent" /\ \A f \in toRunner : f.type # "execute"

Taken ==
  /\ ~link => toHost = {} /\ toRunner = {}
  /\ \A f \in toHost : f.type = "attach" /\ ~f.holds => Barren
  /\ taken => hostLease < now \/ Barren

Inv == TypeOK /\ Backed /\ Timers /\ Taken

(* What a lease, less its margin, still measures. *)
LEMMA Leads == /\ Margin \in Nat /\ Margin <= Lease
               /\ Lead \in 0..Lease /\ Lead + Margin = Lease
<1>1. /\ Lease \div 4 \in Nat /\ Lease \div 4 <= Lease
  BY SMT, TimeAssumption
<1>2. Margin \in Nat /\ Margin <= Lease
  BY <1>1, SMT, TimeAssumption DEF Margin
<1> QED
  BY <1>2, SMT, TimeAssumption DEF Lead

(* Lease, Margin and Lead as numbers, for arithmetic that needs no more. *)
LEMMA Numbers == /\ Lease \in Nat /\ Margin \in Nat /\ Lead \in Nat
                 /\ Watch \in Nat /\ Watch > 0 /\ Grace \in Nat
                 /\ MaxTime \in Nat /\ MaxFlight \in Nat
                 /\ Lead <= Lease /\ Lead + Margin = Lease /\ Margin >= Watch
  BY Leads, TimeAssumption, MarginAssumption

LEMMA Initially == Init => Inv
<1> SUFFICES ASSUME Init PROVE Inv
  OBVIOUS
<1> USE DEF Init
<1>1. TypeOK
  <2>1. /\ hostLease \in Horizon /\ deadline \in Horizon
        /\ watch \in 0..(MaxTime + Watch) /\ haltAt \in 0..(MaxTime + Grace)
        /\ now \in Time /\ attachedAt \in Time
    BY Numbers, SMT DEF Time, Horizon
  <2>2. toRunner \subseteq [type : {"execute", "renewed", "attached", "revoked"}, at : Time]
    BY <2>1
  <2> QED
    BY <2>1, <2>2 DEF TypeOK, Phase
<1>2. Backed
  BY Numbers, SMT DEF Backed, GrantIsBacked
<1>3. Timers
  BY DEF Timers
<1>4. Taken
  BY DEF Taken
<1> QED
  BY <1>1, <1>2, <1>3, <1>4 DEF Inv

(* The clocks as numbers, and the bounds of their types. *)
LEMMA Clocks ==
  ASSUME TypeOK
  PROVE  /\ now \in Nat /\ now <= MaxTime /\ hostLease \in Nat
         /\ deadline \in Nat /\ watch \in Nat /\ haltAt \in Nat /\ attachedAt \in Nat
         /\ \A f \in toHost \cup toRunner : f.at \in Nat /\ f.at <= MaxTime
         /\ hostLease <= MaxTime + Lease /\ deadline <= MaxTime + Lease
         /\ attachedAt <= MaxTime
  BY Numbers, SMT DEF TypeOK, Time, Horizon

(* The point of the margin: an engine that acts does so inside the Host's  *)
(* lease, and the watchdog's next turn and the grace after it come in time.*)
LEMMA ActsInTime ==
  ASSUME Inv, phase = "acting"
  PROVE  /\ now < hostLease /\ watch < hostLease
         /\ Margin >= Watch + Grace => watch + Grace < hostLease
<1>1. /\ now <= watch /\ granted /\ watch < deadline + Watch
      /\ deadline + Margin <= hostLease
  BY DEF Inv, Timers, Backed, GrantIsBacked
<1> QED
  BY <1>1, Clocks, Numbers, SMT DEF Inv

(* Aborting an execution that waits or acts keeps the timers' promises. *)
LEMMA Aborts ==
  ASSUME Inv, Abort
  PROVE  /\ phase' \in Phase /\ haltAt' \in 0..(MaxTime + Grace)
         /\ phase' \in {phase, "stopping", "gone"}
         /\ phase' \notin {"waiting", "acting"}
         /\ phase' = "sent" => phase = "sent"
         /\ phase = "gone" => phase' = "gone"
         /\ phase' = "stopping" => now <= haltAt'
         /\ phase' = "stopping" /\ Margin >= Watch + Grace => haltAt' < hostLease
         /\ phase' = "stopping" => phase \in {"acting", "stopping"}
<1>1. CASE phase = "acting"
  <2>1. phase' = "stopping" /\ haltAt' = now + Grace
    BY <1>1 DEF Abort
  <2>2. now <= watch
    BY <1>1 DEF Inv, Timers
  <2>3. haltAt' \in 0..(MaxTime + Grace) /\ now <= haltAt'
    BY <2>1, Clocks, Numbers, SMT DEF Inv
  <2>4. ASSUME Margin >= Watch + Grace PROVE haltAt' < hostLease
    BY <2>1, <2>2, <2>4, <1>1, ActsInTime, Clocks, Numbers, SMT DEF Inv
  <2> QED
    BY <1>1, <2>1, <2>3, <2>4 DEF Phase
<1>2. CASE phase # "acting"
  <2>1. phase' = (IF phase = "waiting" THEN "gone" ELSE phase) /\ haltAt' = haltAt
    BY <1>2 DEF Abort
  <2> QED
    BY <1>2, <2>1 DEF Inv, TypeOK, Timers, Phase
<1> QED
  BY <1>1, <1>2

-----------------------------------------------------------------------------
(* What a step of the Host, of the connection or of the clock preserves. *)

LEMMA ClockSteps ==
  ASSUME Inv, Tick
  PROVE  Inv'
<1> USE DEF Tick
<1>1. TypeOK'
  BY Clocks, Numbers, SMT DEF Inv, TypeOK, Time, host, wires, execution
<1>2. Backed'
  <2>1. hostLease' <= now' + Lease /\ attachedAt' <= now'
    BY Clocks, Numbers, SMT DEF Inv, Backed, host, wires, execution
  <2>2. \A f \in toHost' : f.at <= now'
    BY Clocks, Numbers, SMT DEF Inv, Backed, wires
  <2> QED
    BY <2>1, <2>2 DEF Inv, Backed, GrantIsBacked, host, wires, execution
<1>3. Timers'
  BY Clocks, Numbers, SMT DEF Inv, Timers, Due, host, wires, execution
<1>4. Taken'
  <2>1. Barren' = Barren
    BY DEF Barren, wires, execution
  <2> QED
    BY <2>1, Clocks, SMT DEF Inv, Taken, host, wires, execution
<1> QED
  BY <1>1, <1>2, <1>3, <1>4 DEF Inv

(* A longer lease of the Host's keeps what the Runner's timers promise. *)
LEMMA LongerLease ==
  ASSUME Inv, hostLease' \in Nat, hostLease' >= hostLease, UNCHANGED <<now, execution>>
  PROVE  Timers' /\ GrantIsBacked'
<1>1. Timers'
  BY Clocks, Numbers, SMT DEF Inv, Timers, execution
<1>2. GrantIsBacked'
  BY Clocks, Numbers, SMT DEF Inv, Backed, GrantIsBacked, execution
<1> QED
  BY <1>1, <1>2

(* The Host answers a frame: with nothing, or with a fresh lease and a     *)
(* grant that is measured from before it.                                  *)
LEMMA Answers ==
  ASSUME Inv, NEW f \in toHost, NEW frames, Answer(f, frames),
         hostLease' = now + Lease \/ hostLease' = hostLease,
         taken' \in BOOLEAN,
         frames \subseteq [type : {"renewed", "attached", "revoked"}, at : Time],
         \A x \in frames :
           /\ x.type = "renewed" => x.at + Lease <= hostLease'
           /\ x.type = "attached" => attachedAt + Lease <= hostLease',
         link \/ frames = {},
         taken' => hostLease' < now \/ Barren
  PROVE  Inv'
<1>1. hostLease' \in Nat /\ hostLease' >= hostLease /\ hostLease' <= now + Lease
  BY Clocks, Numbers, SMT DEF Inv, Backed
<1>2. UNCHANGED <<now, execution>>
  BY DEF Answer
<1>3. TypeOK'
  <2>1. hostLease' \in Horizon
    BY <1>1, Clocks, Numbers, SMT DEF Inv, Horizon
  <2>2. /\ toHost' \subseteq [type : {"heartbeat", "attach"}, at : Time, holds : BOOLEAN]
        /\ toRunner' \subseteq [type : {"execute", "renewed", "attached", "revoked"}, at : Time]
    BY DEF Answer, Inv, TypeOK
  <2> QED
    BY <1>2, <2>1, <2>2 DEF Answer, Inv, TypeOK, execution
<1>4. Backed'
  <2>1. hostLease' <= now' + Lease /\ attachedAt' <= now' /\ \A x \in toHost' : x.at <= now'
    BY <1>1 DEF Answer, Inv, Backed
  <2>2. ASSUME NEW x \in toRunner'
        PROVE  /\ x.type = "renewed" => x.at + Lease <= hostLease'
               /\ x.type = "attached" => attachedAt' + Lease <= hostLease'
    <3>1. attachedAt' = attachedAt /\ (x \in toRunner \/ x \in frames)
      BY DEF Answer
    <3>2. CASE x \in frames
      BY <3>1, <3>2
    <3>3. CASE x \in toRunner
      BY <3>1, <3>3, <1>1, Clocks, Numbers, SMT DEF Inv, Backed
    <3> QED
      BY <3>1, <3>2, <3>3
  <2> QED
    BY <2>1, <2>2, <1>1, <1>2, LongerLease DEF Backed
<1>5. Timers'
  BY <1>1, <1>2, LongerLease
<1>6. Taken'
  <2>1. Barren => Barren'
    BY <1>2 DEF Answer, Barren, execution
  <2>2. ~link' => toHost' = {} /\ toRunner' = {}
    BY DEF Answer, Inv, Taken
  <2>3. now' = now
    BY DEF Answer
  <2> QED
    BY <2>1, <2>2, <2>3 DEF Answer, Inv, Taken
<1> QED
  BY <1>3, <1>4, <1>5, <1>6 DEF Inv

LEMMA HostSteps ==
  ASSUME Inv, HearHeartbeat \/ HearAttach
  PROVE  Inv'
<1>1. CASE HearHeartbeat
  <2> PICK f \in toHost : HearHeartbeat!(f)
    BY <1>1 DEF HearHeartbeat
  <2>1. link /\ f.at \in Time /\ f.at <= now
    BY DEF Inv, Taken, TypeOK, Backed
  <2>2. CASE ~taken /\ hostLease > now
    <3> DEFINE frames == {[type |-> "renewed", at |-> f.at]}
    <3>1. /\ Answer(f, frames) /\ hostLease' = now + Lease /\ taken' = FALSE
      BY <2>2
    <3>2. frames \subseteq [type : {"renewed", "attached", "revoked"}, at : Time]
      BY <2>1
    <3>3. \A x \in frames : /\ x.type = "renewed" => x.at + Lease <= hostLease'
                            /\ x.type = "attached" => attachedAt + Lease <= hostLease'
      BY <2>1, <3>1, Clocks, Numbers, SMT DEF Inv
    <3> QED
      BY <2>1, <3>1, <3>2, <3>3, Answers
  <2>3. CASE ~(~taken /\ hostLease > now)
    <3>1. Answer(f, {}) /\ hostLease' = hostLease /\ taken' = taken
      BY <2>3
    <3>2. taken' \in BOOLEAN /\ (taken' => hostLease' < now \/ Barren)
      BY <3>1 DEF Inv, TypeOK, Taken
    <3> QED
      BY <3>1, <3>2, Answers
  <2> QED
    BY <2>2, <2>3
<1>2. CASE HearAttach
  <2> PICK f \in toHost : HearAttach!(f)
    BY <1>2 DEF HearAttach
  <2>1. link /\ attachedAt <= now /\ 0 \in Time
    BY Numbers, SMT DEF Inv, Taken, Backed, Time
  <2>2. CASE f.holds /\ ~taken /\ hostLease >= now
    <3> DEFINE frames == {[type |-> "attached", at |-> 0]}
    <3>1. /\ Answer(f, frames) /\ hostLease' = now + Lease /\ taken' = FALSE
      BY <2>2
    <3>2. frames \subseteq [type : {"renewed", "attached", "revoked"}, at : Time]
      BY <2>1
    <3>3. \A x \in frames : /\ x.type = "renewed" => x.at + Lease <= hostLease'
                            /\ x.type = "attached" => attachedAt + Lease <= hostLease'
      BY <2>1, <3>1, Clocks, Numbers, SMT DEF Inv
    <3> QED
      BY <2>1, <3>1, <3>2, <3>3, Answers
  <2>3. CASE ~(f.holds /\ ~taken /\ hostLease >= now)
    <3> DEFINE frames == {[type |-> "revoked", at |-> 0]}
    <3>1. Answer(f, frames) /\ hostLease' = hostLease /\ taken' = TRUE
      BY <2>3
    <3>2. frames \subseteq [type : {"renewed", "attached", "revoked"}, at : Time]
      BY <2>1
    <3>3. taken' => hostLease' < now \/ Barren
      <4>1. CASE ~f.holds
        BY <4>1 DEF Inv, Taken
      <4>2. CASE taken
        BY <4>2, <3>1 DEF Inv, Taken
      <4>3. CASE ~(hostLease >= now)
        BY <4>3, <3>1, Clocks, SMT DEF Inv
      <4> QED
        BY <2>3, <4>1, <4>2, <4>3
    <3>4. \A x \in frames : x.type # "renewed" /\ x.type # "attached"
      OBVIOUS
    <3> QED
      BY <2>1, <3>1, <3>2, <3>3, <3>4, Answers
  <2> QED
    BY <2>2, <2>3
<1> QED
  BY <1>1, <1>2

LEMMA ConnectionSteps ==
  ASSUME Inv, Sweep \/ Disconnect \/ HostRestart \/ Connect \/ Heartbeat
  PROVE  Inv'
<1>1. CASE Sweep
  <2>1. /\ UNCHANGED <<now, hostLease, link, toHost, toRunner, phase, deadline, granted,
                       watch, haltAt, attachedAt>>
        /\ taken' = TRUE /\ hostLease < now
    BY <1>1 DEF Sweep, wires, execution
  <2> QED
    BY <2>1 DEF Inv, TypeOK, Backed, GrantIsBacked, Timers, Taken, Barren
<1>2. CASE Disconnect
  <2>1. /\ UNCHANGED <<now, hostLease, taken, phase, deadline, granted, watch, haltAt, attachedAt>>
        /\ link' = FALSE /\ toHost' = {} /\ toRunner' = {}
    BY <1>2 DEF Disconnect, host, execution
  <2> QED
    BY <2>1 DEF Inv, TypeOK, Backed, GrantIsBacked, Timers, Taken, Barren
<1>3. CASE HostRestart
  <2>1. /\ UNCHANGED <<now, taken, phase, deadline, granted, watch, haltAt, attachedAt>>
        /\ link' = FALSE /\ toHost' = {} /\ toRunner' = {}
        /\ UNCHANGED execution
    BY <1>3 DEF HostRestart, execution
  <2>2. hostLease' = IF taken THEN hostLease ELSE now + Lease
    BY <1>3 DEF HostRestart
  <2>3. /\ hostLease' \in Nat /\ hostLease' >= hostLease /\ hostLease' <= now + Lease
        /\ hostLease' \in Horizon
    BY <2>2, Clocks, Numbers, SMT DEF Inv, Backed, Horizon
  <2>4. Timers' /\ GrantIsBacked'
    BY <2>1, <2>3, LongerLease
  <2>5. TypeOK'
    BY <2>1, <2>3 DEF Inv, TypeOK
  <2>6. Backed'
    BY <2>1, <2>3, <2>4 DEF Inv, Backed
  <2>7. Taken'
    BY <2>1, <2>2 DEF Inv, Taken, Barren
  <2> QED
    BY <2>4, <2>5, <2>6, <2>7 DEF Inv
<1>4. CASE Connect
  <2> DEFINE attach == [type |-> "attach", at |-> now, holds |-> phase \in Holding]
  <2>1. /\ UNCHANGED <<now, hostLease, taken, toRunner, phase, deadline, granted, watch, haltAt>>
        /\ link' = TRUE /\ toHost' = {attach} /\ attachedAt' = now
    BY <1>4 DEF Connect, host, execution
  <2>2. toRunner = {} /\ now \in Time /\ now <= now
    BY <1>4, Clocks, SMT DEF Connect, Inv, Taken, TypeOK
  <2>3. attach \in [type : {"heartbeat", "attach"}, at : Time, holds : BOOLEAN]
    BY <2>2
  <2>4. ~attach.holds => Barren
    BY <2>2 DEF Inv, TypeOK, Phase, Holding, Barren
  <2> HIDE DEF attach
  <2>5. attach.at = now
    BY DEF attach
  <2> QED
    BY <2>1, <2>2, <2>3, <2>4, <2>5
       DEF Inv, TypeOK, Backed, GrantIsBacked, Timers, Taken, Barren
<1>5. CASE Heartbeat
  <2> DEFINE beat == [type |-> "heartbeat", at |-> now, holds |-> TRUE]
  <2>1. /\ UNCHANGED <<now, hostLease, taken, link, toRunner, phase, deadline, granted,
                       watch, haltAt, attachedAt>>
        /\ toHost' = toHost \cup {beat} /\ link
    BY <1>5 DEF Heartbeat, host, execution
  <2>2. beat \in [type : {"heartbeat", "attach"}, at : Time, holds : BOOLEAN]
    BY DEF Inv, TypeOK
  <2>3. beat.at = now /\ beat.type # "attach" /\ now <= now
    BY Clocks, SMT DEF Inv
  <2> HIDE DEF beat
  <2> QED
    BY <2>1, <2>2, <2>3 DEF Inv, TypeOK, Backed, GrantIsBacked, Timers, Taken, Barren
<1> QED
  BY <1>1, <1>2, <1>3, <1>4, <1>5

-----------------------------------------------------------------------------
(* What a step of the Runner preserves. *)

LEMMA AdmitStep ==
  ASSUME Inv, Admit
  PROVE  Inv'
<1> PICK f \in toRunner : Admit!(f)
  BY DEF Admit
<1> PICK first \in 1..Watch : watch' = now + first
  OBVIOUS
<1>1. /\ UNCHANGED <<now, hostLease, taken, link, toHost, granted, haltAt, attachedAt>>
      /\ f.type = "execute" /\ phase = "sent" /\ toRunner' = toRunner \ {f}
      /\ phase' = "waiting" /\ deadline' = now + Lead
  BY DEF host
<1>2. now <= watch' /\ watch' <= now + Watch /\ watch' \in 0..(MaxTime + Watch)
  BY Clocks, Numbers, SMT DEF Inv
<1>3. deadline' \in Horizon
  BY <1>1, Clocks, Numbers, SMT DEF Inv, Horizon
<1>4. ~Barren
  BY <1>1 DEF Barren
<1>5. ~granted
  BY <1>1 DEF Inv, Timers
<1>6. TypeOK'
  BY <1>1, <1>2, <1>3 DEF Inv, TypeOK, Phase
<1>7. Backed'
  BY <1>1, <1>5 DEF Inv, Backed, GrantIsBacked
<1>8. Timers'
  BY <1>1, <1>2 DEF Inv, Timers
<1>9. Taken'
  BY <1>1, <1>4 DEF Inv, Taken
<1> QED
  BY <1>6, <1>7, <1>8, <1>9 DEF Inv

(* A grant reaches no further than the Host's lease, less the margin; one  *)
(* for a Run that acts only ever extends its deadline.                     *)
LEMMA GrantStep ==
  ASSUME Inv, HearGrant
  PROVE  Inv'
<1> PICK f \in toRunner : HearGrant!(f)
  BY DEF HearGrant
<1> DEFINE reach == Measured(f) + Lead
<1>1. /\ UNCHANGED <<now, hostLease, taken, link, toHost, phase, watch, haltAt, attachedAt>>
      /\ f.type \in {"renewed", "attached"} /\ toRunner' = toRunner \ {f}
      /\ GrantLease(reach)
  BY DEF host
<1>2. /\ reach \in Nat /\ reach <= MaxTime + Lease /\ reach + Margin <= hostLease
  <2>1. CASE f.type = "renewed"
    <3>1. Measured(f) = f.at /\ f.at \in Nat /\ f.at <= MaxTime /\ f.at + Lease <= hostLease
      BY <2>1, Clocks DEF Inv, Backed, Measured
    <3> QED
      BY <3>1, Clocks, Numbers, SMT DEF Inv
  <2>2. CASE f.type = "attached"
    <3>1. /\ Measured(f) = attachedAt /\ attachedAt \in Nat /\ attachedAt <= MaxTime
          /\ attachedAt + Lease <= hostLease
      BY <2>2, Clocks DEF Inv, Backed, Measured
    <3> QED
      BY <3>1, Clocks, Numbers, SMT DEF Inv
  <2> QED
    BY <1>1, <2>1, <2>2
<1> HIDE DEF reach
<1>3. CASE phase \notin Holding
  <2>1. UNCHANGED <<deadline, granted>>
    BY <1>1, <1>3 DEF GrantLease, Inv, TypeOK
  <2> QED
    BY <1>1, <2>1 DEF Inv, TypeOK, Backed, GrantIsBacked, Timers, Taken, Barren
<1>4. CASE phase \in Holding
  <2>1. granted' = TRUE /\ deadline' = Extended(reach) /\ phase # "sent"
    BY <1>1, <1>4 DEF GrantLease, Holding
  <2>2. /\ deadline' \in Nat /\ deadline' <= MaxTime + Lease
        /\ deadline' + Margin <= hostLease
        /\ granted => deadline' >= deadline
    BY <1>2, <2>1, Clocks, Numbers, SMT DEF Inv, Backed, GrantIsBacked, Extended
  <2>3. TypeOK'
    <3>1. deadline' \in Horizon
      BY <2>2, Numbers, SMT DEF Horizon
    <3> QED
      BY <1>1, <2>1, <3>1 DEF Inv, TypeOK
  <2>4. Backed'
    BY <1>1, <2>2 DEF Inv, Backed, GrantIsBacked
  <2>5. Timers'
    <3>1. phase = "acting" => watch < deadline' + Watch
      BY <2>2, Clocks, Numbers, SMT DEF Inv, Timers
    <3> QED
      BY <1>1, <2>1, <3>1 DEF Inv, Timers
  <2>6. Taken'
    BY <1>1, <2>1 DEF Inv, Taken, Barren
  <2> QED
    BY <2>3, <2>4, <2>5, <2>6 DEF Inv
<1> QED
  BY <1>3, <1>4

(* A step that may abort the execution and does no more to its lease. *)
LEMMA AbortKeeps ==
  ASSUME Inv, Abort, UNCHANGED <<now, hostLease, taken, link, toHost, deadline, granted, attachedAt>>,
         toRunner' \subseteq toRunner, watch' \in 0..(MaxTime + Watch)
  PROVE  Inv'
<1>1. TypeOK'
  BY Aborts DEF Inv, TypeOK
<1>2. Backed'
  BY DEF Inv, Backed, GrantIsBacked
<1>3. Timers'
  BY Aborts DEF Inv, Timers
<1>4. Taken'
  <2>1. Barren => Barren'
    BY Aborts DEF Barren, Abort
  <2> QED
    BY <2>1 DEF Inv, Taken
<1> QED
  BY <1>1, <1>2, <1>3, <1>4 DEF Inv

LEMMA RunnerSteps ==
  ASSUME Inv, HearRevoked \/ Watchdog \/ Begin \/ End
  PROVE  Inv'
<1>1. CASE HearRevoked
  <2>1. /\ Abort /\ toRunner' \subseteq toRunner
        /\ UNCHANGED <<now, hostLease, taken, link, toHost, deadline, granted, watch, attachedAt>>
    BY <1>1 DEF HearRevoked, host
  <2> QED
    BY <2>1, AbortKeeps DEF Inv, TypeOK
<1>2. CASE Watchdog
  <2>1. /\ UNCHANGED <<now, hostLease, taken, link, toHost, toRunner, deadline, granted, attachedAt>>
        /\ watch <= now /\ watch' = now + Watch /\ phase \in {"waiting", "acting"}
    BY <1>2 DEF Watchdog, host, wires
  <2>2. /\ watch' \in 0..(MaxTime + Watch) /\ now <= watch' /\ watch' <= now + Watch
    BY <2>1, Clocks, Numbers, SMT DEF Inv
  <2>3. CASE deadline <= now
    BY <1>2, <2>1, <2>2, <2>3, AbortKeeps DEF Watchdog
  <2>4. CASE ~(deadline <= now)
    <3>1. UNCHANGED <<phase, haltAt>>
      BY <1>2, <2>4 DEF Watchdog
    <3>2. watch' < deadline + Watch
      BY <2>1, <2>4, Clocks, Numbers, SMT DEF Inv
    <3> QED
      BY <2>1, <2>2, <3>1, <3>2 DEF Inv, TypeOK, Backed, GrantIsBacked, Timers, Taken, Barren
  <2> QED
    BY <2>3, <2>4
<1>3. CASE Begin
  <2>1. /\ UNCHANGED <<now, hostLease, taken, link, toHost, toRunner, deadline, granted,
                       watch, attachedAt>>
        /\ phase = "waiting" /\ granted
    BY <1>3 DEF Begin, MayBegin, host, wires
  <2>2. CASE deadline <= now
    BY <1>3, <2>1, <2>2, AbortKeeps DEF Begin, Inv, TypeOK
  <2>3. CASE ~(deadline <= now)
    <3>1. phase' = "acting" /\ haltAt' = haltAt
      BY <1>3, <2>3 DEF Begin
    <3>2. now <= watch /\ watch <= now + Watch /\ watch < deadline + Watch
      <4>1. now <= watch /\ watch <= now + Watch
        BY <2>1 DEF Inv, Timers
      <4> QED
        BY <4>1, <2>3, Clocks, Numbers, SMT DEF Inv
    <3>3. ~Barren
      BY <2>1 DEF Barren
    <3> QED
      BY <2>1, <3>1, <3>2, <3>3 DEF Inv, TypeOK, Phase, Backed, GrantIsBacked, Timers, Taken
  <2> QED
    BY <2>2, <2>3
<1>4. CASE End
  <2>1. /\ UNCHANGED <<now, hostLease, taken, link, toHost, toRunner, deadline, granted,
                       watch, haltAt, attachedAt>>
        /\ phase' = "gone"
    BY <1>4 DEF End, host, wires
  <2> QED
    BY <2>1 DEF Inv, TypeOK, Phase, Backed, GrantIsBacked, Timers, Taken, Barren
<1> QED
  BY <1>1, <1>2, <1>3, <1>4

-----------------------------------------------------------------------------
LEMMA Step == Inv /\ [Next]_vars => Inv'
<1> SUFFICES ASSUME Inv, [Next]_vars PROVE Inv'
  OBVIOUS
<1>1. CASE UNCHANGED vars
  BY <1>1 DEF vars, host, wires, execution, Inv, TypeOK, Backed, GrantIsBacked, Timers,
     Taken, Barren
<1>2. CASE Next
  BY <1>2, ClockSteps, HostSteps, ConnectionSteps, AdmitStep, GrantStep, RunnerSteps DEF Next
<1> QED
  BY <1>1, <1>2

LEMMA Safe == Inv => TypeOK /\ GrantIsBacked /\ StopsFirst /\ EndedFirst
<1> SUFFICES ASSUME Inv PROVE TypeOK /\ GrantIsBacked /\ StopsFirst /\ EndedFirst
  OBVIOUS
<1>1. StopsFirst
  <2> SUFFICES ASSUME phase = "acting" PROVE now < hostLease /\ ~taken
    BY DEF StopsFirst
  <2>1. now < hostLease /\ ~Barren
    BY ActsInTime DEF Barren
  <2> QED
    BY <2>1, Clocks, SMT DEF Inv, Taken
<1>2. EndedFirst
  <2> SUFFICES ASSUME Margin >= Watch + Grace, phase = "stopping"
               PROVE  now < hostLease /\ ~taken
    BY <1>1 DEF EndedFirst, StopsFirst
  <2>1. now <= haltAt /\ haltAt < hostLease /\ ~Barren
    BY DEF Inv, Timers, Barren
  <2> QED
    BY <2>1, Clocks, SMT DEF Inv, Taken
<1> QED
  BY <1>1, <1>2 DEF Inv, Backed

(* The variables keep their types. *)
THEOREM TypeCorrect == Spec => []TypeOK
  BY Initially, Step, Safe, PTL DEF Spec

(* Every grant the Runner has taken ends its margin before the Host's      *)
(* lease, whatever was lost, late or overtaken (#grantLease).              *)
THEOREM GrantsAreBacked == Spec => []GrantIsBacked
  BY Initially, Step, Safe, PTL DEF Spec

(* No engine acts once the Host's lease has run out or the Host has taken  *)
(* the Run back, for every lease whose margin covers the watchdog's period.*)
THEOREM StopsBeforeTheHost == Spec => []StopsFirst
  BY Initially, Step, Safe, PTL DEF Spec

(* And none is still winding down then, if the margin covers the grace.    *)
THEOREM EndsBeforeTheHost == Spec => []EndedFirst
  BY Initially, Step, Safe, PTL DEF Spec
=============================================================================
