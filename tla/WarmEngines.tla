----------------------------- MODULE WarmEngines ----------------------------
(***************************************************************************)
(* apps/runner/src/runtime/warm-engine-pool.ts with the part of runtime.ts *)
(* that takes engines from it and keeps them there.  A Run takes the idle  *)
(* engine of its Thread or starts one; once it has completed, its engine   *)
(* may go to the pool, where it waits for the Thread's next Run.  Whatever *)
(* is not kept is retired: its processes are terminated, and a Thread      *)
(* whose engine cannot be proven gone takes no new Run until it is.        *)
(*                                                                         *)
(* An engine is named by the Run that started it; the name is also the     *)
(* containment scope of its processes.                                     *)
(***************************************************************************)
EXTENDS Integers, Sequences, SequencesExt, FiniteSets

CONSTANTS
  Thread,
  MaxRun,    \* bound of the model: Runs, in the order they are admitted
  Key,       \* what an engine is started with (warmEngineKey)
  MaxIdle    \* maxIdle

Run == 1..MaxRun
Engine == Run
None == 0

ASSUME WarmAssumption ==
  MaxRun \in Nat /\ MaxIdle \in Nat \ {0} /\ Thread # {} /\ Key # {}

VARIABLES
  thread, key,  \* what each Run is, once it is admitted
  stage,     \* where #execute of each Run is
  engine,    \* warmEngine in #execute, or a cold engine it started
  scope,     \* containmentScope: the processes a stop of the Run ends
  aborted,   \* Runs whose abort signal is set
  halts,     \* Runs whose #haltAfterGrace timer runs
  idle,      \* #idle: engines, the one that waits longest first
  retiring,  \* engines whose retirement is under way, by whom it is awaited
  tracked,   \* #retiring: the last retirement of each Thread
  awaited,   \* the retirement that take, or the eviction put, of a Run awaits
  alive,     \* engines some process of which exists
  authority, \* the Run whose credentials an engine's proxies carry
  held,      \* #uncontainedThreads
  life       \* of the Runner

run == <<thread, key, stage, engine, scope, aborted, halts, awaited>>
pool == <<idle, retiring, tracked>>
vars == <<run, pool, alive, authority, held, life>>

Active == {r \in Run : stage[r] \notin {"new", "done"}}

TypeOK ==
  /\ thread \in [Run -> Thread] /\ key \in [Run -> Key]
  /\ stage \in [Run -> {"new", "taking", "taken", "running", "keeping", "retiring",
                        "putting", "settling", "done"}]
  /\ engine \in [Run -> Engine \cup {None}] /\ scope \in [Run -> Engine]
  /\ aborted \subseteq Run /\ halts \subseteq Run
  /\ idle \in Seq(Engine) /\ IsInjective(idle) /\ Len(idle) <= MaxIdle
  /\ retiring \subseteq Engine /\ tracked \in [Thread -> Engine \cup {None}]
  /\ awaited \in [Run -> Engine \cup {None}]
  /\ alive \subseteq Engine /\ authority \in [Engine -> Run \cup {None}]
  /\ held \in [Thread -> Engine \cup {None}]
  /\ life \in {"open", "draining", "stopping", "closed"}

Init ==
  /\ thread \in [Run -> Thread] /\ key \in [Run -> Key]
  /\ stage = [r \in Run |-> "new"] /\ engine = [r \in Run |-> None]
  /\ scope = [r \in Run |-> r]
  /\ aborted = {} /\ halts = {} /\ awaited = [r \in Run |-> None]
  /\ idle = <<>> /\ retiring = {} /\ tracked = [t \in Thread |-> None]
  /\ alive = {} /\ authority = [e \in Engine |-> None]
  /\ held = [t \in Thread |-> None] /\ life = "open"

To(r, s) == stage' = [stage EXCEPT ![r] = s]

-----------------------------------------------------------------------------
(* The pool. *)

(* #retireTracked begins for the engines of E. *)
RetireTracked(E) ==
  /\ retiring' = retiring \cup E
  /\ tracked' = [t \in Thread |->
                   IF \E e \in E : thread[e] = t THEN CHOOSE e \in E : thread[e] = t
                   ELSE tracked[t]]

Without(e) == RemoveAt(idle, CHOOSE i \in DOMAIN idle : idle[i] = e)

(* The timer of an idle engine, or evict, which names it: an account, a     *)
(* Workspace, a specialist or a definition goes away.                      *)
Expires(e) ==
  /\ e \in ToSet(idle)
  /\ idle' = Without(e)
  /\ RetireTracked({e})
  /\ UNCHANGED <<run, alive, authority, held, life>>

(* evict, of all of them.  Nothing is awaited between the engines that it  *)
(* names, so that to evict some is to evict one after the other.           *)
Evict ==
  /\ idle # <<>>
  /\ idle' = <<>> /\ RetireTracked(ToSet(idle))
  /\ UNCHANGED <<run, alive, authority, held, life>>

(* #retireWarmEngine ends: all processes are proven gone, or the Thread is *)
(* held.                                                                   *)
Gone(e, proven) ==
  /\ alive' = IF proven THEN alive \ {e} ELSE alive
  /\ authority' = [authority EXCEPT ![e] = None]
  /\ held' = IF proven THEN held ELSE [held EXCEPT ![thread[e]] = e]

(* Mutant: an engine is not retired while its Thread has a Run. *)
RetireEnds_Alone(e) ==
  /\ e \in retiring /\ \A r \in Active : thread[r] # thread[e]
  /\ retiring' = retiring \ {e}
  /\ tracked' = [t \in Thread |-> IF tracked[t] = e THEN None ELSE tracked[t]]
  /\ \E proven \in BOOLEAN : (e \notin alive => proven) /\ Gone(e, proven)
  /\ UNCHANGED <<run, idle, life>>

RetireEnds(e) ==
  /\ e \in retiring
  /\ retiring' = retiring \ {e}
  /\ tracked' = [t \in Thread |-> IF tracked[t] = e THEN None ELSE tracked[t]]
  /\ \E proven \in BOOLEAN : (e \notin alive => proven) /\ Gone(e, proven)
  /\ UNCHANGED <<run, idle, life>>

(* #holdUncontainedThread: the termination is tried again until it holds.  *)
Contained(t) ==
  /\ held[t] # None
  /\ alive' = alive \ {held[t]}
  /\ held' = [held EXCEPT ![t] = None]
  /\ UNCHANGED <<run, pool, authority, life>>

-----------------------------------------------------------------------------
(* A Run. *)
Admit(r) ==
  /\ stage[r] = "new" /\ \A s \in Run : s < r => stage[s] # "new"
  /\ life = "open"
  /\ \A s \in Active : thread[s] # thread[r]
  /\ held[thread[r]] = None
  /\ To(r, "taking")
  /\ awaited' = [awaited EXCEPT ![r] = None]
  /\ UNCHANGED <<thread, key, engine, scope, aborted, halts, pool, alive, authority, held, life>>

(* Mutant: take does not wait for the retirement. *)
Free_AtOnce(r) == TRUE
Free(r) == IF awaited[r] = None THEN tracked[thread[r]] = None ELSE awaited[r] \notin retiring

(* take: a retirement of the Thread's engine that is under way ends first. *)
Await(r) ==
  /\ stage[r] = "taking" /\ awaited[r] = None /\ tracked[thread[r]] # None
  /\ awaited' = [awaited EXCEPT ![r] = tracked[thread[r]]]
  /\ UNCHANGED <<thread, key, stage, engine, scope, aborted, halts,
                 pool, alive, authority, held, life>>

Take(r) ==
  /\ stage[r] = "taking" /\ Free(r)
  /\ \/ /\ \A e \in ToSet(idle) : thread[e] # thread[r]
        /\ engine' = [engine EXCEPT ![r] = None] /\ idle' = idle
     \/ \E e \in ToSet(idle) :
          /\ thread[e] = thread[r]
          /\ engine' = [engine EXCEPT ![r] = e] /\ idle' = Without(e)
  /\ awaited' = [awaited EXCEPT ![r] = None]
  /\ To(r, "taken")
  /\ UNCHANGED <<thread, key, scope, aborted, halts, retiring, tracked,
                 alive, authority, held, life>>

(* An engine of another key, or of a Run that is recovered, is retired.    *)
Discard(r) ==
  /\ stage[r] = "taken" /\ engine[r] # None
  /\ \E proven \in BOOLEAN : (engine[r] \notin alive => proven) /\ Gone(engine[r], proven)
  /\ engine' = [engine EXCEPT ![r] = None]
  /\ UNCHANGED <<thread, key, stage, scope, aborted, halts, awaited, pool, life>>

Reuse(r) ==
  /\ stage[r] = "taken" /\ engine[r] # None
  /\ key[engine[r]] = key[r] /\ held[thread[r]] = None
  /\ authority' = [authority EXCEPT ![engine[r]] = r]
  /\ scope' = [scope EXCEPT ![r] = engine[r]]
  /\ To(r, "running")
  /\ UNCHANGED <<thread, key, engine, aborted, halts, awaited, pool, alive, held, life>>

StartEngine(r) ==
  /\ stage[r] = "taken" /\ engine[r] = None /\ held[thread[r]] = None
  /\ engine' = [engine EXCEPT ![r] = r]
  /\ alive' = alive \cup {r}
  /\ authority' = [authority EXCEPT ![r] = r]
  /\ To(r, "running")
  /\ UNCHANGED <<thread, key, scope, aborted, halts, awaited, pool, held, life>>

(* The Run fails, before or after it has an engine, or is stopped; or its  *)
(* engine cannot be kept at all.  A take that waits cannot fail.           *)
Fails(r) ==
  /\ stage[r] \in {"taking", "taken", "running"} /\ (stage[r] = "taking" => awaited[r] = None)
  /\ To(r, IF engine[r] = None THEN "settling" ELSE "retiring")
  /\ UNCHANGED <<thread, key, engine, scope, aborted, halts, awaited,
                 pool, alive, authority, held, life>>

Completes(r) ==
  /\ stage[r] = "running" /\ r \notin aborted /\ life = "open"
  /\ To(r, "keeping")
  /\ UNCHANGED <<thread, key, engine, scope, aborted, halts, awaited,
                 pool, alive, authority, held, life>>

(* #keepWarmEngine: the engine did not let go of the Run, or left          *)
(* something outside its process tree, or the Run was stopped meanwhile.   *)
Refused(r) ==
  /\ stage[r] = "keeping"
  /\ To(r, "retiring")
  /\ UNCHANGED <<thread, key, engine, scope, aborted, halts, awaited,
                 pool, alive, authority, held, life>>

Room == MaxIdle

(* put.  No idle engine of this Thread is there to be replaced: see        *)
(* OneEnginePerThread.  The one that waits longest makes room.             *)

Keep(r) ==
  /\ stage[r] = "keeping" /\ r \notin aborted
  /\ authority' = [authority EXCEPT ![engine[r]] = None]
  /\ LET full == Len(idle) = Room IN
     /\ idle' = Append(IF full THEN Tail(idle) ELSE idle, engine[r])
     /\ IF full THEN RetireTracked({Head(idle)}) ELSE UNCHANGED <<retiring, tracked>>
     /\ awaited' = [awaited EXCEPT ![r] = IF full THEN Head(idle) ELSE None]
  /\ engine' = [engine EXCEPT ![r] = None]
  /\ To(r, "putting")
  /\ UNCHANGED <<thread, key, scope, aborted, halts, alive, held, life>>

Kept(r) ==
  /\ stage[r] = "putting" /\ awaited[r] \notin retiring
  /\ awaited' = [awaited EXCEPT ![r] = None]
  /\ To(r, "settling")
  /\ UNCHANGED <<thread, key, engine, scope, aborted, halts, pool, alive, authority, held, life>>

(* The engine ends with its Run. *)
Retired(r) ==
  /\ stage[r] = "retiring"
  /\ \E proven \in BOOLEAN : (engine[r] \notin alive => proven) /\ Gone(engine[r], proven)
  /\ engine' = [engine EXCEPT ![r] = None]
  /\ To(r, "settling")
  /\ UNCHANGED <<thread, key, scope, aborted, halts, awaited, pool, life>>

(* Its end is emitted and it leaves #runs. *)
Settled(r) ==
  /\ stage[r] = "settling"
  /\ To(r, "done")
  /\ UNCHANGED <<thread, key, engine, scope, aborted, halts, awaited,
                 pool, alive, authority, held, life>>

-----------------------------------------------------------------------------
(* Stops: an interrupt, a revocation, an expired lease, the end of the     *)
(* Runner.  What still runs after the grace is ended.                      *)
Abort(r) ==
  /\ r \in Active \ aborted
  /\ aborted' = aborted \cup {r} /\ halts' = halts \cup {r}
  /\ UNCHANGED <<thread, key, stage, engine, scope, awaited, pool, alive, authority, held, life>>

Halt(r) ==
  /\ r \in halts
  /\ halts' = halts \ {r}
  /\ alive' \in {alive, alive \ {scope[r]}}
  /\ UNCHANGED <<thread, key, stage, engine, scope, aborted, awaited,
                 pool, authority, held, life>>

(* close: nothing is admitted from now on, and the Runs are stopped once   *)
(* the text in the background has been cancelled.                          *)
Drain ==
  /\ life = "open"
  /\ life' = "draining"
  /\ UNCHANGED <<run, pool, alive, authority, held>>

StopRuns ==
  /\ life = "draining"
  /\ life' = "stopping"
  /\ aborted' = aborted \cup Active
  /\ halts' = halts \cup (Active \ aborted)
  /\ UNCHANGED <<thread, key, stage, engine, scope, awaited, pool, alive, authority, held>>

(* close: the tasks of the Runs end first.                                 *)
Close ==
  /\ life = "stopping" /\ Active = {}
  /\ life' = "closed"
  /\ idle' = <<>> /\ RetireTracked(ToSet(idle))
  /\ UNCHANGED <<run, alive, authority, held>>

Steps(r) == Await(r) \/ Take(r) \/ Refused(r) \/ Kept(r) \/ Retired(r) \/ Settled(r)

Next ==
  \/ \E r \in Run : \/ Admit(r) \/ Discard(r) \/ Reuse(r) \/ Completes(r) \/ Keep(r)
                    \/ StartEngine(r) \/ Fails(r) \/ Steps(r) \/ Abort(r) \/ Halt(r)
  \/ \E e \in Engine : Expires(e) \/ RetireEnds(e)
  \/ \E t \in Thread : Contained(t)
  \/ Evict \/ Drain \/ StopRuns \/ Close

(* Awaited work ends: a termination is bounded by its grace periods.  A    *)
(* Run that is stopped ends; one that is not may run for ever.             *)
Fairness ==
  /\ \A r \in Run : WF_vars(Steps(r)) /\ WF_vars(Fails(r) /\ r \in aborted)
  /\ \A e \in Engine : WF_vars(RetireEnds(e))
  /\ WF_vars(StopRuns) /\ WF_vars(Close)

Spec == Init /\ [][Next]_vars
LiveSpec == Spec /\ Fairness

-----------------------------------------------------------------------------
(* Properties. *)

(* docs/agent-orchestration.md: a Thread's next engine starts only once    *)
(* the previous one is proven gone, whether it was idle, being retired or  *)
(* left behind; so put finds no other engine of its Thread.                *)
OneEnginePerThread ==
  /\ \A e, f \in alive : thread[e] = thread[f] => e = f
  /\ \A r \in Run : stage[r] = "keeping" => \A e \in ToSet(idle) : thread[e] # thread[r]

(* An engine carries the authority of the one Run that has it, and idle or *)
(* abandoned none (docs: "Idle engines have no authority").                *)
AuthorityIsTheRuns ==
  \A e \in Engine : authority[e] # None =>
    /\ engine[authority[e]] = e
    /\ stage[authority[e]] \in {"running", "keeping", "retiring"}
    /\ \A r \in Run : engine[r] = e => r = authority[e]

(* Once closed, nothing is kept, nor will be.                              *)
ClosedIsEmpty == life = "closed" => idle = <<>> /\ Active = {}

(* A Thread has one engine, which acts for one Run, until the pool closes. *)
EnginesSound == TypeOK /\ OneEnginePerThread /\ AuthorityIsTheRuns /\ ClosedIsEmpty

(* Nobody waits for ever for a retirement, and every Runner that drains    *)
(* closes.                                                                 *)
TakeEnds == \A r \in Run : stage[r] = "taking" ~> stage[r] # "taking"
DrainEnds == life = "draining" ~> life = "closed"

EnginesGo == TakeEnds /\ DrainEnds
=============================================================================
