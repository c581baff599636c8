------------------------ MODULE RunnerProcessProofs ------------------------
(***************************************************************************)
(* The engines of a Runner, the ledger of its commands and its inbox, for  *)
(* every number of Threads, Runs, commands, frames and reads, and for      *)
(* every bound on the engines, entries and frames it keeps: a Thread has   *)
(* one engine at a time, which acts for one Run at a time and, kept,       *)
(* retired or abandoned, for none; a command is answered once for all      *)
(* while its entry lasts; and the frames of a connection are read once and *)
(* in their turn, by the reads that want them.                             *)
(*                                                                         *)
(* EnginesSound is no invariant a step could rest on: that a Run starts    *)
(* its engine while no other of the Thread exists takes that whatever is   *)
(* idle, being retired, owned by a Run or left behind excludes the others, *)
(* Thread by Thread, and that a Run that awaited a retirement awaited the  *)
(* only one there is.  That is Engines.                                    *)
(***************************************************************************)
EXTENDS RunnerProcess, Subsequences, FiniteSetTheorems, SequenceTheorems,
        NaturalsInduction, WellFoundedInduction, TLAPS

-----------------------------------------------------------------------------
(* 1. What the pool does to the sequence of its engines. *)

(* What is behind the place that is cut out of a sequence moves up by one. *)
LEMMA CutAt ==
  ASSUME NEW S, NEW s \in Seq(S), NEW i \in 1..Len(s)
  PROVE  /\ RemoveAt(s, i) \in Seq(S) /\ Len(RemoveAt(s, i)) = Len(s) - 1
         /\ \A j \in 1..(Len(s) - 1) : RemoveAt(s, i)[j] = IF j < i THEN s[j] ELSE s[j + 1]
<1> DEFINE a == SubSeq(s, 1, i - 1)
           b == SubSeq(s, i + 1, Len(s))
           t == a \o b
<1>1. /\ Len(s) \in Nat /\ DOMAIN s = 1..Len(s)
      /\ \A j \in 1..Len(s) : s[j] \in S
  BY LenProperties, ElementOfSeq
<1>2. /\ a \in Seq(S) /\ Len(a) = i - 1
      /\ \A j \in 1..(i - 1) : a[j] = s[j]
  <2>1. i - 1 \in Int /\ 1 \in Int /\ \A j \in 1..(i - 1) : s[j] \in S
    BY <1>1
  <2>2. /\ a \in Seq(S) /\ Len(a) = IF 1 <= i - 1 THEN (i - 1) - 1 + 1 ELSE 0
        /\ \A j \in 1..((i - 1) - 1 + 1) : a[j] = s[1 + j - 1]
    BY <2>1, SubSeqProperties
  <2> HIDE DEF a
  <2>3. Len(a) = i - 1
    BY <1>1, <2>2
  <2>4. ASSUME NEW j \in 1..(i - 1) PROVE a[j] = s[j]
    <3>1. j \in 1..((i - 1) - 1 + 1) /\ 1 + j - 1 = j
      BY <1>1
    <3> QED
      BY <2>2, <3>1
  <2> QED
    BY <2>2, <2>3, <2>4
<1>3. /\ b \in Seq(S) /\ Len(b) = Len(s) - i
      /\ \A j \in 1..(Len(s) - i) : b[j] = s[i + j]
  <2>1. i + 1 \in Int /\ Len(s) \in Int /\ \A j \in (i + 1)..Len(s) : s[j] \in S
    BY <1>1
  <2>2. /\ b \in Seq(S) /\ Len(b) = IF i + 1 <= Len(s) THEN Len(s) - (i + 1) + 1 ELSE 0
        /\ \A j \in 1..(Len(s) - (i + 1) + 1) : b[j] = s[(i + 1) + j - 1]
    BY <2>1, SubSeqProperties
  <2> HIDE DEF b
  <2>3. Len(b) = Len(s) - i
    <3>1. Len(b) = IF i + 1 <= Len(s) THEN Len(s) - (i + 1) + 1 ELSE 0
      BY <2>2
    <3>2. Len(s) \in Nat
      BY <1>1
    <3> HIDE DEF a, t
    <3> QED
      BY <3>1, <3>2
  <2>4. ASSUME NEW j \in 1..(Len(s) - i) PROVE b[j] = s[i + j]
    <3>1. j \in 1..(Len(s) - (i + 1) + 1) /\ (i + 1) + j - 1 = i + j
      BY <1>1
    <3> QED
      BY <2>2, <3>1
  <2> QED
    BY <2>2, <2>3, <2>4
<1> HIDE DEF a, b
<1>4. /\ t \in Seq(S) /\ Len(t) = Len(a) + Len(b)
      /\ \A j \in 1..(Len(a) + Len(b)) : t[j] = IF j <= Len(a) THEN a[j] ELSE b[j - Len(a)]
  BY <1>2, <1>3, ConcatProperties
<1> HIDE DEF t
<1>5. Len(t) = Len(s) - 1 /\ DOMAIN t = 1..(Len(s) - 1)
  BY <1>1, <1>2, <1>3, <1>4, LenProperties
<1>6. \A j \in 1..(Len(s) - 1) : t[j] = IF j < i THEN s[j] ELSE s[j + 1]
  <2> SUFFICES ASSUME NEW j \in 1..(Len(s) - 1)
               PROVE  t[j] = IF j < i THEN s[j] ELSE s[j + 1]
    OBVIOUS
  <2>1. t[j] = IF j <= i - 1 THEN a[j] ELSE b[j - (i - 1)]
    BY <1>1, <1>2, <1>3, <1>4
  <2>2. CASE j < i
    BY <1>1, <1>2, <2>1, <2>2
  <2>3. CASE ~(j < i)
    <3>1. j - (i - 1) \in 1..(Len(s) - i) /\ i + (j - (i - 1)) = j + 1
      BY <1>1, <2>3
    <3> QED
      BY <1>1, <1>3, <2>1, <2>3, <3>1
  <2> QED
    BY <2>2, <2>3
<1>7. RemoveAt(s, i) = t
  BY DEF RemoveAt, t, a, b
<1> QED
  BY <1>4, <1>5, <1>6, <1>7

(* An element that is cut out of a sequence without repetitions is gone    *)
(* from it, and it alone.                                                  *)
LEMMA Cut ==
  ASSUME NEW S, NEW s \in Seq(S), IsInjective(s), NEW i \in 1..Len(s)
  PROVE  /\ RemoveAt(s, i) \in Seq(S) /\ IsInjective(RemoveAt(s, i))
         /\ Len(RemoveAt(s, i)) = Len(s) - 1
         /\ ToSet(RemoveAt(s, i)) = ToSet(s) \ {s[i]}
<1> DEFINE t == RemoveAt(s, i)
<1>1. /\ Len(s) \in Nat /\ DOMAIN s = 1..Len(s)
      /\ \A j \in 1..Len(s) : s[j] \in S
  BY LenProperties, ElementOfSeq
<1>2. t \in Seq(S) /\ Len(t) = Len(s) - 1 /\ DOMAIN t = 1..(Len(s) - 1)
  BY <1>1, CutAt, LenProperties
<1>3. \A j \in 1..(Len(s) - 1) : t[j] = IF j < i THEN s[j] ELSE s[j + 1]
  BY CutAt
<1> HIDE DEF t
<1>4. \A j, k \in 1..Len(s) : s[j] = s[k] => j = k
  BY <1>1 DEF IsInjective
<1>5. IsInjective(t)
  BY <1>1, <1>2, <1>3, <1>4 DEF IsInjective
<1>6. ToSet(t) = ToSet(s) \ {s[i]}
  <2>1. ASSUME NEW x \in ToSet(t) PROVE x \in ToSet(s) \ {s[i]}
    <3>1. PICK j \in 1..(Len(s) - 1) : x = t[j]
      BY <1>2, <2>1 DEF ToSet
    <3> QED
      BY <1>1, <1>3, <1>4, <3>1 DEF ToSet
  <2>2. ASSUME NEW x \in ToSet(s), x # s[i] PROVE x \in ToSet(t)
    <3>1. PICK j \in 1..Len(s) : x = s[j]
      BY <1>1, <2>2 DEF ToSet
    <3>2. CASE j < i
      BY <1>1, <1>2, <1>3, <3>1, <3>2 DEF ToSet
    <3>3. CASE j > i
      <4>1. j - 1 \in 1..(Len(s) - 1) /\ ~(j - 1 < i) /\ (j - 1) + 1 = j
        BY <1>1, <3>3
      <4>2. t[j - 1] = x
        BY <1>3, <3>1, <4>1
      <4> QED
        BY <1>2, <4>1, <4>2 DEF ToSet
    <3> QED
      BY <1>1, <2>2, <3>1, <3>2, <3>3
  <2> QED
    BY <2>1, <2>2
<1> QED
  BY <1>2, <1>5, <1>6 DEF t

(* The first element makes room. *)
LEMMA Behead ==
  ASSUME NEW S, NEW s \in Seq(S), IsInjective(s), s # <<>>
  PROVE  /\ Tail(s) \in Seq(S) /\ IsInjective(Tail(s)) /\ Len(Tail(s)) = Len(s) - 1
         /\ Head(s) \in ToSet(s) /\ ToSet(Tail(s)) = ToSet(s) \ {Head(s)}
<1>1. /\ Tail(s) \in Seq(S) /\ Len(Tail(s)) = Len(s) - 1
      /\ \A j \in 1..Len(Tail(s)) : Tail(s)[j] = s[j + 1]
  BY HeadTailProperties
<1>2. Len(s) \in Nat \ {0} /\ DOMAIN s = 1..Len(s) /\ Head(s) = s[1]
  BY EmptySeq, LenProperties
<1>3. DOMAIN Tail(s) = 1..(Len(s) - 1)
  BY <1>1, LenProperties
<1>4. \A j, k \in 1..Len(s) : s[j] = s[k] => j = k
  BY <1>2 DEF IsInjective
<1> DEFINE t == Tail(s)
<1>5. t \in Seq(S) /\ DOMAIN t = 1..(Len(s) - 1) /\ \A j \in 1..(Len(s) - 1) : t[j] = s[j + 1]
  BY <1>1, <1>3
<1> HIDE DEF t
<1>6. IsInjective(t)
  BY <1>2, <1>4, <1>5 DEF IsInjective
<1>7. ASSUME NEW x \in ToSet(t) PROVE x \in ToSet(s) \ {s[1]}
  <2>1. PICK j \in 1..(Len(s) - 1) : x = t[j]
    BY <1>5, <1>7 DEF ToSet
  <2>2. j + 1 \in 1..Len(s) /\ 1 \in 1..Len(s) /\ j + 1 # 1
    BY <1>2
  <2> QED
    BY <1>2, <1>4, <1>5, <2>1, <2>2 DEF ToSet
<1>8. ASSUME NEW x \in ToSet(s), x # s[1] PROVE x \in ToSet(t)
  <2>1. PICK j \in 1..Len(s) : x = s[j]
    BY <1>2, <1>8 DEF ToSet
  <2>2. j - 1 \in 1..(Len(s) - 1) /\ (j - 1) + 1 = j
    BY <1>2, <1>8, <2>1
  <2>3. t[j - 1] = x
    BY <1>5, <2>1, <2>2
  <2> QED
    BY <1>5, <2>2, <2>3 DEF ToSet
<1>9. ToSet(t) = ToSet(s) \ {s[1]}
  BY <1>7, <1>8
<1>10. s[1] \in ToSet(s)
  BY <1>2 DEF ToSet
<1> QED
  BY <1>1, <1>2, <1>6, <1>9, <1>10 DEF t

(* What is new is put last. *)
LEMMA Added ==
  ASSUME NEW S, NEW s \in Seq(S), IsInjective(s), NEW e \in S, e \notin ToSet(s)
  PROVE  /\ Append(s, e) \in Seq(S) /\ IsInjective(Append(s, e))
         /\ Len(Append(s, e)) = Len(s) + 1
         /\ ToSet(Append(s, e)) = ToSet(s) \cup {e}
<1> DEFINE t == Append(s, e)
<1>1. Len(s) \in Nat /\ DOMAIN s = 1..Len(s)
  BY LenProperties
<1>2. /\ t \in Seq(S) /\ Len(t) = Len(s) + 1
      /\ \A j \in 1..Len(s) : t[j] = s[j]
      /\ t[Len(s) + 1] = e
  BY AppendProperties
<1>3. DOMAIN t = 1..(Len(s) + 1)
  BY <1>2, LenProperties
<1> HIDE DEF t
<1>4. \A j \in 1..Len(s) : s[j] # e
  BY <1>1 DEF ToSet
<1>5. \A j, k \in 1..Len(s) : s[j] = s[k] => j = k
  BY <1>1 DEF IsInjective
<1>6. \A j \in 1..(Len(s) + 1) : j \in 1..Len(s) \/ j = Len(s) + 1
  BY <1>1
<1>7. IsInjective(t)
  BY <1>2, <1>3, <1>4, <1>5, <1>6 DEF IsInjective
<1>8. ToSet(t) = ToSet(s) \cup {e}
  <2>1. ASSUME NEW x \in ToSet(t) PROVE x \in ToSet(s) \cup {e}
    <3>1. PICK j \in 1..(Len(s) + 1) : x = t[j]
      BY <1>3, <2>1 DEF ToSet
    <3> QED
      BY <1>1, <1>2, <1>6, <3>1 DEF ToSet
  <2>2. ASSUME NEW x \in ToSet(s) PROVE x \in ToSet(t)
    <3>1. PICK j \in 1..Len(s) : x = s[j]
      BY <1>1, <2>2 DEF ToSet
    <3> QED
      BY <1>1, <1>2, <1>3, <3>1 DEF ToSet
  <2>3. e \in ToSet(t)
    BY <1>1, <1>2, <1>3 DEF ToSet
  <2> QED
    BY <2>1, <2>2, <2>3
<1> QED
  BY <1>2, <1>7, <1>8 DEF t

LEMMA NoneKept ==
  ASSUME NEW S
  PROVE  /\ <<>> \in Seq(S) /\ IsInjective(<<>>) /\ Len(<<>>) = 0 /\ ToSet(<<>>) = {}
<1>1. <<>> \in Seq(S) /\ Len(<<>>) = 0
  BY EmptySeq
<1>2. DOMAIN <<>> = 1..Len(<<>>)
  BY <1>1, LenProperties
<1>3. DOMAIN <<>> = {}
  BY <1>1, <1>2
<1> QED
  BY <1>1, <1>3 DEF IsInjective, ToSet

-----------------------------------------------------------------------------
(* 2. The invariant. *)

(* The stages of a Run that has, or may have, an engine.                   *)
Holding == {"taken", "running", "keeping", "retiring"}
Pooled == ToSet(idle) \cup retiring

(* A Thread has one Run at a time, and a Run an engine of its Thread.      *)
RunsOK ==
  /\ \A r, s \in Active : thread[r] = thread[s] => r = s
  /\ \A r \in Run : engine[r] # None => stage[r] \in Holding /\ thread[engine[r]] = thread[r]
  /\ \A r \in Run : stage[r] \in {"running", "keeping", "retiring"} => engine[r] # None

(* The pool has one engine of a Thread, and none while a Run may have it.  *)
(* A Run that awaits a retirement awaits the only one there is.            *)
PoolOK ==
  /\ \A e, f \in Pooled : thread[e] = thread[f] => e = f
  /\ \A e \in ToSet(idle) : e \notin retiring
  /\ \A e \in retiring : tracked[thread[e]] = e
  /\ \A t \in Thread : tracked[t] # None => tracked[t] \in retiring /\ thread[tracked[t]] = t
  /\ \A r \in Run, e \in Pooled : thread[e] = thread[r] =>
       /\ stage[r] \notin Holding
       /\ stage[r] = "taking" /\ awaited[r] # None => e = awaited[r] /\ e \in retiring

(* A Thread that is held has no other engine.                              *)
HeldOK ==
  \A t \in Thread : held[t] # None =>
    /\ thread[held[t]] = t
    /\ \A e \in Pooled : thread[e] # t
    /\ \A r \in Run : thread[r] = t => engine[r] = None

(* An engine some process of which exists is somebody's.                   *)
AliveOK ==
  \A e \in alive : e \in Pooled \/ (\E r \in Run : engine[r] = e) \/ held[thread[e]] = e

Engines ==
  TypeOK /\ RunsOK /\ PoolOK /\ HeldOK /\ AliveOK /\ AuthorityIsTheRuns /\ ClosedIsEmpty

(* What exists of a Thread is in one place, so that it is one engine.      *)
LEMMA EnginesSuffice == Engines => EnginesSound
<1> SUFFICES ASSUME Engines PROVE OneEnginePerThread
  BY DEF Engines, EnginesSound
<1> USE DEF Engines
<1>1. ASSUME NEW e \in alive, NEW f \in alive, thread[e] = thread[f] PROVE e = f
  <2>1. e \in Engine /\ f \in Engine /\ thread[e] \in Thread
    BY DEF TypeOK, Engine
  <2>2. /\ \A r, s \in Run : engine[r] # None /\ engine[s] # None /\ thread[r] = thread[s] => r = s
        /\ \A r \in Run : engine[r] # None => thread[engine[r]] = thread[r]
        /\ \A r \in Run : engine[r] # None => stage[r] \in Holding
    BY DEF RunsOK, Active, Holding
  <2>3. \A d \in Engine : d # None
    BY WarmAssumption DEF Engine, Run, None
  <2>4. CASE e \in Pooled
    BY <1>1, <2>1, <2>2, <2>3, <2>4 DEF PoolOK, HeldOK, AliveOK
  <2>5. CASE \E r \in Run : engine[r] = e
    BY <1>1, <2>1, <2>2, <2>3, <2>5 DEF PoolOK, HeldOK, AliveOK
  <2>6. CASE held[thread[e]] = e
    BY <1>1, <2>1, <2>2, <2>3, <2>6 DEF PoolOK, HeldOK, AliveOK
  <2> QED
    BY <2>4, <2>5, <2>6 DEF AliveOK
<1>2. ASSUME NEW r \in Run, stage[r] = "keeping", NEW e \in ToSet(idle)
      PROVE  thread[e] # thread[r]
  BY <1>2 DEF PoolOK, Pooled, Holding
<1> QED
  BY <1>1, <1>2 DEF OneEnginePerThread

LEMMA PoolTyped == ASSUME TypeOK PROVE ToSet(idle) \subseteq Engine
<1>1. idle \in Seq(Engine)
  BY DEF TypeOK
<1>2. \A i \in DOMAIN idle : idle[i] \in Engine
  BY <1>1, LenProperties, ElementOfSeq
<1> QED
  BY <1>2 DEF ToSet

(* The engine that a step names, and no other, leaves the pool.            *)
LEMMA Removed ==
  ASSUME TypeOK, NEW e \in ToSet(idle)
  PROVE  /\ Without(e) \in Seq(Engine) /\ IsInjective(Without(e))
         /\ Len(Without(e)) <= MaxIdle
         /\ ToSet(Without(e)) = ToSet(idle) \ {e}
<1> DEFINE i == CHOOSE i \in DOMAIN idle : idle[i] = e
<1>1. idle \in Seq(Engine) /\ IsInjective(idle) /\ Len(idle) <= MaxIdle
  BY DEF TypeOK
<1>2. DOMAIN idle = 1..Len(idle) /\ Len(idle) \in Nat /\ MaxIdle \in Nat
  BY <1>1, LenProperties, WarmAssumption
<1>3. \E j \in DOMAIN idle : idle[j] = e
  BY DEF ToSet
<1>4. i \in DOMAIN idle /\ idle[i] = e
  BY <1>3
<1> HIDE DEF i
<1>5. /\ RemoveAt(idle, i) \in Seq(Engine) /\ IsInjective(RemoveAt(idle, i))
      /\ Len(RemoveAt(idle, i)) = Len(idle) - 1
      /\ ToSet(RemoveAt(idle, i)) = ToSet(idle) \ {idle[i]}
  BY <1>1, <1>2, <1>4, Cut
<1>6. Without(e) = RemoveAt(idle, i)
  BY DEF Without, i
<1> QED
  BY <1>1, <1>2, <1>4, <1>5, <1>6

LEMMA EnginesInit == Init => Engines
<1> SUFFICES ASSUME Init PROVE Engines
  OBVIOUS
<1>1. ToSet(idle) = {} /\ idle \in Seq(Engine) /\ IsInjective(idle) /\ Len(idle) = 0
  BY NoneKept DEF Init
<1>2. TypeOK
  BY <1>1, WarmAssumption DEF Init, TypeOK, Engine, Run, None
<1>3. Pooled = {} /\ Active = {}
  BY <1>1 DEF Init, Pooled, Active
<1>4. RunsOK /\ PoolOK /\ HeldOK /\ AliveOK
  BY <1>1, <1>3 DEF Init, RunsOK, PoolOK, HeldOK, AliveOK
<1>5. AuthorityIsTheRuns /\ ClosedIsEmpty
  BY DEF Init, AuthorityIsTheRuns, ClosedIsEmpty
<1> QED
  BY <1>2, <1>4, <1>5 DEF Engines

LEMMA EnginesStutter == Engines /\ UNCHANGED vars => Engines'
  BY DEF Engines, vars, run, pool, TypeOK, RunsOK, PoolOK, HeldOK, AliveOK, Pooled, Active,
         AuthorityIsTheRuns, ClosedIsEmpty

-----------------------------------------------------------------------------
(* 3. The steps of a Run. *)

(* The parts of Engines that do not type the variables.                    *)
Places == RunsOK /\ PoolOK /\ HeldOK /\ AliveOK /\ AuthorityIsTheRuns

Acting == {"running", "keeping", "retiring"}

(* A Run goes on with what it has.                                         *)
LEMMA Moves ==
  ASSUME Engines, NEW r \in Run, NEW s,
         stage[r] \notin {"new", "done"}, s \notin {"new", "taking"},
         s \in Holding => stage[r] \in Holding,
         engine[r] # None <=> s \in Acting, s # "taken",
         To(r, s), \A q \in Run : q # r => awaited'[q] = awaited[q],
         UNCHANGED <<thread, engine, idle, retiring, tracked, alive, authority, held>>
  PROVE  Places'
<1> USE DEF Engines
<1>1. stage'[r] = s /\ \A q \in Run : q # r => stage'[q] = stage[q]
  BY DEF TypeOK, To
<1>2. Pooled' = Pooled /\ ToSet(idle)' = ToSet(idle)
  BY DEF Pooled
<1>3. \A q \in Active' : q \in Active
  BY <1>1 DEF Active
<1>4. \A q \in Run : stage'[q] \in Holding => stage[q] \in Holding
  BY <1>1
<1>5. \A q \in Run : stage'[q] = "taking" => stage[q] = "taking" /\ q # r
  BY <1>1
<1>6. RunsOK'
  <2>1. \A q, p \in Active' : thread'[q] = thread'[p] => q = p
    BY <1>3 DEF RunsOK
  <2>2. \A q \in Run : engine'[q] # None => stage'[q] \in Holding /\ thread'[engine'[q]] = thread'[q]
    BY <1>1 DEF RunsOK, Acting, Holding
  <2>3. \A q \in Run : stage'[q] \in {"running", "keeping", "retiring"} => engine'[q] # None
    BY <1>1 DEF RunsOK, Acting
  <2> QED
    BY <2>1, <2>2, <2>3 DEF RunsOK
<1>7. PoolOK'
  <2>1. \A q \in Run, e \in Pooled : thread[e] = thread[q] =>
          /\ stage'[q] \notin Holding
          /\ stage'[q] = "taking" /\ awaited'[q] # None => e = awaited'[q] /\ e \in retiring
    BY <1>4, <1>5 DEF PoolOK
  <2> QED
    BY <1>2, <2>1 DEF PoolOK
<1>8. HeldOK' /\ AliveOK'
  BY <1>2 DEF HeldOK, AliveOK
<1>9. AuthorityIsTheRuns'
  <2> SUFFICES ASSUME NEW e \in Engine, authority[e] # None
               PROVE  /\ engine[authority[e]] = e
                      /\ stage'[authority[e]] \in {"running", "keeping", "retiring"}
                      /\ \A q \in Run : engine[q] = e => q = authority[e]
    BY DEF AuthorityIsTheRuns
  <2>1. e # None /\ authority[e] \in Run
    BY WarmAssumption DEF TypeOK, Engine, Run, None
  <2> QED
    BY <1>1, <2>1 DEF AuthorityIsTheRuns, Acting
<1> QED
  BY <1>6, <1>7, <1>8, <1>9 DEF Places

(* A Run ends its engine: its processes are gone, or the Thread is held.   *)
LEMMA Leaves ==
  ASSUME Engines, NEW r \in Run, NEW s, NEW proven \in BOOLEAN,
         engine[r] # None, stage[r] \in Holding,
         \/ stage[r] = "taken" /\ s = "taken"
         \/ stage[r] = "retiring" /\ s = "settling",
         engine[r] \notin alive => proven, Gone(engine[r], proven),
         stage' = [stage EXCEPT ![r] = s], engine' = [engine EXCEPT ![r] = None],
         UNCHANGED <<thread, awaited, idle, retiring, tracked>>
  PROVE  Places'
<1> USE DEF Engines
<1> DEFINE d == engine[r]
<1>1. /\ stage'[r] = s /\ \A q \in Run : q # r => stage'[q] = stage[q]
      /\ engine'[r] = None /\ \A q \in Run : q # r => engine'[q] = engine[q]
  BY DEF TypeOK
<1>2. Pooled' = Pooled /\ ToSet(idle)' = ToSet(idle)
  BY DEF Pooled
<1>3. /\ d \in Engine /\ d \in Run /\ thread[d] = thread[r] /\ thread[r] \in Thread
      /\ r \in Active
  BY DEF TypeOK, RunsOK, Engine, Active, Holding
<1>4. \A q \in Run : q # r /\ engine[q] # None => thread[q] # thread[r]
  BY <1>3 DEF RunsOK, Active, Holding
<1>5. \A e \in Pooled : thread[e] # thread[r]
  BY DEF PoolOK
<1>6. held[thread[r]] = None
  BY <1>3 DEF HeldOK
<1>7. \A e \in alive' : e \in alive /\ (proven => e # d)
  BY DEF Gone
<1>8. /\ \A t \in Thread : t # thread[r] => held'[t] = held[t]
      /\ proven => held' = held
      /\ ~proven => held'[thread[r]] = d
  BY <1>3 DEF Gone, TypeOK
<1>9. authority'[d] = None /\ \A e \in Engine : e # d => authority'[e] = authority[e]
  BY <1>3 DEF Gone, TypeOK
<1> HIDE DEF d
<1>10. RunsOK'
  <2>1. \A q \in Active' : q \in Active
    BY <1>1 DEF Active, Holding
  <2>2. \A q, p \in Active' : thread'[q] = thread'[p] => q = p
    BY <2>1 DEF RunsOK
  <2>3. \A q \in Run : engine'[q] # None => stage'[q] \in Holding /\ thread'[engine'[q]] = thread'[q]
    BY <1>1 DEF RunsOK
  <2>4. \A q \in Run : stage'[q] \in {"running", "keeping", "retiring"} => engine'[q] # None
    BY <1>1 DEF RunsOK
  <2> QED
    BY <2>2, <2>3, <2>4 DEF RunsOK
<1>11. PoolOK'
  <2>1. \A q \in Run, e \in Pooled : thread[e] = thread[q] =>
          /\ stage'[q] \notin Holding
          /\ stage'[q] = "taking" /\ awaited'[q] # None => e = awaited'[q] /\ e \in retiring
    BY <1>1, <1>5 DEF PoolOK
  <2> QED
    BY <1>2, <2>1 DEF PoolOK
<1>12. HeldOK'
  <2> SUFFICES ASSUME NEW t \in Thread, held'[t] # None
               PROVE  /\ thread[held'[t]] = t
                      /\ \A e \in Pooled : thread[e] # t
                      /\ \A q \in Run : thread[q] = t => engine'[q] = None
    BY <1>2 DEF HeldOK
  <2>1. CASE t = thread[r]
    BY <1>1, <1>3, <1>4, <1>5, <1>6, <1>8, <2>1
  <2>2. CASE t # thread[r]
    BY <1>1, <1>8, <2>2 DEF HeldOK
  <2> QED
    BY <2>1, <2>2
<1>13. AliveOK'
  <2> SUFFICES ASSUME NEW e \in alive', e \notin Pooled, held'[thread[e]] # e
               PROVE  \E q \in Run : engine'[q] = e
    BY <1>2 DEF AliveOK
  <2>1. /\ e \in alive /\ e \in Engine /\ thread[e] \in Thread /\ e # None
    <3>1. e \in alive
      BY <1>7
    <3>2. e \in Engine /\ thread[e] \in Thread
      BY <3>1 DEF TypeOK, Engine
    <3> QED
      BY <3>1, <3>2, WarmAssumption DEF Engine, Run, None
  <2>2. e # d
    BY <1>3, <1>7, <1>8
  <2>3. held[thread[e]] # e
    BY <1>6, <1>8, <2>1
  <2> QED
    BY <1>1, <2>1, <2>2, <2>3 DEF AliveOK, d
<1>14. AuthorityIsTheRuns'
  <2> SUFFICES ASSUME NEW e \in Engine, authority'[e] # None
               PROVE  /\ engine'[authority'[e]] = e
                      /\ stage'[authority'[e]] \in {"running", "keeping", "retiring"}
                      /\ \A q \in Run : engine'[q] = e => q = authority'[e]
    BY DEF AuthorityIsTheRuns
  <2>1. e # None /\ e # d /\ authority'[e] = authority[e]
    BY <1>9, WarmAssumption DEF Engine, Run, None
  <2>2. authority[e] \in Run /\ engine[authority[e]] = e
    BY <2>1 DEF TypeOK, AuthorityIsTheRuns
  <2>3. authority[e] # r
    BY <2>1, <2>2 DEF d
  <2> QED
    BY <1>1, <2>1, <2>2, <2>3 DEF AuthorityIsTheRuns
<1> QED
  BY <1>10, <1>11, <1>12, <1>13, <1>14 DEF Places

LEMMA GoneTyped ==
  ASSUME TypeOK, NEW e \in Engine, NEW proven \in BOOLEAN, Gone(e, proven)
  PROVE  /\ alive' \subseteq Engine /\ authority' \in [Engine -> Run \cup {None}]
         /\ held' \in [Thread -> Engine \cup {None}]
  BY DEF Gone, TypeOK, Engine

(* A step that moves no Run and no engine, and after which no more engines *)
(* exist.                                                                  *)
LEMMA Rests ==
  ASSUME Engines, alive' \subseteq alive,
         UNCHANGED <<thread, stage, engine, awaited, idle, retiring, tracked, authority, held>>
  PROVE  Places'
<1>1. Pooled' = Pooled /\ Active' = Active
  BY DEF Pooled, Active
<1>2. RunsOK' /\ PoolOK' /\ HeldOK' /\ AuthorityIsTheRuns'
  BY <1>1 DEF Engines, RunsOK, PoolOK, HeldOK, AuthorityIsTheRuns
<1>3. AliveOK'
  BY <1>1 DEF Engines, AliveOK
<1> QED
  BY <1>2, <1>3 DEF Places

(* Nothing is admitted, nor kept, once the pool is closed.                 *)
LEMMA StaysClosed ==
  ASSUME Engines, life' = life, life # "closed" \/ (idle' = idle /\ Active' = Active)
  PROVE  ClosedIsEmpty'
  BY DEF Engines, ClosedIsEmpty

LEMMA OpenWhileActive ==
  ASSUME Engines, NEW r \in Active PROVE life # "closed"
  BY DEF Engines, ClosedIsEmpty

LEMMA Whole ==
  ASSUME TypeOK', Places', ClosedIsEmpty' PROVE Engines'
  BY DEF Places, Engines

LEMMA CompletesHolds == ASSUME Engines, NEW r \in Run, Completes(r) PROVE Engines'
<1>1. TypeOK'
  BY DEF Engines, TypeOK, Completes, To, pool, Engine
<1>2. Places'
  <2>1. engine[r] # None <=> "keeping" \in Acting
    BY DEF Engines, Completes, RunsOK, Acting, Holding
  <2>2. To(r, "keeping") /\ \A q \in Run : q # r => awaited'[q] = awaited[q]
    BY DEF Completes, Engines, TypeOK
  <2> QED
    BY <2>1, <2>2, Moves DEF Completes, pool, Acting, Holding
<1>3. ClosedIsEmpty'
  BY OpenWhileActive, StaysClosed DEF Completes, Active
<1> QED
  BY <1>1, <1>2, <1>3, Whole

LEMMA RefusedHolds == ASSUME Engines, NEW r \in Run, Refused(r) PROVE Engines'
<1>1. TypeOK'
  BY DEF Engines, TypeOK, Refused, To, pool, Engine
<1>2. Places'
  <2>1. engine[r] # None <=> "retiring" \in Acting
    BY DEF Engines, Refused, RunsOK, Acting, Holding
  <2>2. To(r, "retiring") /\ \A q \in Run : q # r => awaited'[q] = awaited[q]
    BY DEF Refused, Engines, TypeOK
  <2> QED
    BY <2>1, <2>2, Moves DEF Refused, pool, Acting, Holding
<1>3. ClosedIsEmpty'
  BY OpenWhileActive, StaysClosed DEF Refused, Active
<1> QED
  BY <1>1, <1>2, <1>3, Whole

LEMMA SettledHolds == ASSUME Engines, NEW r \in Run, Settled(r) PROVE Engines'
<1>1. TypeOK'
  BY DEF Engines, TypeOK, Settled, To, pool, Engine
<1>2. Places'
  <2>1. engine[r] # None <=> "done" \in Acting
    BY DEF Engines, Settled, RunsOK, Acting, Holding
  <2>2. To(r, "done") /\ \A q \in Run : q # r => awaited'[q] = awaited[q]
    BY DEF Settled, Engines, TypeOK
  <2> QED
    BY <2>1, <2>2, Moves DEF Settled, pool, Acting, Holding
<1>3. ClosedIsEmpty'
  BY OpenWhileActive, StaysClosed DEF Settled, Active
<1> QED
  BY <1>1, <1>2, <1>3, Whole

LEMMA KeptHolds == ASSUME Engines, NEW r \in Run, Kept(r) PROVE Engines'
<1>1. TypeOK'
  BY DEF Engines, TypeOK, Kept, To, pool, Engine
<1>2. Places'
  <2>1. engine[r] # None <=> "settling" \in Acting
    BY DEF Engines, Kept, RunsOK, Acting, Holding
  <2>2. To(r, "settling") /\ \A q \in Run : q # r => awaited'[q] = awaited[q]
    BY DEF Kept, Engines, TypeOK
  <2> QED
    BY <2>1, <2>2, Moves DEF Kept, pool, Acting, Holding
<1>3. ClosedIsEmpty'
  BY OpenWhileActive, StaysClosed DEF Kept, Active
<1> QED
  BY <1>1, <1>2, <1>3, Whole

LEMMA FailsHolds == ASSUME Engines, NEW r \in Run, Fails(r) PROVE Engines'
<1>1. TypeOK'
  BY DEF Engines, TypeOK, Fails, To, pool, Engine
<1>2. Places'
  <2> DEFINE s == IF engine[r] = None THEN "settling" ELSE "retiring"
  <2>1. engine[r] # None <=> s \in Acting
    BY DEF Acting
  <2>2. s \notin {"new", "taking", "taken"} /\ stage[r] \in Holding \cup {"taking"}
    BY DEF Fails, Holding
  <2>3. stage[r] = "taking" => engine[r] = None /\ s = "settling"
    BY DEF Engines, RunsOK, Holding
  <2>4. To(r, s)
    BY DEF Fails
  <2> HIDE DEF s
  <2> QED
    BY <2>1, <2>2, <2>3, <2>4, Moves DEF Fails, pool, Holding
<1>3. ClosedIsEmpty'
  BY OpenWhileActive, StaysClosed DEF Fails, Active
<1> QED
  BY <1>1, <1>2, <1>3, Whole

LEMMA AbortHolds == ASSUME Engines, NEW r \in Run, Abort(r) PROVE Engines'
<1>1. TypeOK'
  BY DEF Engines, TypeOK, Abort, To, pool, Engine
<1>2. Places'
  BY Rests DEF Abort, pool
<1>3. ClosedIsEmpty'
  BY OpenWhileActive, StaysClosed DEF Abort, Active
<1> QED
  BY <1>1, <1>2, <1>3, Whole

LEMMA HaltHolds == ASSUME Engines, NEW r \in Run, Halt(r) PROVE Engines'
<1>1. TypeOK'
  BY DEF Engines, TypeOK, Halt, To, pool, Engine
<1>2. Places'
  BY Rests DEF Halt, pool
<1>3. ClosedIsEmpty'
  BY StaysClosed DEF Halt, pool, Active
<1> QED
  BY <1>1, <1>2, <1>3, Whole

LEMMA DiscardHolds == ASSUME Engines, NEW r \in Run, Discard(r) PROVE Engines'
<1>1. stage[r] = "taken" /\ engine[r] # None /\ engine[r] \in Engine
  BY DEF Engines, TypeOK, RunsOK, Discard
<1>2. PICK proven \in BOOLEAN :
        (engine[r] \notin alive => proven) /\ Gone(engine[r], proven)
  BY DEF Discard
<1>3. TypeOK'
  <2>1. /\ alive' \subseteq Engine /\ authority' \in [Engine -> Run \cup {None}]
        /\ held' \in [Thread -> Engine \cup {None}]
    BY <1>1, <1>2, GoneTyped DEF Engines
  <2> QED
    BY <2>1 DEF Engines, TypeOK, Discard, To, pool
<1>4. Places'
  <2>1. stage' = [stage EXCEPT ![r] = "taken"]
    BY DEF Engines, TypeOK, Discard
  <2> QED
    BY <1>1, <1>2, <2>1, Leaves DEF Discard, pool, Holding
<1>5. ClosedIsEmpty'
  BY <1>1, OpenWhileActive, StaysClosed DEF Discard, Active
<1> QED
  BY <1>3, <1>4, <1>5, Whole

LEMMA RetiredHolds == ASSUME Engines, NEW r \in Run, Retired(r) PROVE Engines'
<1>1. stage[r] = "retiring" /\ engine[r] # None /\ engine[r] \in Engine
  BY DEF Engines, TypeOK, RunsOK, Retired
<1>2. PICK proven \in BOOLEAN :
        (engine[r] \notin alive => proven) /\ Gone(engine[r], proven)
  BY DEF Retired
<1>3. TypeOK'
  <2>1. /\ alive' \subseteq Engine /\ authority' \in [Engine -> Run \cup {None}]
        /\ held' \in [Thread -> Engine \cup {None}]
    BY <1>1, <1>2, GoneTyped DEF Engines
  <2> QED
    BY <2>1 DEF Engines, TypeOK, Retired, To, pool
<1>4. Places'
  <2>1. stage' = [stage EXCEPT ![r] = "settling"]
    BY DEF Retired, To
  <2> QED
    BY <1>1, <1>2, <2>1, Leaves DEF Retired, pool, Holding
<1>5. ClosedIsEmpty'
  BY <1>1, OpenWhileActive, StaysClosed DEF Retired, Active
<1> QED
  BY <1>3, <1>4, <1>5, Whole

(* A Thread that is free and not held takes its next Run, which may find   *)
(* an engine in the pool.                                                  *)
LEMMA AdmitHolds == ASSUME Engines, NEW r \in Run, Admit(r) PROVE Engines'
<1> USE DEF Engines
<1>1. /\ stage'[r] = "taking" /\ \A q \in Run : q # r => stage'[q] = stage[q]
      /\ awaited'[r] = None /\ \A q \in Run : q # r => awaited'[q] = awaited[q]
      /\ stage[r] = "new" /\ engine[r] = None
  BY DEF Admit, To, TypeOK, RunsOK, Holding
<1>2. UNCHANGED <<thread, engine, idle, retiring, tracked, alive, authority, held>>
  BY DEF Admit, pool
<1>3. Pooled' = Pooled /\ ToSet(idle)' = ToSet(idle)
  BY <1>2 DEF Pooled
<1>4. TypeOK'
  BY DEF TypeOK, Admit, To, pool
<1>5. RunsOK'
  <2>1. \A q \in Active' : q \in Active \/ q = r
    BY <1>1 DEF Active
  <2>2. \A q \in Active : thread[q] # thread[r]
    BY DEF Admit
  <2>3. \A q, p \in Active' : thread'[q] = thread'[p] => q = p
    BY <1>2, <2>1, <2>2 DEF RunsOK
  <2>4. \A q \in Run : engine'[q] # None => stage'[q] \in Holding /\ thread'[engine'[q]] = thread'[q]
    BY <1>1, <1>2 DEF RunsOK
  <2>5. \A q \in Run : stage'[q] \in {"running", "keeping", "retiring"} => engine'[q] # None
    BY <1>1, <1>2 DEF RunsOK
  <2> QED
    BY <2>3, <2>4, <2>5 DEF RunsOK
<1>6. PoolOK'
  <2>1. \A q \in Run, e \in Pooled : thread[e] = thread[q] =>
          /\ stage'[q] \notin Holding
          /\ stage'[q] = "taking" /\ awaited'[q] # None => e = awaited'[q] /\ e \in retiring
    BY <1>1 DEF PoolOK, Holding
  <2> QED
    BY <1>2, <1>3, <2>1 DEF PoolOK
<1>7. HeldOK' /\ AliveOK'
  BY <1>2, <1>3 DEF HeldOK, AliveOK
<1>8. AuthorityIsTheRuns'
  <2>1. \A e \in Engine : authority[e] # None => authority[e] \in Run
    BY DEF TypeOK
  <2> QED
    BY <1>1, <1>2, <2>1 DEF AuthorityIsTheRuns
<1>9. ClosedIsEmpty'
  BY DEF Admit, ClosedIsEmpty
<1> QED
  BY <1>4, <1>5, <1>6, <1>7, <1>8, <1>9, Whole DEF Places

(* What is awaited is what there is of the Thread.                         *)
LEMMA AwaitHolds == ASSUME Engines, NEW r \in Run, Await(r) PROVE Engines'
<1> USE DEF Engines
<1>1. /\ awaited'[r] = tracked[thread[r]] /\ \A q \in Run : q # r => awaited'[q] = awaited[q]
      /\ stage[r] = "taking" /\ tracked[thread[r]] # None /\ thread[r] \in Thread
  BY DEF Await, TypeOK
<1>2. UNCHANGED <<thread, key, stage, engine, scope, aborted, halts, idle, retiring, tracked,
                  alive, authority, held, life>>
  BY DEF Await, pool
<1>3. Pooled' = Pooled /\ ToSet(idle)' = ToSet(idle) /\ Active' = Active
  BY <1>2 DEF Pooled, Active
<1>4. TypeOK'
  BY <1>2 DEF TypeOK, Await
<1>5. RunsOK' /\ HeldOK' /\ AliveOK' /\ AuthorityIsTheRuns' /\ ClosedIsEmpty'
  BY <1>2, <1>3 DEF RunsOK, HeldOK, AliveOK, AuthorityIsTheRuns, ClosedIsEmpty
<1>6. PoolOK'
  <2>1. tracked[thread[r]] \in retiring
    BY <1>1 DEF PoolOK
  <2>2. ASSUME NEW q \in Run, NEW e \in Pooled, thread[e] = thread[q]
        PROVE  /\ stage[q] \notin Holding
               /\ stage[q] = "taking" /\ awaited'[q] # None => e = awaited'[q] /\ e \in retiring
    <3>1. CASE q # r
      BY <1>1, <2>2, <3>1 DEF PoolOK
    <3>2. CASE q = r
      <4>1. tracked[thread[r]] \in Engine /\ tracked[thread[r]] \in Pooled
        BY <2>1 DEF Pooled, TypeOK
      <4>2. thread[tracked[thread[r]]] = thread[r]
        BY <1>1 DEF PoolOK
      <4>3. e = tracked[thread[r]]
        BY <2>2, <3>2, <4>1, <4>2 DEF PoolOK
      <4> QED
        BY <1>1, <2>1, <3>2, <4>3 DEF Holding
    <3> QED
      BY <3>1, <3>2
  <2> QED
    BY <1>2, <1>3, <2>2 DEF PoolOK
<1> QED
  BY <1>4, <1>5, <1>6, Whole DEF Places

(* A Run takes what the pool has of its Thread, when no retirement is under *)
(* way: what it awaited was the only engine there was.                      *)
LEMMA TakeHolds == ASSUME Engines, NEW r \in Run, Take(r) PROVE Engines'
<1> USE DEF Engines
<1>1. /\ stage[r] = "taking" /\ thread[r] \in Thread /\ engine[r] = None
      /\ stage'[r] = "taken" /\ \A q \in Run : q # r => stage'[q] = stage[q]
      /\ \A q \in Run : q # r => awaited'[q] = awaited[q]
  BY DEF Take, To, TypeOK, RunsOK, Holding
<1>2. UNCHANGED <<thread, key, scope, aborted, halts, retiring, tracked,
                  alive, authority, held, life>>
  BY DEF Take
<1>3. ToSet(idle) \subseteq Engine /\ retiring \subseteq Engine
  BY PoolTyped DEF TypeOK
<1>4. \A e \in retiring : thread[e] # thread[r]
  <2>1. CASE awaited[r] = None
    BY <1>3, <2>1, WarmAssumption DEF Take, Free, PoolOK, Engine, Run, None
  <2>2. CASE awaited[r] # None
    BY <1>1, <2>2 DEF Take, Free, PoolOK, Pooled
  <2> QED
    BY <2>1, <2>2
<1> DEFINE d == engine'[r]
<1>5. /\ engine' = [engine EXCEPT ![r] = d] /\ d \in Engine \cup {None}
      /\ idle' \in Seq(Engine) /\ IsInjective(idle') /\ Len(idle') <= MaxIdle
      /\ ToSet(idle') = ToSet(idle) \ {d}
      /\ \A e \in ToSet(idle') : thread[e] # thread[r]
      /\ d # None => d \in ToSet(idle) /\ thread[d] = thread[r]
  <2>1. CASE /\ \A e \in ToSet(idle) : thread[e] # thread[r]
             /\ engine' = [engine EXCEPT ![r] = None] /\ idle' = idle
    <3>1. d = None
      BY <2>1 DEF TypeOK
    <3>2. None \notin ToSet(idle)
      BY <1>3, WarmAssumption DEF Engine, Run, None
    <3> QED
      BY <2>1, <3>1, <3>2 DEF TypeOK
  <2>2. CASE \E e \in ToSet(idle) :
               /\ thread[e] = thread[r]
               /\ engine' = [engine EXCEPT ![r] = e] /\ idle' = Without(e)
    <3>1. PICK e \in ToSet(idle) :
            /\ thread[e] = thread[r]
            /\ engine' = [engine EXCEPT ![r] = e] /\ idle' = Without(e)
      BY <2>2
    <3>2. d = e /\ e \in Engine
      BY <1>3, <3>1 DEF TypeOK
    <3>3. /\ Without(e) \in Seq(Engine) /\ IsInjective(Without(e))
          /\ Len(Without(e)) <= MaxIdle /\ ToSet(Without(e)) = ToSet(idle) \ {e}
      BY Removed
    <3>4. \A f \in ToSet(idle) : thread[f] = thread[r] => f = e
      BY <3>1 DEF PoolOK, Pooled
    <3> HIDE DEF d
    <3> QED
      BY <3>1, <3>2, <3>3, <3>4
  <2> QED
    BY <2>1, <2>2 DEF Take
<1>6. \A q \in Run : q # r => engine'[q] = engine[q]
  BY <1>5 DEF TypeOK
<1>7. ToSet(idle)' = ToSet(idle')
  OBVIOUS
<1>8. Pooled' = Pooled \ {d}
  <2>1. d \notin retiring
    BY <1>3, <1>4, <1>5, WarmAssumption DEF Engine, Run, None
  <2> HIDE DEF d
  <2> QED
    BY <1>2, <1>5, <2>1 DEF Pooled
<1>9. d # None => d \in Pooled /\ held[thread[r]] = None
  <2>1. ASSUME d # None PROVE d \in Pooled
    BY <1>5, <2>1 DEF Pooled
  <2> HIDE DEF d
  <2> QED
    BY <1>1, <1>5, <2>1 DEF HeldOK
<1> HIDE DEF d
<1>10. engine'[r] = d
  BY DEF d
<1>11. TypeOK'
  <2>1. engine' \in [Run -> Engine \cup {None}]
    BY <1>5 DEF TypeOK
  <2>2. stage' \in [Run -> {"new", "taking", "taken", "running", "keeping", "retiring",
                        "putting", "settling", "done"}]
    BY DEF TypeOK, Take, To
  <2>3. awaited' \in [Run -> Engine \cup {None}]
    BY DEF TypeOK, Take
  <2> QED
    BY <1>2, <1>5, <2>1, <2>2, <2>3 DEF TypeOK
<1>12. RunsOK'
  <2>1. \A q \in Active' : q \in Active
    BY <1>1 DEF Active
  <2>2. \A q, p \in Active' : thread'[q] = thread'[p] => q = p
    BY <1>2, <2>1 DEF RunsOK
  <2>3. \A q \in Run : engine'[q] # None => stage'[q] \in Holding /\ thread'[engine'[q]] = thread'[q]
    BY <1>1, <1>2, <1>5, <1>6, <1>10 DEF RunsOK, Holding
  <2>4. \A q \in Run : stage'[q] \in {"running", "keeping", "retiring"} => engine'[q] # None
    BY <1>1, <1>6 DEF RunsOK
  <2> QED
    BY <2>2, <2>3, <2>4 DEF RunsOK
<1>13. PoolOK'
  <2>1. \A e \in Pooled' : thread[e] # thread[r]
    BY <1>2, <1>4, <1>5 DEF Pooled
  <2>2. ASSUME NEW q \in Run, NEW e \in Pooled', thread[e] = thread[q]
        PROVE  /\ stage'[q] \notin Holding
               /\ stage'[q] = "taking" /\ awaited'[q] # None => e = awaited'[q] /\ e \in retiring
    <3>1. q # r /\ e \in Pooled
      BY <1>8, <2>1, <2>2
    <3> QED
      BY <1>1, <2>2, <3>1 DEF PoolOK
  <2>3. \A e, f \in Pooled' : thread[e] = thread[f] => e = f
    BY <1>8 DEF PoolOK
  <2>4. \A e \in ToSet(idle') : e \notin retiring
    BY <1>5 DEF PoolOK
  <2> QED
    BY <1>2, <1>7, <2>2, <2>3, <2>4 DEF PoolOK
<1>14. HeldOK'
  BY <1>1, <1>2, <1>6, <1>8, <1>9, <1>10 DEF HeldOK
<1>15. AliveOK'
  <2> SUFFICES ASSUME NEW e \in alive, e \notin Pooled', held[thread[e]] # e
               PROVE  \E q \in Run : engine'[q] = e
    BY <1>2 DEF AliveOK
  <2>1. CASE e = d
    BY <1>10, <2>1
  <2>2. CASE e # d
    <3>1. e # None
      BY WarmAssumption DEF TypeOK, Engine, Run, None
    <3>2. e \notin Pooled
      BY <1>8, <2>2
    <3> QED
      BY <1>1, <1>6, <3>1, <3>2 DEF AliveOK
  <2> QED
    BY <2>1, <2>2
<1>16. AuthorityIsTheRuns'
  <2> SUFFICES ASSUME NEW e \in Engine, authority[e] # None
               PROVE  /\ engine'[authority[e]] = e
                      /\ stage'[authority[e]] \in {"running", "keeping", "retiring"}
                      /\ \A q \in Run : engine'[q] = e => q = authority[e]
    BY <1>2 DEF AuthorityIsTheRuns
  <2>1. /\ engine[authority[e]] = e /\ authority[e] \in Run
        /\ stage[authority[e]] \in {"running", "keeping", "retiring"}
        /\ \A q \in Run : engine[q] = e => q = authority[e]
    BY DEF AuthorityIsTheRuns, TypeOK
  <2>2. authority[e] # r
    BY <1>1, <2>1
  <2>3. e \notin Pooled /\ e # None
    BY <2>1, WarmAssumption DEF RunsOK, PoolOK, Holding, Engine, Run, None
  <2>4. d # e
    BY <1>9, <2>3
  <2> QED
    BY <1>1, <1>6, <1>10, <2>1, <2>2, <2>4
<1>17. ClosedIsEmpty'
  BY <1>1, <1>2, OpenWhileActive, StaysClosed DEF Active
<1> QED
  BY <1>11, <1>12, <1>13, <1>14, <1>15, <1>16, <1>17, Whole DEF Places

(* The engine a Run took is its own, and carries its authority alone.      *)
LEMMA ReuseHolds == ASSUME Engines, NEW r \in Run, Reuse(r) PROVE Engines'
<1> USE DEF Engines
<1> DEFINE d == engine[r]
<1>1. /\ stage[r] = "taken" /\ d # None /\ d \in Engine /\ r \in Active
      /\ stage'[r] = "running" /\ \A q \in Run : q # r => stage'[q] = stage[q]
      /\ authority' = [authority EXCEPT ![d] = r]
  BY DEF Reuse, To, TypeOK, Active
<1>2. UNCHANGED <<thread, key, engine, aborted, halts, awaited, idle, retiring, tracked,
                  alive, held, life>>
  BY DEF Reuse, pool
<1>3. authority'[d] = r /\ \A e \in Engine : e # d => authority'[e] = authority[e]
  BY <1>1 DEF TypeOK
<1>4. Pooled' = Pooled /\ ToSet(idle)' = ToSet(idle)
  BY <1>2 DEF Pooled
<1>5. TypeOK'
  <2>1. scope' \in [Run -> Engine]
    BY <1>1 DEF TypeOK, Reuse
  <2>2. authority' \in [Engine -> Run \cup {None}]
    BY <1>1 DEF TypeOK
  <2>3. stage' \in [Run -> {"new", "taking", "taken", "running", "keeping", "retiring",
                        "putting", "settling", "done"}]
    BY DEF TypeOK, Reuse, To
  <2> QED
    BY <1>2, <2>1, <2>2, <2>3 DEF TypeOK
<1>6. RunsOK'
  <2>1. \A q \in Active' : q \in Active
    BY <1>1 DEF Active
  <2>2. \A q, p \in Active' : thread'[q] = thread'[p] => q = p
    BY <1>2, <2>1 DEF RunsOK
  <2>3. \A q \in Run : engine'[q] # None => stage'[q] \in Holding /\ thread'[engine'[q]] = thread'[q]
    BY <1>1, <1>2 DEF RunsOK, Holding
  <2>4. \A q \in Run : stage'[q] \in {"running", "keeping", "retiring"} => engine'[q] # None
    BY <1>1, <1>2 DEF RunsOK
  <2> QED
    BY <2>2, <2>3, <2>4 DEF RunsOK
<1>7. PoolOK'
  <2>1. \A q \in Run, e \in Pooled : thread[e] = thread[q] =>
          /\ stage'[q] \notin Holding
          /\ stage'[q] = "taking" /\ awaited'[q] # None => e = awaited'[q] /\ e \in retiring
    BY <1>1, <1>2 DEF PoolOK, Holding
  <2> QED
    BY <1>2, <1>4, <2>1 DEF PoolOK
<1>8. HeldOK' /\ AliveOK'
  BY <1>2, <1>4 DEF HeldOK, AliveOK
<1>9. AuthorityIsTheRuns'
  <2> SUFFICES ASSUME NEW e \in Engine, authority'[e] # None
               PROVE  /\ engine[authority'[e]] = e
                      /\ stage'[authority'[e]] \in {"running", "keeping", "retiring"}
                      /\ \A q \in Run : engine[q] = e => q = authority'[e]
    BY <1>2 DEF AuthorityIsTheRuns
  <2>1. CASE e = d
    <3>1. \A q \in Run : engine[q] = d => q \in Active /\ thread[q] = thread[r]
      BY <1>1 DEF RunsOK, Active, Holding
    <3>2. \A q \in Run : engine[q] = d => q = r
      BY <1>1, <3>1 DEF RunsOK
    <3> QED
      BY <1>1, <1>3, <2>1, <3>2
  <2>2. CASE e # d
    BY <1>1, <1>3, <2>2 DEF AuthorityIsTheRuns, TypeOK
  <2> QED
    BY <2>1, <2>2
<1>10. ClosedIsEmpty'
  BY <1>1, <1>2, OpenWhileActive, StaysClosed
<1> QED
  BY <1>5, <1>6, <1>7, <1>8, <1>9, <1>10, Whole DEF Places

(* A Run starts an engine only when the Thread has none.                   *)
LEMMA StartEngineHolds == ASSUME Engines, NEW r \in Run, StartEngine(r) PROVE Engines'
<1> USE DEF Engines
<1>1. /\ stage[r] = "taken" /\ engine[r] = None /\ held[thread[r]] = None
      /\ r \in Active /\ r \in Engine /\ r # None
      /\ stage'[r] = "running" /\ \A q \in Run : q # r => stage'[q] = stage[q]
      /\ engine'[r] = r /\ \A q \in Run : q # r => engine'[q] = engine[q]
      /\ authority'[r] = r /\ \A e \in Engine : e # r => authority'[e] = authority[e]
  BY WarmAssumption DEF StartEngine, To, TypeOK, Active, Engine, Run, None
<1>2. UNCHANGED <<thread, key, scope, aborted, halts, awaited, idle, retiring, tracked, held, life>>
  BY DEF StartEngine, pool
<1>3. Pooled' = Pooled /\ ToSet(idle)' = ToSet(idle)
  BY <1>2 DEF Pooled
<1>4. \A q \in Run : engine[q] # r
  <2> SUFFICES ASSUME NEW q \in Run, engine[q] = r PROVE FALSE
    OBVIOUS
  <2>1. q \in Active /\ thread[q] = thread[r]
    BY <1>1 DEF RunsOK, Active, Holding
  <2> QED
    BY <1>1, <2>1 DEF RunsOK
<1>5. TypeOK'
  <2>1. engine' \in [Run -> Engine \cup {None}] /\ alive' \subseteq Engine
    BY <1>1 DEF TypeOK, StartEngine
  <2>2. authority' \in [Engine -> Run \cup {None}]
    BY DEF TypeOK, StartEngine
  <2>3. stage' \in [Run -> {"new", "taking", "taken", "running", "keeping", "retiring",
                        "putting", "settling", "done"}]
    BY DEF TypeOK, StartEngine, To
  <2> QED
    BY <1>2, <2>1, <2>2, <2>3 DEF TypeOK
<1>6. RunsOK'
  <2>1. \A q \in Active' : q \in Active
    BY <1>1 DEF Active
  <2>2. \A q, p \in Active' : thread'[q] = thread'[p] => q = p
    BY <1>2, <2>1 DEF RunsOK
  <2>3. \A q \in Run : engine'[q] # None => stage'[q] \in Holding /\ thread'[engine'[q]] = thread'[q]
    BY <1>1, <1>2 DEF RunsOK, Holding
  <2>4. \A q \in Run : stage'[q] \in {"running", "keeping", "retiring"} => engine'[q] # None
    BY <1>1, <1>2 DEF RunsOK
  <2> QED
    BY <2>2, <2>3, <2>4 DEF RunsOK
<1>7. PoolOK'
  <2>1. \A q \in Run, e \in Pooled : thread[e] = thread[q] =>
          /\ stage'[q] \notin Holding
          /\ stage'[q] = "taking" /\ awaited'[q] # None => e = awaited'[q] /\ e \in retiring
    BY <1>1, <1>2 DEF PoolOK, Holding
  <2> QED
    BY <1>2, <1>3, <2>1 DEF PoolOK
<1>8. HeldOK'
  BY <1>1, <1>2, <1>3 DEF HeldOK
<1>9. AliveOK'
  <2> SUFFICES ASSUME NEW e \in alive', e \notin Pooled, held[thread[e]] # e
               PROVE  \E q \in Run : engine'[q] = e
    BY <1>2, <1>3 DEF AliveOK
  <2>1. CASE e = r
    BY <1>1, <2>1
  <2>2. CASE e # r
    <3>1. e \in alive
      BY <2>2 DEF StartEngine
    <3>2. e # None
      BY <3>1, WarmAssumption DEF TypeOK, Engine, Run, None
    <3> QED
      BY <1>1, <3>1, <3>2 DEF AliveOK
  <2> QED
    BY <2>1, <2>2
<1>10. AuthorityIsTheRuns'
  <2> SUFFICES ASSUME NEW e \in Engine, authority'[e] # None
               PROVE  /\ engine'[authority'[e]] = e
                      /\ stage'[authority'[e]] \in {"running", "keeping", "retiring"}
                      /\ \A q \in Run : engine'[q] = e => q = authority'[e]
    BY DEF AuthorityIsTheRuns
  <2>1. CASE e = r
    BY <1>1, <1>4, <2>1
  <2>2. CASE e # r
    <3>1. e # None
      BY WarmAssumption DEF Engine, Run, None
    <3>2. authority'[e] = authority[e] /\ authority[e] # None
      BY <1>1, <2>2
    <3>3. authority[e] \in Run /\ engine[authority[e]] = e
      BY <3>2 DEF TypeOK, AuthorityIsTheRuns
    <3>4. authority[e] # r
      BY <1>1, <3>1, <3>3
    <3> QED
      BY <1>1, <2>2, <3>2, <3>3, <3>4 DEF AuthorityIsTheRuns
  <2> QED
    BY <2>1, <2>2
<1>11. ClosedIsEmpty'
  BY <1>1, <1>2, OpenWhileActive, StaysClosed
<1> QED
  BY <1>5, <1>6, <1>7, <1>8, <1>9, <1>10, <1>11, Whole DEF Places

-----------------------------------------------------------------------------
(* 4. The steps of the pool. *)

(* What begins to be retired is what is tracked of its Thread.             *)
LEMMA Tracks ==
  ASSUME Engines, NEW E \in SUBSET ToSet(idle), RetireTracked(E), thread' = thread
  PROVE  /\ retiring' = retiring \cup E /\ retiring' \subseteq Engine
         /\ tracked' \in [Thread -> Engine \cup {None}]
         /\ \A e \in retiring' : tracked'[thread[e]] = e
         /\ \A t \in Thread : tracked'[t] # None =>
              tracked'[t] \in retiring' /\ thread[tracked'[t]] = t
<1> USE DEF Engines
<1>1. E \subseteq Engine /\ retiring \subseteq Engine /\ retiring' = retiring \cup E
  BY PoolTyped DEF TypeOK, RetireTracked
<1>2. \A e \in Engine : thread[e] \in Thread
  BY DEF TypeOK, Engine
<1>3. ASSUME NEW t \in Thread
      PROVE  /\ \A e \in E : thread[e] = t => tracked'[t] = e
             /\ (\A e \in E : thread[e] # t) => tracked'[t] = tracked[t]
             /\ (\E e \in E : thread[e] = t) => tracked'[t] \in E /\ thread[tracked'[t]] = t
  <2>1. tracked'[t] = IF \E e \in E : thread[e] = t THEN CHOOSE e \in E : thread[e] = t
                      ELSE tracked[t]
    BY DEF RetireTracked
  <2>2. CASE \A e \in E : thread[e] # t
    BY <2>1, <2>2
  <2>3. CASE \E e \in E : thread[e] = t
    <3>1. tracked'[t] \in E /\ thread[tracked'[t]] = t
      BY <2>1, <2>3
    <3>2. \A e \in E : thread[e] = t => tracked'[t] = e
      BY <3>1 DEF PoolOK, Pooled
    <3> QED
      BY <2>3, <3>1, <3>2
  <2> QED
    BY <2>2, <2>3
<1>4. \A t \in Thread : tracked'[t] \in Engine \cup {None}
  BY <1>1, <1>3 DEF TypeOK
<1>5. tracked' \in [Thread -> Engine \cup {None}]
  <2>1. tracked' = [t \in Thread |-> tracked'[t]]
    BY DEF RetireTracked
  <2> QED
    BY <1>4, <2>1
<1>6. \A e \in retiring' : tracked'[thread[e]] = e
  <2> SUFFICES ASSUME NEW e \in retiring' PROVE tracked'[thread[e]] = e
    OBVIOUS
  <2>1. CASE e \in E
    BY <1>1, <1>2, <1>3, <2>1
  <2>2. CASE e \notin E
    <3>1. e \in retiring /\ \A f \in E : thread[f] # thread[e]
      BY <1>1, <2>2 DEF PoolOK, Pooled
    <3>2. tracked[thread[e]] = e /\ thread[e] \in Thread
      BY <1>1, <1>2, <3>1 DEF PoolOK
    <3> QED
      BY <1>3, <3>1, <3>2
  <2> QED
    BY <2>1, <2>2
<1>7. \A t \in Thread : tracked'[t] # None =>
        tracked'[t] \in retiring' /\ thread[tracked'[t]] = t
  <2> SUFFICES ASSUME NEW t \in Thread, tracked'[t] # None
               PROVE  tracked'[t] \in retiring' /\ thread[tracked'[t]] = t
    OBVIOUS
  <2>1. CASE \E e \in E : thread[e] = t
    BY <1>1, <1>3, <2>1
  <2>2. CASE \A e \in E : thread[e] # t
    BY <1>1, <1>3, <2>2 DEF PoolOK
  <2> QED
    BY <2>1, <2>2
<1> QED
  BY <1>1, <1>5, <1>6, <1>7

(* Idle engines begin to be retired: they are where they were, in the pool. *)
LEMMA RetiresHold ==
  ASSUME Engines, NEW E \in SUBSET ToSet(idle), RetireTracked(E),
         ToSet(idle') = ToSet(idle) \ E,
         UNCHANGED <<thread, stage, engine, awaited, alive, authority, held>>
  PROVE  Places'
<1> USE DEF Engines
<1>1. /\ retiring' = retiring \cup E
      /\ \A e \in retiring' : tracked'[thread[e]] = e
      /\ \A t \in Thread : tracked'[t] # None =>
           tracked'[t] \in retiring' /\ thread[tracked'[t]] = t
  BY Tracks
<1>2. ToSet(idle)' = ToSet(idle')
  OBVIOUS
<1>3. Pooled' = Pooled /\ Active' = Active
  BY <1>1, <1>2 DEF Pooled, Active
<1>4. RunsOK' /\ HeldOK' /\ AliveOK' /\ AuthorityIsTheRuns'
  BY <1>3 DEF RunsOK, HeldOK, AliveOK, AuthorityIsTheRuns
<1>5. PoolOK'
  <2>1. \A e \in ToSet(idle') : e \notin retiring'
    BY <1>1 DEF PoolOK
  <2>2. \A q \in Run, e \in Pooled : thread[e] = thread[q] =>
          /\ stage[q] \notin Holding
          /\ stage[q] = "taking" /\ awaited[q] # None => e = awaited[q] /\ e \in retiring'
    BY <1>1 DEF PoolOK
  <2>3. \A e, f \in Pooled : thread[e] = thread[f] => e = f
    BY DEF PoolOK
  <2> QED
    BY <1>1, <1>2, <1>3, <2>1, <2>2, <2>3 DEF PoolOK
<1> QED
  BY <1>4, <1>5 DEF Places

LEMMA ExpiresHolds == ASSUME Engines, NEW e \in Engine, Expires(e) PROVE Engines'
<1>1. /\ idle' \in Seq(Engine) /\ IsInjective(idle') /\ Len(idle') <= MaxIdle
      /\ ToSet(idle') = ToSet(idle) \ {e} /\ {e} \in SUBSET ToSet(idle)
  BY Removed DEF Engines, Expires
<1>2. /\ RetireTracked({e})
      /\ UNCHANGED <<thread, key, stage, engine, scope, aborted, halts, awaited,
                     alive, authority, held, life>>
  BY DEF Expires, run
<1>3. Places'
  BY <1>1, <1>2, RetiresHold
<1>4. TypeOK'
  <2>1. retiring' \subseteq Engine /\ tracked' \in [Thread -> Engine \cup {None}]
    BY <1>1, <1>2, Tracks
  <2> QED
    BY <1>1, <1>2, <2>1 DEF Engines, TypeOK
<1>5. ClosedIsEmpty'
  <2>1. life # "closed"
    <3>1. ToSet(idle) # {}
      BY <1>1
    <3> QED
      BY <3>1, NoneKept DEF Engines, ClosedIsEmpty
  <2> QED
    BY <1>2, <2>1, StaysClosed
<1> QED
  BY <1>3, <1>4, <1>5, Whole

(* All of them: an eviction, or the end of the Runner.                     *)
LEMMA EmptiesHolds ==
  ASSUME Engines, idle' = <<>>, RetireTracked(ToSet(idle)),
         UNCHANGED <<run, alive, authority, held>>,
         life' \in {"open", "draining", "stopping", "closed"}, life' = "closed" => Active = {}
  PROVE  Engines'
<1>1. /\ idle' \in Seq(Engine) /\ IsInjective(idle') /\ Len(idle') <= MaxIdle
      /\ ToSet(idle') = ToSet(idle) \ ToSet(idle) /\ ToSet(idle) \in SUBSET ToSet(idle)
  BY NoneKept, WarmAssumption
<1>2. UNCHANGED <<thread, key, stage, engine, scope, aborted, halts, awaited,
                  alive, authority, held>>
  BY DEF run
<1>3. Places'
  BY <1>1, <1>2, RetiresHold
<1>4. TypeOK'
  <2>1. retiring' \subseteq Engine /\ tracked' \in [Thread -> Engine \cup {None}]
    BY <1>1, <1>2, Tracks
  <2> QED
    BY <1>1, <1>2, <2>1 DEF Engines, TypeOK
<1>5. ClosedIsEmpty'
  BY <1>2 DEF ClosedIsEmpty, Active
<1> QED
  BY <1>3, <1>4, <1>5, Whole

LEMMA EvictHolds == ASSUME Engines, Evict PROVE Engines'
<1>1. life # "closed" /\ life' = life
  BY DEF Engines, ClosedIsEmpty, Evict
<1> QED
  BY <1>1, EmptiesHolds DEF Evict, Engines, TypeOK

LEMMA CloseHolds == ASSUME Engines, Close PROVE Engines'
  BY EmptiesHolds DEF Close

LEMMA DrainHolds == ASSUME Engines, Drain \/ StopRuns PROVE Engines'
<1>1. UNCHANGED <<thread, key, stage, engine, scope, awaited, idle, retiring, tracked,
                  alive, authority, held>>
  BY DEF Drain, StopRuns, run, pool
<1>2. Places'
  BY <1>1, Rests
<1>3. TypeOK'
  BY <1>1 DEF Engines, TypeOK, Drain, StopRuns, run, Active
<1>4. ClosedIsEmpty'
  BY DEF Drain, StopRuns, ClosedIsEmpty
<1> QED
  BY <1>2, <1>3, <1>4, Whole

(* A retirement ends: the engine is gone, or its Thread is held for it.    *)
LEMMA RetireEndsHolds == ASSUME Engines, NEW e \in Engine, RetireEnds(e) PROVE Engines'
<1> USE DEF Engines
<1>1. PICK proven \in BOOLEAN : (e \notin alive => proven) /\ Gone(e, proven)
  BY DEF RetireEnds
<1>2. /\ e \in retiring /\ e \in Pooled /\ e # None /\ thread[e] \in Thread
      /\ retiring' = retiring \ {e}
      /\ \A t \in Thread : tracked'[t] = IF tracked[t] = e THEN None ELSE tracked[t]
  BY WarmAssumption DEF RetireEnds, Pooled, TypeOK, Engine, Run, None
<1>3. UNCHANGED <<thread, key, stage, engine, scope, aborted, halts, awaited, idle, life>>
  BY DEF RetireEnds, run
<1>4. e \notin ToSet(idle)
  BY <1>2 DEF PoolOK
<1>5. Pooled' = Pooled \ {e} /\ Active' = Active /\ ToSet(idle)' = ToSet(idle)
  BY <1>2, <1>3, <1>4 DEF Pooled, Active
<1>6. \A r \in Run : thread[r] = thread[e] => stage[r] \notin Holding /\ engine[r] = None
  BY <1>2 DEF PoolOK, RunsOK
<1>7. \A f \in Pooled : thread[f] = thread[e] => f = e
  BY <1>2 DEF PoolOK
<1>8. /\ \A f \in alive' : f \in alive /\ (proven => f # e)
      /\ \A t \in Thread : t # thread[e] => held'[t] = held[t]
      /\ proven => held' = held
      /\ ~proven => held'[thread[e]] = e
      /\ authority'[e] = None /\ \A f \in Engine : f # e => authority'[f] = authority[f]
  BY <1>1, <1>2 DEF Gone, TypeOK
<1>9. TypeOK'
  <2>1. /\ alive' \subseteq Engine /\ authority' \in [Engine -> Run \cup {None}]
        /\ held' \in [Thread -> Engine \cup {None}]
    BY <1>1, GoneTyped
  <2>2. tracked' \in [Thread -> Engine \cup {None}]
    BY DEF RetireEnds, TypeOK
  <2> QED
    BY <1>2, <1>3, <2>1, <2>2 DEF TypeOK
<1>10. RunsOK' /\ ClosedIsEmpty'
  BY <1>3, <1>5 DEF RunsOK, ClosedIsEmpty
<1>11. PoolOK'
  <2>1. \A f \in retiring' : tracked'[thread[f]] = f
    <3> SUFFICES ASSUME NEW f \in retiring' PROVE tracked'[thread[f]] = f
      OBVIOUS
    <3>1. f \in retiring /\ f # e
      BY <1>2
    <3>2. thread[f] \in Thread /\ tracked[thread[f]] = f
      BY <3>1 DEF PoolOK, TypeOK, Engine
    <3> QED
      BY <1>2, <3>1, <3>2
  <2>2. \A t \in Thread : tracked'[t] # None =>
          tracked'[t] \in retiring' /\ thread[tracked'[t]] = t
    BY <1>2 DEF PoolOK
  <2>3. \A q \in Run, f \in Pooled' : thread[f] = thread[q] =>
          /\ stage[q] \notin Holding
          /\ stage[q] = "taking" /\ awaited[q] # None => f = awaited[q] /\ f \in retiring'
    <3> SUFFICES ASSUME NEW q \in Run, NEW f \in Pooled', thread[f] = thread[q]
                 PROVE  /\ stage[q] \notin Holding
                        /\ stage[q] = "taking" /\ awaited[q] # None =>
                             f = awaited[q] /\ f \in retiring'
      OBVIOUS
    <3>1. f \in Pooled /\ f # e
      BY <1>5
    <3> QED
      BY <1>2, <3>1 DEF PoolOK
  <2>4. \A f, g \in Pooled' : thread[f] = thread[g] => f = g
    BY <1>5 DEF PoolOK
  <2>5. \A f \in ToSet(idle) : f \notin retiring'
    BY <1>2 DEF PoolOK
  <2> QED
    BY <1>3, <1>5, <2>1, <2>2, <2>3, <2>4, <2>5 DEF PoolOK
<1>12. HeldOK'
  <2> SUFFICES ASSUME NEW t \in Thread, held'[t] # None
               PROVE  /\ thread[held'[t]] = t
                      /\ \A f \in Pooled' : thread[f] # t
                      /\ \A r \in Run : thread[r] = t => engine[r] = None
    BY <1>3 DEF HeldOK
  <2>1. CASE t # thread[e] \/ proven
    BY <1>5, <1>8, <2>1 DEF HeldOK
  <2>2. CASE t = thread[e] /\ ~proven
    BY <1>5, <1>6, <1>7, <1>8, <2>2
  <2> QED
    BY <2>1, <2>2
<1>13. AliveOK'
  <2> SUFFICES ASSUME NEW f \in alive', f \notin Pooled', held'[thread[f]] # f
               PROVE  \E q \in Run : engine[q] = f
    BY <1>3 DEF AliveOK
  <2>1. f \in alive /\ f # e
    BY <1>8
  <2>2. thread[f] \in Thread /\ f \notin Pooled
    BY <1>5, <2>1 DEF TypeOK, Engine
  <2>3. held[thread[f]] # f
    <3>1. held[thread[e]] = None
      BY <1>2 DEF HeldOK
    <3>2. f # None
      BY <2>1, WarmAssumption DEF TypeOK, Engine, Run, None
    <3> QED
      BY <1>8, <2>2, <3>1, <3>2
  <2> QED
    BY <2>1, <2>2, <2>3 DEF AliveOK
<1>14. AuthorityIsTheRuns'
  BY <1>3, <1>8 DEF AuthorityIsTheRuns
<1> QED
  BY <1>9, <1>10, <1>11, <1>12, <1>13, <1>14, Whole DEF Places

(* What was left behind is gone at last, and its Thread free.              *)
LEMMA ContainedHolds == ASSUME Engines, NEW t \in Thread, Contained(t) PROVE Engines'
<1> USE DEF Engines
<1>1. /\ held[t] # None /\ held[t] \in Engine /\ alive' = alive \ {held[t]}
      /\ held'[t] = None /\ \A u \in Thread : u # t => held'[u] = held[u]
      /\ held' \in [Thread -> Engine \cup {None}]
  BY DEF Contained, TypeOK
<1>2. UNCHANGED <<thread, key, stage, engine, scope, aborted, halts, awaited,
                  idle, retiring, tracked, authority, life>>
  BY DEF Contained, run, pool
<1>3. Pooled' = Pooled /\ Active' = Active
  BY <1>2 DEF Pooled, Active
<1>4. TypeOK' /\ RunsOK' /\ PoolOK' /\ AuthorityIsTheRuns' /\ ClosedIsEmpty'
  BY <1>1, <1>2, <1>3 DEF TypeOK, RunsOK, PoolOK, AuthorityIsTheRuns, ClosedIsEmpty
<1>5. HeldOK'
  BY <1>1, <1>2, <1>3 DEF HeldOK
<1>6. AliveOK'
  <2> SUFFICES ASSUME NEW e \in alive', e \notin Pooled, held'[thread[e]] # e
               PROVE  \E q \in Run : engine[q] = e
    BY <1>2, <1>3 DEF AliveOK
  <2>1. e \in alive /\ e # held[t] /\ thread[e] \in Thread
    BY <1>1 DEF TypeOK, Engine
  <2>2. held[thread[e]] # e
    BY <1>1, <2>1
  <2> QED
    BY <2>1, <2>2 DEF AliveOK
<1> QED
  BY <1>4, <1>5, <1>6

(* The engine of a Run that completed waits in the pool, without authority, *)
(* and the one that waited longest makes room.                              *)
LEMMA KeepHolds == ASSUME Engines, NEW r \in Run, Keep(r) PROVE Engines'
<1> USE DEF Engines
<1> DEFINE d == engine[r]
           full == Len(idle) = Room
           E == IF full THEN {Head(idle)} ELSE {}
           rest == IF full THEN Tail(idle) ELSE idle
<1>1. /\ stage[r] = "keeping" /\ d \in Engine /\ d # None /\ thread[d] = thread[r]
      /\ r \in Active /\ thread[r] \in Thread
      /\ stage'[r] = "putting" /\ \A q \in Run : q # r => stage'[q] = stage[q]
      /\ engine'[r] = None /\ \A q \in Run : q # r => engine'[q] = engine[q]
      /\ \A q \in Run : q # r => awaited'[q] = awaited[q]
      /\ authority'[d] = None /\ \A e \in Engine : e # d => authority'[e] = authority[e]
  BY DEF Keep, To, TypeOK, RunsOK, Active
<1>2. UNCHANGED <<thread, key, scope, aborted, halts, alive, held, life>>
  BY DEF Keep
<1>3. idle \in Seq(Engine) /\ IsInjective(idle) /\ Len(idle) <= MaxIdle /\ Len(idle) \in Nat
  BY LenProperties DEF TypeOK
<1>4. \A e \in Pooled : thread[e] # thread[r]
  BY <1>1 DEF PoolOK, Holding
<1>5. d \notin Pooled
  BY <1>1, <1>4
<1>6. full => idle # <<>>
  BY <1>3, NoneKept, WarmAssumption DEF Room
<1>7. /\ rest \in Seq(Engine) /\ IsInjective(rest) /\ Len(rest) + 1 <= MaxIdle
      /\ E \in SUBSET ToSet(idle) /\ ToSet(rest) = ToSet(idle) \ E
  <2>1. CASE full
    <3>1. /\ Tail(idle) \in Seq(Engine) /\ IsInjective(Tail(idle))
          /\ Len(Tail(idle)) = Len(idle) - 1
          /\ Head(idle) \in ToSet(idle) /\ ToSet(Tail(idle)) = ToSet(idle) \ {Head(idle)}
      BY <1>3, <1>6, <2>1, Behead
    <3> QED
      BY <1>3, <2>1, <3>1, WarmAssumption
  <2>2. CASE ~full
    BY <1>3, <2>2, WarmAssumption DEF Room
  <2> QED
    BY <2>1, <2>2
<1>8. RetireTracked(E)
  <2>1. CASE full
    BY <2>1 DEF Keep
  <2>2. CASE ~full
    <3>1. E = {} /\ retiring' = retiring /\ tracked' = tracked
      BY <2>2 DEF Keep
    <3>2. tracked = [t \in Thread |-> tracked[t]]
      BY DEF TypeOK
    <3> HIDE DEF E
    <3> QED
      BY <3>1, <3>2 DEF RetireTracked
  <2> QED
    BY <2>1, <2>2
<1>9. idle' = Append(rest, d) /\ awaited'[r] \in Engine \cup {None}
  <2>1. CASE full
    <3>1. Head(idle) \in Engine
      BY <1>7, <2>1, PoolTyped
    <3> QED
      BY <2>1, <3>1 DEF Keep, TypeOK
  <2>2. CASE ~full
    BY <2>2 DEF Keep, TypeOK
  <2> QED
    BY <2>1, <2>2
<1> HIDE DEF E, rest, full
<1>10. d \notin ToSet(rest)
  BY <1>5, <1>7 DEF Pooled
<1>11. /\ idle' \in Seq(Engine) /\ IsInjective(idle') /\ Len(idle') <= MaxIdle
       /\ ToSet(idle') = (ToSet(idle) \ E) \cup {d}
  <2>1. /\ Append(rest, d) \in Seq(Engine) /\ IsInjective(Append(rest, d))
        /\ Len(Append(rest, d)) = Len(rest) + 1
        /\ ToSet(Append(rest, d)) = ToSet(rest) \cup {d}
    BY <1>1, <1>7, <1>10, Added
  <2> HIDE DEF d
  <2> QED
    BY <1>7, <1>9, <2>1
<1>12. /\ retiring' = retiring \cup E /\ retiring' \subseteq Engine
       /\ tracked' \in [Thread -> Engine \cup {None}]
       /\ \A e \in retiring' : tracked'[thread[e]] = e
       /\ \A t \in Thread : tracked'[t] # None =>
            tracked'[t] \in retiring' /\ thread[tracked'[t]] = t
  BY <1>2, <1>7, <1>8, Tracks
<1>13. ToSet(idle)' = ToSet(idle')
  OBVIOUS
<1>14. Pooled' = Pooled \cup {d}
  BY <1>7, <1>11, <1>12 DEF Pooled
<1>15. held[thread[r]] = None
  BY <1>1 DEF HeldOK
<1>16. \A q \in Run : q # r /\ thread[q] = thread[r] => stage[q] \in {"new", "done"}
  BY <1>1 DEF RunsOK, Active
<1>17. TypeOK'
  <2>1. authority' \in [Engine -> Run \cup {None}] /\ engine' \in [Run -> Engine \cup {None}]
    BY DEF TypeOK, Keep
  <2>2. stage' \in [Run -> {"new", "taking", "taken", "running", "keeping", "retiring",
                        "putting", "settling", "done"}]
    BY DEF TypeOK, Keep, To
  <2>3. awaited' \in [Run -> Engine \cup {None}]
    <3>1. PICK x : awaited' = [awaited EXCEPT ![r] = x]
      BY DEF Keep
    <3>2. x \in Engine \cup {None}
      BY <1>9, <3>1 DEF TypeOK
    <3> QED
      BY <3>1, <3>2 DEF TypeOK
  <2> QED
    BY <1>2, <1>11, <1>12, <2>1, <2>2, <2>3 DEF TypeOK
<1> HIDE DEF d
<1>18. d = engine[r]
  BY DEF d
<1>19. RunsOK'
  <2>1. \A q \in Active' : q \in Active
    BY <1>1 DEF Active
  <2>2. \A q, p \in Active' : thread'[q] = thread'[p] => q = p
    BY <1>2, <2>1 DEF RunsOK
  <2>3. \A q \in Run : engine'[q] # None => stage'[q] \in Holding /\ thread'[engine'[q]] = thread'[q]
    BY <1>1, <1>2 DEF RunsOK
  <2>4. \A q \in Run : stage'[q] \in {"running", "keeping", "retiring"} => engine'[q] # None
    BY <1>1 DEF RunsOK
  <2> QED
    BY <2>2, <2>3, <2>4 DEF RunsOK
<1>20. PoolOK'
  <2>1. \A e, f \in Pooled' : thread[e] = thread[f] => e = f
    BY <1>1, <1>4, <1>14 DEF PoolOK
  <2>2. \A e \in ToSet(idle') : e \notin retiring'
    BY <1>5, <1>7, <1>11, <1>12 DEF PoolOK, Pooled
  <2>3. ASSUME NEW q \in Run, NEW e \in Pooled', thread[e] = thread[q]
        PROVE  /\ stage'[q] \notin Holding
               /\ stage'[q] = "taking" /\ awaited'[q] # None => e = awaited'[q] /\ e \in retiring'
    <3>1. CASE q = r
      BY <1>1, <3>1 DEF Holding
    <3>2. CASE q # r /\ e = d
      BY <1>1, <1>16, <2>3, <3>2 DEF Holding
    <3>3. CASE q # r /\ e # d
      BY <1>1, <1>12, <1>14, <2>3, <3>3 DEF PoolOK
    <3> QED
      BY <3>1, <3>2, <3>3
  <2> QED
    BY <1>2, <1>12, <1>13, <2>1, <2>2, <2>3 DEF PoolOK
<1>21. HeldOK'
  BY <1>1, <1>2, <1>14, <1>15 DEF HeldOK
<1>22. AliveOK'
  <2> SUFFICES ASSUME NEW e \in alive, e \notin Pooled', held[thread[e]] # e
               PROVE  \E q \in Run : engine'[q] = e
    BY <1>2 DEF AliveOK
  <2>1. PICK q \in Run : engine[q] = e
    BY <1>14 DEF AliveOK
  <2> QED
    BY <1>1, <1>14, <1>18, <2>1
<1>23. AuthorityIsTheRuns'
  <2> SUFFICES ASSUME NEW e \in Engine, authority'[e] # None
               PROVE  /\ engine'[authority'[e]] = e
                      /\ stage'[authority'[e]] \in {"running", "keeping", "retiring"}
                      /\ \A q \in Run : engine'[q] = e => q = authority'[e]
    BY DEF AuthorityIsTheRuns
  <2>1. e # None /\ e # d /\ authority'[e] = authority[e]
    BY <1>1, WarmAssumption DEF Engine, Run, None
  <2>2. authority[e] \in Run /\ engine[authority[e]] = e
    BY <2>1 DEF TypeOK, AuthorityIsTheRuns
  <2>3. authority[e] # r
    BY <1>18, <2>1, <2>2
  <2> QED
    BY <1>1, <2>1, <2>2, <2>3 DEF AuthorityIsTheRuns
<1>24. ClosedIsEmpty'
  BY <1>1, <1>2, OpenWhileActive, StaysClosed
<1> QED
  BY <1>17, <1>19, <1>20, <1>21, <1>22, <1>23, <1>24, Whole DEF Places

-----------------------------------------------------------------------------
(* 5. The Runner's process. *)

LEMMA EnginesNext == Engines /\ [Next]_vars => Engines'
<1>1. ASSUME Engines, NEW r \in Run,
             \/ Admit(r) \/ Discard(r) \/ Reuse(r) \/ Completes(r) \/ Keep(r)
             \/ StartEngine(r) \/ Fails(r) \/ Steps(r) \/ Abort(r) \/ Halt(r)
      PROVE  Engines'
  BY <1>1, AdmitHolds, DiscardHolds, ReuseHolds, CompletesHolds, KeepHolds, StartEngineHolds,
     FailsHolds, AwaitHolds, TakeHolds, RefusedHolds, KeptHolds, RetiredHolds, SettledHolds,
     AbortHolds, HaltHolds DEF Steps
<1>2. ASSUME Engines, NEW e \in Engine, Expires(e) \/ RetireEnds(e) PROVE Engines'
  BY <1>2, ExpiresHolds, RetireEndsHolds
<1>3. ASSUME Engines, NEW t \in Thread, Contained(t) PROVE Engines'
  BY <1>3, ContainedHolds
<1> QED
  BY <1>1, <1>2, <1>3, EvictHolds, DrainHolds, CloseHolds, EnginesStutter DEF Next

(* Whatever is idle, being retired, owned by a Run or left behind excludes *)
(* the other engines of its Thread (warm-engine-pool.ts with #execute and  *)
(* #holdUncontainedThread of runtime.ts), while the process goes on as it  *)
(* likes with its inbox and its ledger.                                    *)
THEOREM EnginesHold == ProcessSpec => []Engines
<1>1. ProcessInit => Engines
  BY EnginesInit DEF ProcessInit
<1>2. Engines /\ [ProcessNext]_processVars => Engines'
  BY EnginesNext, EnginesStutter DEF ProcessNext, processVars
<1> QED
  BY <1>1, <1>2, PTL DEF ProcessSpec

(* A Thread has one engine with processes at a time, an engine carries the *)
(* authority of the one Run that has it, and nothing is kept once the pool *)
(* is closed, for every number of Threads, Runs and idle engines.          *)
THEOREM EnginesSoundAlways == ProcessSpec => []EnginesSound
  BY EnginesHold, EnginesSuffice, PTL

-----------------------------------------------------------------------------
(* 6. What is left of a sequence. *)

(* Places of a sequence can be counted, and are no more than its elements. *)
LEMMA CountOfPlaces ==
  ASSUME NEW n \in Nat, NEW K, K \subseteq 1..n
  PROVE  /\ IsFiniteSet(K) /\ Cardinality(K) \in Nat /\ Cardinality(K) <= n
         /\ K \subseteq Int
<1>1. IsFiniteSet(1..n) /\ Cardinality(1..n) = n
  BY FS_Interval
<1>2. K \in SUBSET (1..n)
  OBVIOUS
<1>3. IsFiniteSet(K) /\ Cardinality(K) <= Cardinality(1..n)
  BY <1>1, <1>2, FS_Subset
<1>4. Cardinality(K) \in Nat
  BY <1>3, FS_CardinalityType
<1>5. K \subseteq Int
  OBVIOUS
<1> QED
  BY <1>1, <1>3, <1>4, <1>5

(* Every number up to their count is that of one of the places. *)
LEMMA PlaceIs ==
  ASSUME NEW n \in Nat, NEW K, K \subseteq 1..n, NEW i \in 1..Cardinality(K)
  PROVE  Place(K, i) \in K /\ Cardinality({j \in K : j < Place(K, i)}) = i - 1
<1> DEFINE Before(k) == {j \in K : j < k}
           c == Cardinality(K)
<1>1. IsFiniteSet(K) /\ c \in Nat /\ K \subseteq Int
  BY CountOfPlaces
<1>2. ASSUME NEW k \in K
      PROVE  /\ IsFiniteSet(Before(k)) /\ Cardinality(Before(k)) \in 0..(c - 1)
  <2>1. Before(k) \in SUBSET K /\ k \notin Before(k)
    OBVIOUS
  <2>2. /\ IsFiniteSet(Before(k)) /\ Cardinality(Before(k)) <= c
        /\ c = Cardinality(Before(k)) => K = Before(k)
    BY <1>1, <2>1, FS_Subset
  <2>3. Cardinality(Before(k)) \in Nat
    BY <2>2, FS_CardinalityType
  <2> HIDE DEF Before, c
  <2>4. Cardinality(Before(k)) # c
    BY <1>2, <2>1, <2>2
  <2> QED
    BY <1>1, <2>2, <2>3, <2>4
<1>3. ASSUME NEW k \in K, NEW l \in K, k < l
      PROVE  Cardinality(Before(k)) # Cardinality(Before(l))
  <2>1. Before(k) \in SUBSET Before(l) /\ k \in Before(l) /\ k \notin Before(k)
    <3>1. K \subseteq Int /\ k \in Int /\ l \in Int
      BY <1>1
    <3>2. \A x \in K : x < k => x < l
      BY <1>3, <3>1
    <3>3. ~(k < k)
      BY <3>1
    <3> QED
      BY <1>3, <3>2, <3>3
  <2>2. IsFiniteSet(Before(l))
    BY <1>2
  <2>3. Cardinality(Before(l)) = Cardinality(Before(k)) => Before(l) = Before(k)
    BY <2>1, <2>2, FS_Subset
  <2> QED
    BY <2>1, <2>3
<1>4. \E k \in K : Cardinality(Before(k)) = i - 1
  <2> SUFFICES ASSUME \A k \in K : Cardinality(Before(k)) # i - 1 PROVE FALSE
    OBVIOUS
  <2> DEFINE T == (0..(c - 1)) \ {i - 1}
             f == [k \in K |-> Cardinality(Before(k))]
  <2>1. f \in [K -> T]
    BY <1>2
  <2>2. IsFiniteSet(T) /\ Cardinality(T) = c - 1
    <3>1. IsFiniteSet(0..(c - 1)) /\ Cardinality(0..(c - 1)) = c /\ i - 1 \in 0..(c - 1)
      <4>1. i \in 1..c
        OBVIOUS
      <4> HIDE DEF c
      <4>2. 0 \in Int /\ c - 1 \in Int
        BY <1>1
      <4>3. /\ IsFiniteSet(0..(c - 1))
            /\ Cardinality(0..(c - 1)) = IF 0 > c - 1 THEN 0 ELSE (c - 1) - 0 + 1
        BY <4>2, FS_Interval
      <4> QED
        BY <1>1, <4>1, <4>3
    <3>2. /\ IsFiniteSet((0..(c - 1)) \ {i - 1})
          /\ Cardinality((0..(c - 1)) \ {i - 1})
             = IF i - 1 \in 0..(c - 1) THEN Cardinality(0..(c - 1)) - 1 ELSE Cardinality(0..(c - 1))
      BY <3>1, FS_RemoveElement
    <3> QED
      BY <3>1, <3>2
  <2>3. Cardinality(T) < Cardinality(K)
    <3> HIDE DEF T
    <3> QED
      BY <1>1, <2>2
  <2>4. \E k, l \in K : k # l /\ f[k] = f[l]
    <3> HIDE DEF T, f, c
    <3> QED
      BY <1>1, <2>1, <2>2, <2>3, FS_PigeonHole
  <2>5. PICK k \in K, l \in K : k # l /\ Cardinality(Before(k)) = Cardinality(Before(l))
    BY <2>4
  <2>6. k \in Int /\ l \in Int
    OBVIOUS
  <2> HIDE DEF Before
  <2>7. k < l \/ l < k
    BY <2>5, <2>6
  <2> QED
    BY <1>3, <2>5, <2>7
<1> QED
  BY <1>4 DEF Place

(* What stays stays in its order. *)
LEMMA PlacesAscend ==
  ASSUME NEW n \in Nat, NEW K, K \subseteq 1..n,
         NEW i \in 1..Cardinality(K), NEW j \in 1..Cardinality(K), i < j
  PROVE  Place(K, i) < Place(K, j)
<1> DEFINE k == Place(K, i)
           l == Place(K, j)
<1>1. IsFiniteSet(K) /\ Cardinality(K) \in Nat /\ K \subseteq Int
  BY CountOfPlaces
<1>2. /\ k \in K /\ Cardinality({x \in K : x < k}) = i - 1
      /\ l \in K /\ Cardinality({x \in K : x < l}) = j - 1
  BY PlaceIs
<1> HIDE DEF k, l
<1>3. k \in Int /\ l \in Int
  BY <1>1, <1>2
<1>4. ~(l <= k)
  <2> SUFFICES ASSUME l <= k PROVE FALSE
    OBVIOUS
  <2>1. \A x \in K : x < l => x < k
    BY <1>1, <1>3
  <2>2. {x \in K : x < l} \in SUBSET {x \in K : x < k} /\ {x \in K : x < k} \in SUBSET K
    BY <2>1
  <2>3. IsFiniteSet({x \in K : x < k})
    BY <1>1, <2>2, FS_Subset
  <2>4. j - 1 <= i - 1
    BY <1>2, <2>2, <2>3, FS_Subset
  <2> QED
    BY <1>1, <2>4
<1>5. k < l
  BY <1>3, <1>4
<1> QED
  BY <1>5 DEF k, l

(* A subsequence has the elements of its places, once each if the sequence *)
(* had them once.                                                          *)
LEMMA SubsequenceIs ==
  ASSUME NEW S, NEW s \in Seq(S), NEW K, K \subseteq 1..Len(s)
  PROVE  /\ Subsequence(s, K) \in Seq(S) /\ Len(Subsequence(s, K)) = Cardinality(K)
         /\ Cardinality(K) \in Nat /\ Cardinality(K) <= Len(s)
         /\ ToSet(Subsequence(s, K)) = {s[k] : k \in K}
         /\ IsInjective(s) => IsInjective(Subsequence(s, K))
<1> DEFINE t == Subsequence(s, K)
           c == Cardinality(K)
<1>1. /\ Len(s) \in Nat /\ DOMAIN s = 1..Len(s) /\ \A k \in 1..Len(s) : s[k] \in S
  BY LenProperties, ElementOfSeq
<1>2. IsFiniteSet(K) /\ c \in Nat /\ c <= Len(s) /\ K \subseteq Int
  BY <1>1, CountOfPlaces
<1>3. \A i \in 1..c : Place(K, i) \in K
  BY <1>1, PlaceIs
<1>4. t = [i \in 1..c |-> s[Place(K, i)]]
  BY DEF Subsequence
<1> HIDE DEF t, c
<1>5. t \in Seq(S) /\ Len(t) = c /\ DOMAIN t = 1..c /\ \A i \in 1..c : t[i] = s[Place(K, i)]
  <2>1. \A i \in 1..c : s[Place(K, i)] \in S
    BY <1>1, <1>3
  <2> QED
    BY <1>2, <1>4, <2>1, IsASeq
<1>6. ASSUME NEW i \in 1..c, NEW j \in 1..c, i # j PROVE Place(K, i) # Place(K, j)
  <2>1. i < j \/ j < i
    BY <1>2, <1>6
  <2>2. CASE i < j
    <3>1. Place(K, i) < Place(K, j)
      BY <1>1, <2>2, PlacesAscend DEF c
    <3>2. Place(K, i) \in Int /\ Place(K, j) \in Int
      BY <1>2, <1>3
    <3> QED
      BY <3>1, <3>2
  <2>3. CASE j < i
    <3>1. Place(K, j) < Place(K, i)
      BY <1>1, <2>3, PlacesAscend DEF c
    <3>2. Place(K, i) \in Int /\ Place(K, j) \in Int
      BY <1>2, <1>3
    <3> QED
      BY <3>1, <3>2
  <2> QED
    BY <2>1, <2>2, <2>3
<1>7. ASSUME NEW k \in K PROVE \E i \in 1..c : Place(K, i) = k
  <2> DEFINE i == Cardinality({j \in K : j < k}) + 1
             f == [x \in 1..c |-> Place(K, x)]
  <2>1. f \in Injection(1..c, K)
    BY <1>3, <1>6 DEF Injection, IsInjective
  <2>2. IsFiniteSet(1..c) /\ Cardinality(1..c) = c
    BY <1>2, FS_Interval
  <2>3. f \in Surjection(1..c, K)
    BY <1>2, <2>1, <2>2, FS_Injection DEF c
  <2>4. \E x \in 1..c : f[x] = k
    BY <2>3 DEF Surjection
  <2> QED
    BY <2>4
<1>8. ToSet(t) = {s[k] : k \in K}
  <2>1. \A i \in 1..c : \E k \in K : t[i] = s[k]
    BY <1>3, <1>5
  <2>2. \A k \in K : \E i \in 1..c : t[i] = s[k]
    BY <1>5, <1>7
  <2>3. ToSet(t) = {t[i] : i \in 1..c}
    BY <1>5 DEF ToSet
  <2>4. ASSUME NEW x \in ToSet(t) PROVE x \in {s[k] : k \in K}
    BY <2>1, <2>3
  <2>5. ASSUME NEW k \in K PROVE s[k] \in ToSet(t)
    BY <2>2, <2>3
  <2> QED
    BY <2>4, <2>5
<1>9. ASSUME IsInjective(s) PROVE IsInjective(t)
  <2> SUFFICES ASSUME NEW i \in 1..c, NEW j \in 1..c, t[i] = t[j] PROVE i = j
    BY <1>5 DEF IsInjective
  <2>1. Place(K, i) = Place(K, j)
    BY <1>1, <1>3, <1>5, <1>9 DEF IsInjective
  <2> QED
    BY <1>6, <2>1
<1> QED
  BY <1>2, <1>5, <1>8, <1>9 DEF t, c

(* Omit takes out what it is told to, and no more.                         *)
LEMMA OmitIs ==
  ASSUME NEW S, NEW s \in Seq(S), NEW T
  PROVE  /\ Omit(s, T) \in Seq(S)
         /\ Len(Omit(s, T)) \in Nat /\ Len(Omit(s, T)) <= Len(s)
         /\ ToSet(Omit(s, T)) = ToSet(s) \ T
         /\ IsInjective(s) => IsInjective(Omit(s, T))
<1> DEFINE K == {k \in DOMAIN s : s[k] \notin T}
<1>1. K \subseteq 1..Len(s) /\ DOMAIN s = 1..Len(s)
  BY LenProperties
<1>2. {s[k] : k \in K} = ToSet(s) \ T
  BY DEF ToSet
<1> HIDE DEF K
<1> QED
  BY <1>1, <1>2, SubsequenceIs DEF Omit, K

-----------------------------------------------------------------------------
(* 7. The ledger of the commands. *)

(* What the ledger keeps is under way or answered for good, and one entry  *)
(* per identity.                                                           *)
Known ==
  /\ Ledger!TypeOK /\ Ledger!Remembered /\ Ledger!RefusalsForgotten
  /\ ToSet(entries) \subseteq Ledger!Ops
  /\ \A o, q \in ToSet(entries) : op[o].command = op[q].command => o = q

(* What a prune makes of the entries: some of them, with room for one more.*)
Shorter(new, old) ==
  /\ new \in Seq(Ledger!Operation) /\ IsInjective(new) /\ Len(new) < MaxEntries
  /\ ToSet(new) \subseteq ToSet(old)

(* A prune keeps the order of what it leaves, and leaves room for one.     *)
LEMMA PrunedIs ==
  ASSUME NEW es \in Seq(Ledger!Operation), IsInjective(es), NEW expired
  PROVE  Shorter(Ledger!Pruned(es, expired), es)
<1> DEFINE young == Omit(es, expired)
           n == Len(young)
           m == n - MaxEntries + 2
<1>1. /\ young \in Seq(Ledger!Operation) /\ IsInjective(young) /\ n \in Nat
      /\ ToSet(young) \subseteq ToSet(es)
  BY OmitIs
<1>2. Ledger!Pruned(es, expired) = IF n < MaxEntries THEN young ELSE SubSeq(young, m, n)
  BY DEF Ledger!Pruned, Ledger!Omit, Ledger!Subsequence, Ledger!Place, Ledger!Cardinality,
         Omit, Subsequence, Place, Cardinality
<1>3. MaxEntries \in Nat \ {0}
  BY ProcessAssumption DEF Ledger!LedgerAssumption
<1> HIDE DEF young
<1>4. CASE n < MaxEntries
  BY <1>1, <1>2, <1>4 DEF Shorter
<1>5. CASE ~(n < MaxEntries)
  <2> DEFINE t == SubSeq(young, m, n)
  <2>1. m \in 1..(n + 1) /\ DOMAIN young = 1..n /\ \A i \in 1..n : young[i] \in Ledger!Operation
    BY <1>1, <1>3, <1>5, LenProperties, ElementOfSeq
  <2>2. /\ t \in Seq(Ledger!Operation) /\ Len(t) = MaxEntries - 1 /\ DOMAIN t = 1..Len(t)
        /\ \A i \in 1..Len(t) : t[i] = young[m + i - 1]
    <3>1. m \in Int /\ n \in Int /\ \A i \in m..n : young[i] \in Ledger!Operation
      BY <1>1, <2>1
    <3> HIDE DEF m, n
    <3>2. /\ t \in Seq(Ledger!Operation) /\ Len(t) = IF m <= n THEN n - m + 1 ELSE 0
          /\ \A i \in 1..(n - m + 1) : t[i] = young[m + i - 1]
      BY <3>1, SubSeqProperties
    <3> HIDE DEF t
    <3>3. n - m + 1 = MaxEntries - 1
      BY <1>1, <1>3 DEF m, n
    <3>4. Len(t) = MaxEntries - 1
      BY <1>3, <3>1, <3>2, <3>3
    <3> QED
      BY <3>2, <3>3, <3>4, LenProperties
  <2> HIDE DEF t
  <2>3. \A i \in 1..Len(t) : m + i - 1 \in 1..n
    BY <1>1, <1>3, <1>5, <2>1, <2>2
  <2>4. IsInjective(t)
    <3> SUFFICES ASSUME NEW i \in 1..Len(t), NEW j \in 1..Len(t), t[i] = t[j] PROVE i = j
      BY <2>2 DEF IsInjective
    <3>1. young[m + i - 1] = young[m + j - 1]
      BY <2>2
    <3>2. m + i - 1 = m + j - 1
      BY <1>1, <2>1, <2>3, <3>1 DEF IsInjective
    <3> QED
      BY <1>1, <1>3, <3>2
  <2>5. ToSet(t) \subseteq ToSet(young)
    BY <2>1, <2>2, <2>3 DEF ToSet
  <2>6. Len(t) < MaxEntries
    BY <1>3, <2>2
  <2> QED
    BY <1>1, <1>2, <1>5, <2>2, <2>4, <2>5, <2>6 DEF Shorter, t
<1> QED
  BY <1>4, <1>5

(* What a step prunes is in the history. *)
LEMMA RecallsKnown ==
  ASSUME Known, NEW c \in Command, NEW expired, Ledger!Recalls(c, expired)
  PROVE  Known'
<1>1. /\ entries' = Ledger!Pruned(entries, expired) /\ op' = op
      /\ evicted' = evicted \cup (ToSet(entries) \ ToSet(entries'))
  BY DEF Ledger!Recalls, Ledger!ToSet, ToSet
<1>2. Shorter(entries', entries)
  BY <1>1, PrunedIs DEF Known, Ledger!TypeOK, Ledger!IsInjective, IsInjective
<1>3. Ledger!TypeOK'
  <2>1. op' = op /\ evicted' \subseteq Ledger!Operation
    BY <1>1 DEF Known, Ledger!TypeOK, ToSet
  <2> QED
    BY <1>2, <2>1 DEF Known, Ledger!TypeOK, Shorter, Ledger!IsInjective, IsInjective
<1> QED
  BY <1>1, <1>2, <1>3
  DEF Known, Shorter, Ledger!Remembered, Ledger!RefusalsForgotten, Ledger!Ops, Ledger!ToSet, ToSet

(* An element that is appended is the only new one.                        *)
LEMMA Appended ==
  ASSUME NEW S, NEW s \in Seq(S), NEW x \in S
  PROVE  /\ Append(s, x) \in Seq(S) /\ ToSet(Append(s, x)) = ToSet(s) \cup {x}
         /\ IsInjective(s) /\ x \notin ToSet(s) => IsInjective(Append(s, x))
<1>1. /\ Len(s) \in Nat /\ DOMAIN s = 1..Len(s)
      /\ Append(s, x) \in Seq(S) /\ DOMAIN Append(s, x) = 1..(Len(s) + 1)
      /\ Append(s, x)[Len(s) + 1] = x
      /\ \A i \in 1..Len(s) : Append(s, x)[i] = s[i]
  BY LenProperties, AppendProperties
<1> DEFINE t == Append(s, x)
           n == Len(s)
<1> HIDE DEF t, n
<1>2. /\ n \in Nat /\ DOMAIN s = 1..n /\ DOMAIN t = 1..(n + 1) /\ t[n + 1] = x
      /\ \A i \in 1..n : t[i] = s[i]
  BY <1>1 DEF t, n
<1>3. \A i \in 1..(n + 1) : i \in 1..n \/ i = n + 1
  BY <1>2
<1>4. n + 1 \in 1..(n + 1) /\ \A i \in 1..n : i \in 1..(n + 1)
  BY <1>2
<1>5. ToSet(t) = ToSet(s) \cup {x}
  BY <1>2, <1>3, <1>4 DEF ToSet
<1>6. ASSUME IsInjective(s), x \notin ToSet(s) PROVE IsInjective(t)
  <2> SUFFICES ASSUME NEW i \in 1..(n + 1), NEW j \in 1..(n + 1), t[i] = t[j] PROVE i = j
    BY <1>2 DEF IsInjective
  <2>1. \A k \in 1..n : s[k] # x
    BY <1>2, <1>6 DEF ToSet
  <2> QED
    BY <1>2, <1>3, <1>6, <2>1 DEF IsInjective
<1> QED
  BY <1>1, <1>5, <1>6 DEF t

(* A new operation is the only one of its identity, and in the ledger until *)
(* it is pruned.                                                           *)
LEMMA ExecutesKnown ==
  ASSUME Known, NEW c \in Command, NEW expired, Ledger!Executes(c, expired)
  PROVE  Known'
<1> DEFINE p == Ledger!Pruned(entries, expired)
<1>1. PICK o \in Ledger!Operation \ Ledger!Ops :
        /\ op' = [op EXCEPT ![o] = [state |-> "running", command |-> c]]
        /\ entries' = Ledger!Pruned(Append(p, o), {})
        /\ evicted' = evicted \cup (ToSet(Append(entries, o)) \ ToSet(entries'))
  BY DEF Ledger!Executes, Ledger!ToSet, ToSet
<1>2. \A q \in ToSet(p) : op[q].command # c
  BY DEF Ledger!Executes, Ledger!Of, Ledger!ToSet, ToSet
<1>3. /\ entries \in Seq(Ledger!Operation) /\ IsInjective(entries)
      /\ op \in [Ledger!Operation -> {Ledger!NoOp} \cup
                   [state : {"running", "final", "retryable"}, command : Command]]
      /\ evicted \subseteq Ledger!Operation /\ ToSet(entries) \subseteq Ledger!Ops
      /\ Ledger!Ops \subseteq Ledger!Operation
  BY DEF Known, Ledger!TypeOK, Ledger!IsInjective, IsInjective, Ledger!Ops
<1>4. Shorter(p, entries)
  BY <1>3, PrunedIs
<1> HIDE DEF p
<1>5. /\ Append(p, o) \in Seq(Ledger!Operation) /\ IsInjective(Append(p, o))
      /\ ToSet(Append(p, o)) = ToSet(p) \cup {o}
  <2>1. p \in Seq(Ledger!Operation) /\ IsInjective(p) /\ o \notin ToSet(p)
    BY <1>3, <1>4 DEF Shorter
  <2> QED
    BY <2>1, Appended
<1>6. Shorter(entries', Append(p, o))
  BY <1>1, <1>5, PrunedIs
<1>7. /\ ToSet(entries') \subseteq ToSet(p) \cup {o} /\ ToSet(p) \subseteq ToSet(entries)
      /\ ToSet(Append(entries, o)) = ToSet(entries) \cup {o}
  BY <1>3, <1>4, <1>5, <1>6, Appended DEF Shorter
<1>8. /\ op'[o] = [state |-> "running", command |-> c]
      /\ \A q \in Ledger!Operation : q # o => op'[q] = op[q]
  BY <1>1, <1>3
<1>9. Ledger!Ops' = Ledger!Ops \cup {o}
  BY <1>3, <1>8 DEF Ledger!Ops, Ledger!NoOp
<1>10. Ledger!TypeOK'
  <2>1. op' \in [Ledger!Operation -> {Ledger!NoOp} \cup
                   [state : {"running", "final", "retryable"}, command : Command]]
    BY <1>1, <1>3
  <2>2. evicted' \subseteq Ledger!Operation
    BY <1>1, <1>3, <1>7
  <2> QED
    BY <1>6, <2>1, <2>2 DEF Ledger!TypeOK, Shorter, Ledger!IsInjective, IsInjective
<1>11. \A q \in ToSet(entries') : q \in Ledger!Operation /\ (q # o => q \in ToSet(p))
  BY <1>3, <1>7
<1>12. \A x, y \in ToSet(entries') : op'[x].command = op'[y].command => x = y
  <2>1. \A x \in ToSet(entries') : x # o => op'[x] = op[x] /\ op[x].command # c
    BY <1>2, <1>8, <1>11
  <2>2. \A x, y \in ToSet(p) : op[x].command = op[y].command => x = y
    BY <1>7 DEF Known
  <2> QED
    BY <1>8, <1>11, <2>1, <2>2
<1>13. \A x \in ToSet(entries') : op'[x].state # "retryable"
  <2>1. \A x \in ToSet(p) : op[x].state # "retryable"
    BY <1>7 DEF Known, Ledger!RefusalsForgotten, Ledger!ToSet, ToSet
  <2> QED
    BY <1>8, <1>11, <2>1
<1>14. ASSUME NEW x \in Ledger!Ops', x \notin evicted', op'[x].state # "retryable"
       PROVE  x \in ToSet(entries')
  <2>1. x = o \/ x \in ToSet(entries)
    <3>1. CASE x # o
      <4>1. x \in Ledger!Ops /\ x \notin evicted /\ op[x].state # "retryable"
        BY <1>1, <1>3, <1>8, <1>9, <1>14, <3>1
      <4> QED
        BY <4>1 DEF Known, Ledger!Remembered, Ledger!ToSet, ToSet
    <3> QED
      BY <3>1
  <2> QED
    BY <1>1, <1>7, <1>14, <2>1
<1>15. Ledger!Remembered' /\ Ledger!RefusalsForgotten'
  BY <1>12, <1>13, <1>14 DEF Ledger!Remembered, Ledger!RefusalsForgotten, Ledger!ToSet, ToSet
<1>16. ToSet(entries') \subseteq Ledger!Ops'
  BY <1>3, <1>7, <1>9
<1> QED
  BY <1>10, <1>12, <1>15, <1>16 DEF Known

(* A refusal that may be retried takes its own entry away, and no other.   *)
LEMMA EndsKnown ==
  ASSUME Known, NEW o \in Ledger!Operation, Ledger!Ends(o) PROVE Known'
<1>1. /\ op[o].state = "running" /\ evicted' = evicted
      /\ \/ op' = [op EXCEPT ![o].state = "final"] /\ entries' = entries
         \/ op' = [op EXCEPT ![o].state = "retryable"] /\ entries' = Omit(entries, {o})
  <2>1. op[o].state = "running"
    BY DEF Ledger!Ends
  <2>2. {q \in Ledger!Ops : Ledger!Own(o, q)} = {o}
    BY <2>1 DEF Ledger!Own, Ledger!Ops, Ledger!NoOp
  <2>3. Ledger!Omit(entries, {o}) = Omit(entries, {o})
    BY DEF Ledger!Omit, Ledger!Subsequence, Ledger!Place, Ledger!Cardinality,
           Omit, Subsequence, Place, Cardinality
  <2> QED
    BY <2>2, <2>3 DEF Ledger!Ends
<1>2. /\ entries \in Seq(Ledger!Operation) /\ IsInjective(entries) /\ Len(entries) < MaxEntries
      /\ op \in [Ledger!Operation -> {Ledger!NoOp} \cup
                   [state : {"running", "final", "retryable"}, command : Command]]
      /\ evicted \subseteq Ledger!Operation /\ ToSet(entries) \subseteq Ledger!Ops
      /\ Ledger!Ops \subseteq Ledger!Operation
  BY DEF Known, Ledger!TypeOK, Ledger!IsInjective, IsInjective, Ledger!Ops
<1>3. op[o] \in [state : {"running", "final", "retryable"}, command : Command]
  BY <1>1, <1>2 DEF Ledger!NoOp
<1>4. /\ op' \in [Ledger!Operation -> {Ledger!NoOp} \cup
                   [state : {"running", "final", "retryable"}, command : Command]]
      /\ \A q \in Ledger!Operation : q # o => op'[q] = op[q]
      /\ op'[o].command = op[o].command /\ op'[o] # Ledger!NoOp
  BY <1>1, <1>2, <1>3 DEF Ledger!NoOp
<1>5. /\ entries' \in Seq(Ledger!Operation) /\ IsInjective(entries') /\ Len(entries') < MaxEntries
      /\ ToSet(entries') \subseteq ToSet(entries) /\ ToSet(entries) \subseteq ToSet(entries') \cup {o}
      /\ op'[o].state = "retryable" => o \notin ToSet(entries')
  <2>1. CASE op' = [op EXCEPT ![o].state = "final"] /\ entries' = entries
    BY <1>2, <1>3, <2>1
  <2>2. CASE op' = [op EXCEPT ![o].state = "retryable"] /\ entries' = Omit(entries, {o})
    <3>1. /\ Omit(entries, {o}) \in Seq(Ledger!Operation) /\ IsInjective(Omit(entries, {o}))
          /\ Len(Omit(entries, {o})) \in Nat /\ Len(Omit(entries, {o})) <= Len(entries)
          /\ ToSet(Omit(entries, {o})) = ToSet(entries) \ {o}
      BY <1>2, OmitIs
    <3>2. Len(entries) \in Nat /\ MaxEntries \in Nat
      BY <1>2, ProcessAssumption, LenProperties DEF Ledger!LedgerAssumption
    <3>3. entries' = Omit(entries, {o})
      BY <2>2
    <3>4. Len(entries') < MaxEntries
      BY <1>2, <3>1, <3>2, <3>3
    <3> QED
      BY <3>1, <3>3, <3>4
  <2> QED
    BY <1>1, <2>1, <2>2
<1>6. Ledger!TypeOK'
  BY <1>1, <1>2, <1>4, <1>5 DEF Ledger!TypeOK, Ledger!IsInjective, IsInjective
<1>7. Ledger!Ops' = Ledger!Ops
  BY <1>1, <1>2, <1>3, <1>4 DEF Ledger!Ops, Ledger!NoOp
<1>8. \A x, y \in ToSet(entries') : op'[x].command = op'[y].command => x = y
  <2>1. \A x \in ToSet(entries') : x \in ToSet(entries) /\ op'[x].command = op[x].command
    BY <1>2, <1>4, <1>5
  <2> QED
    BY <2>1 DEF Known
<1>9. \A x \in ToSet(entries') : op'[x].state # "retryable"
  <2>1. \A x \in ToSet(entries) : op[x].state # "retryable" /\ x \in Ledger!Operation
    BY <1>2 DEF Known, Ledger!RefusalsForgotten, Ledger!ToSet, ToSet
  <2> QED
    BY <1>4, <1>5, <2>1
<1>10. ASSUME NEW x \in Ledger!Ops', x \notin evicted', op'[x].state # "retryable"
       PROVE  x \in ToSet(entries')
  <2>1. x \in Ledger!Ops /\ x \notin evicted /\ op[x].state # "retryable"
    BY <1>1, <1>2, <1>4, <1>7, <1>10
  <2>2. x \in ToSet(entries)
    BY <2>1 DEF Known, Ledger!Remembered, Ledger!ToSet, ToSet
  <2>3. entries' = entries \/ op'[o].state = "retryable"
    BY <1>1, <1>2, <1>3
  <2> QED
    BY <1>5, <1>10, <2>2, <2>3
<1>11. Ledger!Remembered' /\ Ledger!RefusalsForgotten'
  BY <1>8, <1>9, <1>10 DEF Ledger!Remembered, Ledger!RefusalsForgotten, Ledger!ToSet, ToSet
<1> QED
  BY <1>2, <1>5, <1>6, <1>7, <1>8, <1>11 DEF Known

(* A command that is sent again finds what is under way of it or its       *)
(* answer, unless that was pruned, and no refusal that may be retried      *)
(* (command-ledger.ts, execute and #prune), for every size of the ledger.  *)
THEOREM CommandsAnsweredOnceAlways == ProcessSpec => []CommandsAnsweredOnce
<1>1. ProcessInit => Known
  <2> SUFFICES ASSUME Ledger!Init PROVE Known
    BY DEF ProcessInit
  <2>1. /\ entries = <<>> /\ evicted = {} /\ op = [o \in Ledger!Operation |-> Ledger!NoOp]
    BY DEF Ledger!Init
  <2>2. /\ entries \in Seq(Ledger!Operation) /\ Len(entries) = 0 /\ DOMAIN entries = {}
        /\ ToSet(entries) = {} /\ IsInjective(entries)
    BY <2>1 DEF ToSet, IsInjective
  <2>3. Ledger!TypeOK
    BY <2>1, <2>2, ProcessAssumption
    DEF Ledger!TypeOK, Ledger!IsInjective, IsInjective, Ledger!LedgerAssumption
  <2>4. Ledger!Ops = {}
    BY <2>1 DEF Ledger!Ops
  <2> QED
    BY <2>2, <2>3, <2>4
    DEF Known, Ledger!Remembered, Ledger!RefusalsForgotten, Ledger!ToSet, ToSet
<1>2. Known /\ [ProcessNext]_processVars => Known'
  <2> SUFFICES ASSUME Known, [ProcessNext]_processVars PROVE Known'
    OBVIOUS
  <2>1. CASE UNCHANGED ledgerVars
    BY <2>1
    DEF ledgerVars, Known, Ledger!TypeOK, Ledger!Remembered, Ledger!RefusalsForgotten, Ledger!Ops
  <2>2. CASE Ledger!Next
    BY <2>2, RecallsKnown, ExecutesKnown, EndsKnown DEF Ledger!Next
  <2> QED
    BY <2>1, <2>2 DEF ProcessNext, processVars, ledgerVars
<1>3. Known => CommandsAnsweredOnce
  BY DEF Known, CommandsAnsweredOnce, Ledger!CommandsAnsweredOnce
<1> QED
  BY <1>1, <1>2, <1>3, PTL DEF ProcessSpec

-----------------------------------------------------------------------------
(* 8. The inbox. *)

(* The first place that fits. *)
LEMMA FirstPlace ==
  ASSUME NEW n \in Nat, NEW K, K \subseteq 1..n, K # {}
  PROVE  /\ Min(K) \in K /\ \A k \in K : Min(K) <= k
<1>1. K \subseteq Nat
  OBVIOUS
<1>2. PICK t \in K : \A u \in K : ~(<<u, t>> \in OpToRel(<, Nat))
  BY <1>1, NatLessThanWellFounded, WFMin, Zenon
<1>3. ASSUME NEW u \in K PROVE t <= u
  <2>1. u \in Nat /\ t \in Nat
    BY <1>1
  <2>2. ~(u < t)
    BY <1>2, <2>1 DEF OpToRel
  <2> QED
    BY <2>1, <2>2
<1> QED
  BY <1>3 DEF Min

(* Frames and reads are numbered in the order they came in, and a queue    *)
(* keeps that order.                                                       *)
Ascends(s) == \A i, j \in DOMAIN s : i < j => s[i].n < s[j].n

IsNumbered(s) == \A i \in DOMAIN s : s[i].n \in Int

LEMMA CutAscends ==
  ASSUME NEW S, NEW s \in Seq(S), NEW i \in 1..Len(s), IsNumbered(s), Ascends(s)
  PROVE  /\ RemoveAt(s, i) \in Seq(S) /\ Len(RemoveAt(s, i)) = Len(s) - 1
         /\ Ascends(RemoveAt(s, i))
         /\ ToSet(RemoveAt(s, i)) = {s[k] : k \in (DOMAIN s) \ {i}}
<1> DEFINE t == RemoveAt(s, i)
           n == Len(s)
<1>1. /\ n \in Nat /\ DOMAIN s = 1..n /\ \A k \in 1..n : s[k] \in S
  BY LenProperties, ElementOfSeq
<1>2. /\ t \in Seq(S) /\ Len(t) = n - 1 /\ \A j \in 1..(n - 1) : t[j] = IF j < i THEN s[j] ELSE s[j + 1]
  BY CutAt
<1>3. DOMAIN t = 1..(n - 1)
  BY <1>2, LenProperties
<1> HIDE DEF t, n
<1>4. i \in 1..n
  BY DEF n
<1>5. ASSUME NEW j \in 1..(n - 1), NEW k \in 1..(n - 1), j < k PROVE t[j].n < t[k].n
  <2> DEFINE x == IF j < i THEN j ELSE j + 1
             y == IF k < i THEN k ELSE k + 1
  <2>1. x \in 1..n /\ y \in 1..n /\ x < y /\ t[j] = s[x] /\ t[k] = s[y]
    BY <1>1, <1>2, <1>4, <1>5
  <2> QED
    BY <1>1, <2>1 DEF Ascends
<1>6. ASSUME NEW j \in 1..(n - 1) PROVE t[j] \in {s[k] : k \in (1..n) \ {i}}
  <2> DEFINE x == IF j < i THEN j ELSE j + 1
  <2>1. x \in (1..n) \ {i} /\ t[j] = s[x]
    BY <1>1, <1>2, <1>4
  <2> QED
    BY <2>1
<1>7. ASSUME NEW k \in (1..n) \ {i} PROVE \E j \in 1..(n - 1) : t[j] = s[k]
  <2>1. CASE k < i
    <3>1. k \in 1..(n - 1) /\ t[k] = s[k]
      BY <1>1, <1>2, <1>4, <2>1
    <3> QED
      BY <3>1
  <2>2. CASE i < k
    <3>1. k - 1 \in 1..(n - 1) /\ ~(k - 1 < i) /\ (k - 1) + 1 = k
      BY <1>1, <1>4, <2>2
    <3>2. t[k - 1] = s[k]
      BY <1>2, <3>1
    <3> QED
      BY <3>1, <3>2
  <2> QED
    BY <1>1, <1>4, <2>1, <2>2
<1>8. ToSet(t) = {s[k] : k \in (1..n) \ {i}}
  BY <1>3, <1>6, <1>7 DEF ToSet
<1>9. Ascends(t)
  BY <1>3, <1>5 DEF Ascends
<1> QED
  BY <1>1, <1>2, <1>8, <1>9 DEF t, n

LEMMA AddAscends ==
  ASSUME NEW S, NEW s \in Seq(S), NEW x \in S, Ascends(s),
         \A k \in DOMAIN s : s[k].n < x.n
  PROVE  /\ Append(s, x) \in Seq(S) /\ Len(Append(s, x)) = Len(s) + 1
         /\ Ascends(Append(s, x)) /\ ToSet(Append(s, x)) = ToSet(s) \cup {x}
<1>1. /\ Len(s) \in Nat /\ DOMAIN s = 1..Len(s)
      /\ Append(s, x) \in Seq(S) /\ DOMAIN Append(s, x) = 1..(Len(s) + 1)
      /\ Len(Append(s, x)) = Len(s) + 1
      /\ Append(s, x)[Len(s) + 1] = x
      /\ \A i \in 1..Len(s) : Append(s, x)[i] = s[i]
  BY LenProperties, AppendProperties
<1> DEFINE t == Append(s, x)
           n == Len(s)
<1> HIDE DEF t, n
<1>2. /\ n \in Nat /\ DOMAIN s = 1..n /\ DOMAIN t = 1..(n + 1) /\ t[n + 1] = x
      /\ \A i \in 1..n : t[i] = s[i]
  BY <1>1 DEF t, n
<1>3. \A i, j \in 1..(n + 1) : i < j => i \in 1..n /\ (j \in 1..n \/ j = n + 1)
  BY <1>2
<1>4. Ascends(t)
  BY <1>2, <1>3 DEF Ascends
<1>5. ToSet(Append(s, x)) = ToSet(s) \cup {x}
  BY Appended
<1> QED
  BY <1>1, <1>4, <1>5 DEF t

(* Of numbered elements, those that stay, in their order, are the rest. *)
LEMMA TheRest ==
  ASSUME NEW S, NEW s \in Seq(S), \A k \in DOMAIN s : s[k].n = k,
         NEW q \in Seq(S), Ascends(q),
         \A j \in DOMAIN q : q[j].n \in DOMAIN s /\ s[q[j].n] = q[j],
         NEW T,
         \A k \in DOMAIN s : (\E j \in DOMAIN q : q[j].n = k) <=> s[k] \notin T
  PROVE  q = Omit(s, T)
<1> DEFINE n == Len(s)
           m == Len(q)
           K == {k \in DOMAIN s : s[k] \notin T}
           f == [j \in 1..m |-> q[j].n]
<1>1. n \in Nat /\ DOMAIN s = 1..n /\ m \in Nat /\ DOMAIN q = 1..m
  BY LenProperties
<1>2. K \subseteq 1..n
  BY <1>1
<1>3. K = {q[j].n : j \in 1..m}
  BY <1>1
<1>4. \A j \in 1..m : q[j].n \in 1..n /\ s[q[j].n] = q[j]
  BY <1>1
<1>5. \A i, j \in 1..m : i < j => q[i].n < q[j].n
  BY <1>1 DEF Ascends
<1>6. q = [j \in 1..m |-> q[j]]
  BY <1>1, SeqDef
<1>7. Omit(s, T) = [i \in 1..Cardinality(K) |-> s[Place(K, i)]]
  BY DEF Omit, Subsequence
<1> HIDE DEF K, n, m
<1>8. \A i, j \in 1..m : q[i].n = q[j].n => i = j
  <2> SUFFICES ASSUME NEW i \in 1..m, NEW j \in 1..m, q[i].n = q[j].n, i # j PROVE FALSE
    OBVIOUS
  <2>1. i < j \/ j < i
    BY <1>1
  <2>2. q[i].n \in Int /\ q[j].n \in Int
    BY <1>1, <1>4
  <2> QED
    BY <1>5, <2>1, <2>2
<1>9. ASSUME NEW i \in 1..(m + 1), NEW L, L = {q[j].n : j \in 1..(i - 1)}
      PROVE  Cardinality(L) = i - 1
  <2> DEFINE g == [j \in 1..(i - 1) |-> q[j].n]
  <2>1. \A j \in 1..(i - 1) : j \in 1..m
    BY <1>1
  <2>2. g \in Injection(1..(i - 1), L) /\ g \in Surjection(1..(i - 1), L)
    BY <1>8, <1>9, <2>1 DEF Injection, IsInjective, Surjection
  <2>3. IsFiniteSet(1..(i - 1)) /\ Cardinality(1..(i - 1)) = i - 1
    <3>1. i - 1 \in Nat /\ 1 \in Int
      BY <1>1
    <3> QED
      <4> DEFINE k == i - 1
      <4>1. IsFiniteSet(1..k) /\ Cardinality(1..k) = IF 1 > k THEN 0 ELSE k - 1 + 1
        BY <3>1, FS_Interval
      <4>2. k \in Nat
        BY <3>1
      <4> HIDE DEF k
      <4>3. Cardinality(1..k) = k
        BY <4>1, <4>2
      <4> QED
        BY <4>1, <4>3 DEF k
  <2>4. g \in Bijection(1..(i - 1), L)
    BY <2>2 DEF Bijection
  <2>5. Cardinality(L) = Cardinality(1..(i - 1))
    <3>1. ExistsBijection(1..(i - 1), L)
      BY <2>4 DEF ExistsBijection
    <3> QED
      BY <2>3, <3>1, FS_Bijection
  <2> QED
    BY <2>3, <2>5
<1>10. Cardinality(K) = m
  <2>1. m + 1 \in 1..(m + 1) /\ (m + 1) - 1 = m
    BY <1>1
  <2> QED
    BY <1>3, <1>9, <2>1
<1>11. ASSUME NEW i \in 1..m PROVE Place(K, i) = q[i].n
  <2>1. Place(K, i) \in K /\ Cardinality({j \in K : j < Place(K, i)}) = i - 1
    BY <1>1, <1>2, <1>10, PlaceIs
  <2>2. PICK l \in 1..m : Place(K, i) = q[l].n
    BY <1>3, <2>1
  <2>3. {x \in K : x < q[l].n} = {q[j].n : j \in 1..(l - 1)}
    <3>1. ASSUME NEW j \in 1..m PROVE q[j].n < q[l].n <=> j < l
      <4>1. j < l \/ j = l \/ l < j
        BY <1>1
      <4>2. q[j].n \in Int /\ q[l].n \in Int
        BY <1>1, <1>4
      <4> QED
        BY <1>1, <1>5, <4>1, <4>2
    <3>2. \A j \in 1..(l - 1) : j \in 1..m /\ j < l
      BY <1>1
    <3>3. \A j \in 1..m : j < l => j \in 1..(l - 1)
      BY <1>1
    <3> QED
      BY <1>3, <3>1, <3>2, <3>3
  <2>4. Cardinality({q[j].n : j \in 1..(l - 1)}) = l - 1
    <3>1. l \in 1..(m + 1)
      BY <1>1
    <3> QED
      BY <1>9, <3>1
  <2>5. l - 1 = i - 1
    BY <2>1, <2>2, <2>3, <2>4
  <2>6. l = i
    BY <1>1, <2>5
  <2> QED
    BY <2>2, <2>6
<1> QED
  BY <1>4, <1>6, <1>7, <1>10, <1>11

(* The invariant of the inbox. *)
Handed == {answer[w].n : w \in Inbox!Given}

(* What is queued or waits is numbered, in order, and what it is numbered as. *)
InOrder ==
  /\ \A i \in DOMAIN arrived : arrived[i].n = i
  /\ Ascends(queue)
  /\ \A j \in DOMAIN queue : queue[j].n \in DOMAIN arrived /\ arrived[queue[j].n] = queue[j]
  /\ Ascends(waiters) /\ Len(waiters) <= Len(answer)
  /\ \A k \in DOMAIN waiters :
       waiters[k].n \in DOMAIN answer /\ answer[waiters[k].n] = Inbox!Pending

(* A frame is queued until it is handed to a read, and to one. *)
InOnePlace ==
  /\ \A i \in DOMAIN arrived :
       (\E j \in DOMAIN queue : queue[j].n = i) <=> i \notin Handed
  /\ Handed \subseteq DOMAIN arrived
  /\ \A v, w \in Inbox!Given : answer[v] = answer[w] => v = w
  /\ bytes = Cardinality(Inbox!BytesOf(queue))

InboxHolds ==
  /\ Inbox!TypeOK /\ Inbox!NoneIdle /\ Inbox!ClosedEnds
  /\ InOrder
  /\ closed = "open" => InOnePlace

AnswerRow == [state : {"done", "failed", "pending", "given"}, n : 0..MaxPush]

LEMMA InboxTyped ==
  ASSUME Inbox!TypeOK
  PROVE  /\ queue \in Seq(Inbox!Item) /\ waiters \in Seq(Inbox!Waiter)
         /\ arrived \in Seq(Inbox!Item) /\ answer \in Seq(AnswerRow)
         /\ Len(arrived) \in Nat /\ DOMAIN arrived = 1..Len(arrived)
         /\ Len(answer) \in Nat /\ DOMAIN answer = 1..Len(answer)
         /\ Len(queue) \in Nat /\ DOMAIN queue = 1..Len(queue)
         /\ Len(waiters) \in Nat /\ DOMAIN waiters = 1..Len(waiters)
         /\ \A k \in DOMAIN waiters : waiters[k] \in Inbox!Waiter /\ waiters[k].n \in Int
         /\ \A j \in DOMAIN queue : queue[j] \in Inbox!Item /\ queue[j].n \in Int
         /\ \A i \in DOMAIN arrived : arrived[i] \in Inbox!Item
         /\ \A w \in DOMAIN answer : answer[w] \in AnswerRow
         /\ IsNumbered(queue) /\ IsNumbered(waiters)
         /\ MaxItems \in Nat \ {0} /\ MaxBytes \in Nat \ {0} /\ MaxPush \in Nat /\ MaxRead \in Nat
<1>1. /\ queue \in Seq(Inbox!Item) /\ waiters \in Seq(Inbox!Waiter)
      /\ arrived \in Seq(Inbox!Item) /\ answer \in Seq(AnswerRow)
  BY DEF Inbox!TypeOK, AnswerRow, Inbox!Ended
<1>2. MaxItems \in Nat \ {0} /\ MaxBytes \in Nat \ {0} /\ MaxPush \in Nat /\ MaxRead \in Nat
  BY ProcessAssumption DEF Inbox!InboxAssumption
<1>3. /\ Len(arrived) \in Nat /\ DOMAIN arrived = 1..Len(arrived)
      /\ Len(answer) \in Nat /\ DOMAIN answer = 1..Len(answer)
      /\ Len(queue) \in Nat /\ DOMAIN queue = 1..Len(queue)
      /\ Len(waiters) \in Nat /\ DOMAIN waiters = 1..Len(waiters)
  BY <1>1, LenProperties
<1>4. /\ \A k \in DOMAIN waiters : waiters[k] \in Inbox!Waiter
      /\ \A j \in DOMAIN queue : queue[j] \in Inbox!Item
      /\ \A i \in DOMAIN arrived : arrived[i] \in Inbox!Item
      /\ \A w \in DOMAIN answer : answer[w] \in AnswerRow
  BY <1>1, <1>3, ElementOfSeq
<1>5. /\ \A k \in DOMAIN waiters : waiters[k].n \in Int
      /\ \A j \in DOMAIN queue : queue[j].n \in Int
  BY <1>2, <1>4 DEF Inbox!Waiter, Inbox!Item
<1> QED
  BY <1>1, <1>2, <1>3, <1>4, <1>5 DEF IsNumbered

(* The bytes of one frame more. *)
LEMMA BytesMore ==
  ASSUME NEW q, NEW r, ToSet(q) \subseteq Inbox!Item, NEW i \in Inbox!Item,
         ToSet(r) = ToSet(q) \cup {i}, \A x \in ToSet(q) : x.n # i.n
  PROVE  /\ Cardinality(Inbox!BytesOf(q)) \in Nat
         /\ Cardinality(Inbox!BytesOf(r)) = Cardinality(Inbox!BytesOf(q)) + i.bytes
<1>1. MaxBytes \in Nat \ {0} /\ MaxPush \in Nat
  BY ProcessAssumption DEF Inbox!InboxAssumption
<1>2. i.n \in 1..MaxPush /\ i.bytes \in 0..MaxBytes
  BY DEF Inbox!Item
<1> DEFINE All == (1..MaxPush) \X (1..MaxBytes)
           A == Inbox!BytesOf(q)
           B == {i.n} \X (1..i.bytes)
<1>3. IsFiniteSet(All)
  <2>1. IsFiniteSet(1..MaxPush) /\ IsFiniteSet(1..MaxBytes)
    BY <1>1, FS_Interval
  <2> QED
    BY <2>1, FS_Product
<1>4. A \in SUBSET All /\ B \in SUBSET All
  BY <1>1, <1>2 DEF Inbox!BytesOf
<1>5. A \cap B = {}
  BY DEF Inbox!BytesOf, Inbox!ToSet, ToSet
<1>6. Inbox!BytesOf(r) = A \cup B
  <2>1. \A b \in B : b[1] = i.n /\ b[2] <= i.bytes
    BY <1>2
  <2>2. \A b \in All : b[1] = i.n /\ b[2] <= i.bytes => b \in B
    BY <1>1, <1>2
  <2>3. \A b \in All : b \in Inbox!BytesOf(r)
           <=> (\E x \in ToSet(q) : b[1] = x.n /\ b[2] <= x.bytes) \/ (b[1] = i.n /\ b[2] <= i.bytes)
    BY DEF Inbox!BytesOf, Inbox!ToSet, ToSet
  <2>4. \A b \in All : b \in A <=> \E x \in ToSet(q) : b[1] = x.n /\ b[2] <= x.bytes
    BY DEF Inbox!BytesOf, Inbox!ToSet, ToSet
  <2>5. Inbox!BytesOf(r) \in SUBSET All
    BY DEF Inbox!BytesOf
  <2> HIDE DEF A, B, All
  <2> QED
    BY <1>4, <2>1, <2>2, <2>3, <2>4, <2>5
<1>7. Cardinality(B) = i.bytes
  <2> DEFINE One == {i.n}
             Bytes == 1..i.bytes
  <2>1. IsFiniteSet(One) /\ Cardinality(One) = 1
    BY FS_Singleton
  <2>2. IsFiniteSet(Bytes) /\ Cardinality(Bytes) = i.bytes
    <3> DEFINE k == i.bytes
    <3>1. k \in Nat
      BY <1>1, <1>2
    <3>2. IsFiniteSet(1..k) /\ Cardinality(1..k) = IF 1 > k THEN 0 ELSE k - 1 + 1
      BY <3>1, FS_Interval
    <3> HIDE DEF k
    <3>3. Cardinality(1..k) = k
      BY <3>1, <3>2
    <3> QED
      BY <3>2, <3>3 DEF k
  <2> HIDE DEF One, Bytes
  <2>3. Cardinality(One \X Bytes) = Cardinality(One) * Cardinality(Bytes)
    BY <2>1, <2>2, FS_Product
  <2>4. Cardinality(One) * Cardinality(Bytes) = i.bytes
    BY <1>1, <1>2, <2>1, <2>2
  <2> QED
    BY <2>3, <2>4 DEF One, Bytes
<1> HIDE DEF A, B, All
<1>8. IsFiniteSet(A) /\ Cardinality(A) \in Nat /\ IsFiniteSet(B) /\ Cardinality(A \cap B) = 0
  BY <1>3, <1>4, <1>5, FS_Subset, FS_CardinalityType, FS_EmptySet
<1>9. Cardinality(A \cup B) = Cardinality(A) + Cardinality(B) - 0
  BY <1>8, FS_Union
<1>10. i.bytes \in Nat
  BY <1>1, <1>2
<1>11. Cardinality(Inbox!BytesOf(r)) = Cardinality(A) + i.bytes
  BY <1>6, <1>7, <1>8, <1>9, <1>10
<1> QED
  BY <1>8, <1>11 DEF A

LEMMA ServerIs ==
  ASSUME Inbox!TypeOK, NEW kind
  PROVE  \/ Inbox!Server(kind) = 0 /\ \A k \in DOMAIN waiters : kind \notin waiters[k].wants
         \/ /\ Inbox!Server(kind) \in DOMAIN waiters /\ Inbox!Server(kind) # 0
            /\ kind \in waiters[Inbox!Server(kind)].wants
            /\ \A k \in DOMAIN waiters : kind \in waiters[k].wants => Inbox!Server(kind) <= k
<1> DEFINE K == {k \in 1..Len(waiters) : kind \in waiters[k].wants}
<1>1. Inbox!Server(kind) = IF K # {} THEN Min(K) ELSE 0
  BY DEF Inbox!Server, Inbox!SelectInSeq, Inbox!Min, Min
<1>2. Len(waiters) \in Nat /\ DOMAIN waiters = 1..Len(waiters) /\ K \subseteq 1..Len(waiters)
  BY InboxTyped
<1>3. CASE K = {}
  BY <1>1, <1>2, <1>3
<1>4. CASE K # {}
  <2>1. Min(K) \in K /\ \A k \in K : Min(K) <= k
    BY <1>2, <1>4, FirstPlace
  <2>2. Min(K) # 0
    BY <1>2, <2>1
  <2> QED
    BY <1>1, <1>2, <1>4, <2>1, <2>2
<1> QED
  BY <1>3, <1>4

LEMMA FoundIs ==
  ASSUME Inbox!TypeOK, NEW wants
  PROVE  \/ Inbox!Found(wants) = 0 /\ \A j \in DOMAIN queue : queue[j].kind \notin wants
         \/ /\ Inbox!Found(wants) \in DOMAIN queue /\ Inbox!Found(wants) # 0
            /\ queue[Inbox!Found(wants)].kind \in wants
            /\ \A j \in DOMAIN queue : queue[j].kind \in wants => Inbox!Found(wants) <= j
<1> DEFINE K == {k \in 1..Len(queue) : queue[k].kind \in wants}
<1>1. Inbox!Found(wants) = IF K # {} THEN Min(K) ELSE 0
  BY DEF Inbox!Found, Inbox!SelectInSeq, Inbox!Min, Min
<1>2. Len(queue) \in Nat /\ DOMAIN queue = 1..Len(queue) /\ K \subseteq 1..Len(queue)
  BY InboxTyped
<1>3. CASE K = {}
  BY <1>1, <1>2, <1>3
<1>4. CASE K # {}
  <2>1. Min(K) \in K /\ \A k \in K : Min(K) <= k
    BY <1>2, <1>4, FirstPlace
  <2>2. Min(K) # 0
    BY <1>2, <2>1
  <2> QED
    BY <1>1, <1>2, <1>4, <2>1, <2>2
<1> QED
  BY <1>3, <1>4

LEMMA InboxTells ==
  ASSUME InboxHolds
  PROVE  Inbox!TypeOK /\ Inbox!NoneIdle /\ Inbox!NothingLost /\ Inbox!ClosedEnds
<1>1. Inbox!TypeOK /\ InOrder /\ Inbox!NoneIdle /\ Inbox!ClosedEnds
  BY DEF InboxHolds
<1>2. ASSUME closed = "open"
      PROVE  queue = Inbox!Omit(arrived, {i \in Inbox!ToSet(arrived) :
                                            \E w \in Inbox!Given : answer[w].n = i.n})
  <2> DEFINE T == {i \in ToSet(arrived) : \E w \in Inbox!Given : answer[w].n = i.n}
  <2>1. InOnePlace
    BY <1>2 DEF InboxHolds
  <2>2. \A k \in DOMAIN arrived : arrived[k] \in T <=> k \in Handed
    BY <1>1 DEF InOrder, Handed, ToSet
  <2>3. \A k \in DOMAIN arrived : (\E j \in DOMAIN queue : queue[j].n = k) <=> arrived[k] \notin T
    BY <2>1, <2>2 DEF InOnePlace
  <2> HIDE DEF T
  <2>4. queue = Omit(arrived, T)
    <3>1. arrived \in Seq(Inbox!Item) /\ queue \in Seq(Inbox!Item)
      BY <1>1, InboxTyped
    <3>2. /\ \A k \in DOMAIN arrived : arrived[k].n = k
          /\ Ascends(queue)
          /\ \A j \in DOMAIN queue : queue[j].n \in DOMAIN arrived /\ arrived[queue[j].n] = queue[j]
      BY <1>1 DEF InOrder
    <3> QED
      BY <2>3, <3>1, <3>2, TheRest
  <2>5. Inbox!Omit(arrived, T) = Omit(arrived, T)
    BY DEF Inbox!Omit, Inbox!Subsequence, Inbox!Place, Inbox!Cardinality,
           Omit, Subsequence, Place, Cardinality
  <2>6. T = {i \in Inbox!ToSet(arrived) : \E w \in Inbox!Given : answer[w].n = i.n}
    BY DEF T, Inbox!ToSet, ToSet
  <2> QED
    BY <2>4, <2>5, <2>6
<1> QED
  BY <1>1, <1>2 DEF InboxHolds, InOnePlace, Inbox!NothingLost, Inbox!Cardinality, Cardinality

(* A frame that arrives is the last one. *)
LEMMA ArrivedIs ==
  ASSUME Inbox!TypeOK, InOrder, NEW kind \in Kind, NEW size \in 0..MaxBytes, NEW i,
         i = [n |-> Len(arrived) + 1, kind |-> kind, bytes |-> size],
         Len(arrived) < MaxPush, arrived' = Append(arrived, i)
  PROVE  /\ i \in Inbox!Item /\ i.n \notin DOMAIN arrived
         /\ arrived' \in Seq(Inbox!Item) /\ Len(arrived') <= MaxPush
         /\ DOMAIN arrived' = (DOMAIN arrived) \cup {i.n} /\ arrived'[i.n] = i
         /\ \A k \in DOMAIN arrived : arrived'[k] = arrived[k]
         /\ \A k \in DOMAIN arrived' : arrived'[k].n = k
         /\ \A j \in DOMAIN queue : queue[j].n < i.n
<1> DEFINE n == Len(arrived)
<1>1. /\ n \in Nat /\ DOMAIN arrived = 1..n /\ arrived \in Seq(Inbox!Item) /\ MaxPush \in Nat
      /\ \A j \in DOMAIN queue : queue[j].n \in DOMAIN arrived
  BY InboxTyped DEF InOrder
<1>2. i \in Inbox!Item
  BY <1>1 DEF Inbox!Item
<1>3. /\ arrived' \in Seq(Inbox!Item) /\ Len(arrived') = n + 1 /\ DOMAIN arrived' = 1..(n + 1)
      /\ arrived'[n + 1] = i /\ \A k \in 1..n : arrived'[k] = arrived[k]
  BY <1>1, <1>2, AppendProperties, LenProperties
<1> HIDE DEF n
<1>4. i.n = n + 1
  BY DEF n
<1>5. \A k \in 1..(n + 1) : k \in 1..n \/ k = n + 1
  BY <1>1
<1>6. \A k \in 1..n : k < n + 1 /\ k \in 1..(n + 1)
  BY <1>1
<1>7. n + 1 \in 1..(n + 1) /\ n + 1 \notin 1..n /\ n + 1 <= MaxPush
  BY <1>1 DEF n
<1>8. \A k \in DOMAIN arrived : arrived[k].n = k
  BY DEF InOrder
<1> QED
  BY <1>1, <1>2, <1>3, <1>4, <1>5, <1>6, <1>7, <1>8

(* Where nothing is given, nothing is given out of turn. *)
LEMMA NothingGiven ==
  ASSUME \A x \in ToSet(answer') : x \in ToSet(answer) \/ x.state # "given"
  PROVE  Inbox!InTurn
BY DEF Inbox!InTurn, Inbox!Gave, Inbox!ToSet, ToSet

(* A frame that is given is given in its turn. *)
LEMMA GivenInTurn ==
  ASSUME NEW i, \A x \in ToSet(answer') : x \in ToSet(answer) \/ x = Inbox!Gave(i),
         \A k \in DOMAIN arrived' : arrived'[k].n = k, i \in ToSet(arrived'),
         \A q \in ToSet(queue) : q.kind = i.kind => i.n <= q.n,
         \A v \in ToSet(waiters) : i.kind \in v.wants =>
           \E w \in 1..v.n : answer'[w] = Inbox!Gave(i)
  PROVE  Inbox!InTurn
<1>1. ASSUME NEW x \in ToSet(arrived'), Inbox!Gave(x) \in ToSet(answer') \ ToSet(answer)
      PROVE  x = i
  <2>1. Inbox!Gave(x) = Inbox!Gave(i)
    BY <1>1
  <2>2. x.n = i.n
    BY <2>1 DEF Inbox!Gave
  <2>3. x = arrived'[x.n] /\ i = arrived'[i.n]
    BY <1>1 DEF ToSet
  <2> QED
    BY <2>2, <2>3
<1> QED
  BY <1>1 DEF Inbox!InTurn, Inbox!ToSet, ToSet

(* A read that waits is given the frame that arrives. *)
LEMMA ServeHolds ==
  ASSUME InboxHolds, NEW kind \in Kind, NEW size \in 0..MaxBytes, NEW i, NEW at,
         i = [n |-> Len(arrived) + 1, kind |-> kind, bytes |-> size],
         at = Inbox!Server(kind), at # 0, closed = "open", Len(arrived) < MaxPush,
         answer' = [answer EXCEPT ![waiters[at].n] = Inbox!Gave(i)],
         waiters' = RemoveAt(waiters, at),
         arrived' = Append(arrived, i),
         UNCHANGED <<queue, bytes, closed>>
  PROVE  InboxHolds' /\ Inbox!InTurn
<1>1. Inbox!TypeOK /\ Inbox!NoneIdle /\ InOrder /\ InOnePlace
  BY DEF InboxHolds
<1>2. /\ at \in DOMAIN waiters /\ kind \in waiters[at].wants
      /\ \A k \in DOMAIN waiters : kind \in waiters[k].wants => at <= k
  BY <1>1, ServerIs
<1> DEFINE w == waiters[at].n
<1>3. /\ i \in Inbox!Item /\ i.n \notin DOMAIN arrived
      /\ arrived' \in Seq(Inbox!Item) /\ Len(arrived') <= MaxPush
      /\ DOMAIN arrived' = (DOMAIN arrived) \cup {i.n} /\ arrived'[i.n] = i
      /\ \A k \in DOMAIN arrived : arrived'[k] = arrived[k]
      /\ \A k \in DOMAIN arrived' : arrived'[k].n = k
  BY <1>1, ArrivedIs
<1>4. /\ waiters' \in Seq(Inbox!Waiter) /\ Len(waiters') = Len(waiters) - 1
      /\ Ascends(waiters') /\ ToSet(waiters') = {waiters[k] : k \in (DOMAIN waiters) \ {at}}
  <2>1. /\ waiters \in Seq(Inbox!Waiter) /\ at \in 1..Len(waiters)
        /\ IsNumbered(waiters) /\ Ascends(waiters)
    BY <1>1, <1>2, InboxTyped DEF InOrder
  <2> QED
    BY <2>1, CutAscends
<1>5. /\ w \in DOMAIN answer /\ answer[w] = Inbox!Pending
      /\ \A k \in DOMAIN waiters : k # at => waiters[k].n # w
  <2>1. ASSUME NEW k \in DOMAIN waiters, k # at PROVE waiters[k].n # w
    <3>1. k < at \/ at < k
      BY <1>1, <1>2, <2>1, InboxTyped
    <3>2. waiters[k].n \in Int /\ w \in Int
      BY <1>1, <1>2, InboxTyped
    <3> QED
      BY <1>1, <1>2, <3>1, <3>2 DEF InOrder, Ascends
  <2> QED
    BY <1>1, <1>2, <2>1 DEF InOrder
<1> HIDE DEF w
<1>6. answer' = [answer EXCEPT ![w] = Inbox!Gave(i)]
  BY DEF w
<1>7. Inbox!Gave(i) \in AnswerRow
  BY <1>3 DEF AnswerRow, Inbox!Gave, Inbox!Item
<1>8. /\ answer' \in Seq(AnswerRow) /\ Len(answer') = Len(answer) /\ DOMAIN answer' = DOMAIN answer
      /\ answer'[w] = Inbox!Gave(i) /\ \A v \in DOMAIN answer : v # w => answer'[v] = answer[v]
  <2>1. answer \in Seq(AnswerRow) /\ DOMAIN answer = 1..Len(answer)
    BY <1>1, InboxTyped
  <2>2. answer' \in Seq(AnswerRow) /\ Len(answer') = Len(answer)
    <3>1. w \in 1..Len(answer)
      BY <1>5, <2>1
    <3> DEFINE e == Inbox!Gave(i)
    <3>2. e \in AnswerRow /\ answer' = [answer EXCEPT ![w] = e]
      BY <1>6, <1>7
    <3> HIDE DEF e
    <3>3. /\ [answer EXCEPT ![w] = e] \in Seq(AnswerRow)
          /\ Len([answer EXCEPT ![w] = e]) = Len(answer)
      BY <2>1, <3>1, <3>2, ExceptSeq
    <3> QED
      BY <3>2, <3>3
  <2> QED
    BY <1>5, <1>6, <2>1, <2>2
<1>9. Inbox!TypeOK'
  BY <1>1, <1>3, <1>4, <1>8, InboxTyped DEF Inbox!TypeOK, AnswerRow, Inbox!Ended
<1>10. Inbox!NoneIdle' /\ Inbox!ClosedEnds'
  <2>1. ToSet(waiters') \subseteq ToSet(waiters)
    BY <1>4 DEF ToSet
  <2>2. Inbox!NoneIdle'
    BY <1>1, <2>1 DEF Inbox!NoneIdle, Inbox!ToSet, ToSet
  <2> QED
    BY <2>2 DEF Inbox!ClosedEnds
<1>11. InOrder'
  <2>1. \A j \in DOMAIN queue : queue[j].n \in DOMAIN arrived' /\ arrived'[queue[j].n] = queue[j]
    BY <1>1, <1>3 DEF InOrder
  <2>2. Len(waiters') <= Len(answer')
    BY <1>1, <1>4, <1>8, InboxTyped DEF InOrder
  <2>3. ASSUME NEW k \in DOMAIN waiters'
        PROVE  waiters'[k].n \in DOMAIN answer' /\ answer'[waiters'[k].n] = Inbox!Pending
    <3>1. PICK l \in (DOMAIN waiters) \ {at} : waiters'[k] = waiters[l]
      BY <1>4 DEF ToSet
    <3> QED
      BY <1>1, <1>5, <1>8, <3>1 DEF InOrder
  <2>4. Ascends(queue) /\ queue' = queue
    BY <1>1 DEF InOrder
  <2> QED
    BY <1>3, <1>4, <2>1, <2>2, <2>3, <2>4 DEF InOrder, Inbox!Pending, Inbox!End
<1>12. Inbox!Given' = Inbox!Given \cup {w} /\ w \notin Inbox!Given
  BY <1>5, <1>8 DEF Inbox!Given, Inbox!Gave, Inbox!Pending, Inbox!End
<1>13. Handed' = Handed \cup {i.n}
  <2>1. \A v \in Inbox!Given : answer'[v] = answer[v]
    BY <1>8, <1>12 DEF Inbox!Given
  <2>2. answer'[w].n = i.n
    BY <1>8 DEF Inbox!Gave
  <2> QED
    BY <1>12, <2>1, <2>2 DEF Handed
<1>14. InOnePlace'
  <2>1. ASSUME NEW k \in DOMAIN arrived'
        PROVE  (\E j \in DOMAIN queue : queue[j].n = k) <=> k \notin Handed'
    BY <1>1, <1>3, <1>13 DEF InOnePlace, InOrder
  <2>2. ASSUME NEW u \in Inbox!Given', NEW v \in Inbox!Given', answer'[u] = answer'[v] PROVE u = v
    <3>1. \A x \in Inbox!Given : answer'[x] = answer[x] /\ answer[x].n \in DOMAIN arrived
      BY <1>1, <1>8, <1>12 DEF Inbox!Given, InOnePlace, Handed
    <3>2. answer'[w].n = i.n
      BY <1>8 DEF Inbox!Gave
    <3> QED
      BY <1>1, <1>3, <1>12, <2>2, <3>1, <3>2 DEF InOnePlace
  <2>3. Handed' \subseteq DOMAIN arrived'
    BY <1>1, <1>3, <1>13 DEF InOnePlace
  <2>4. bytes' = Cardinality(Inbox!BytesOf(queue')) /\ queue' = queue
    BY <1>1 DEF InOnePlace
  <2> QED
    BY <2>1, <2>2, <2>3, <2>4 DEF InOnePlace
<1>15. Inbox!InTurn
  <2>1. \A x \in ToSet(answer') : x \in ToSet(answer) \/ x = Inbox!Gave(i)
    BY <1>8 DEF ToSet
  <2>2. i \in ToSet(arrived') /\ i.kind = kind
    BY <1>3 DEF ToSet
  <2>3. \A q \in ToSet(queue) : q.kind # kind
    BY <1>1, <1>2 DEF Inbox!NoneIdle, Inbox!ToSet, ToSet
  <2>4. ASSUME NEW v \in ToSet(waiters), kind \in v.wants PROVE w \in 1..v.n
    <3>1. PICK k \in DOMAIN waiters : v = waiters[k]
      BY <2>4 DEF ToSet
    <3>2. at = k \/ at < k
      BY <1>1, <1>2, <2>4, <3>1, InboxTyped
    <3>3. w = v.n \/ w < v.n
      BY <1>1, <1>2, <3>1, <3>2 DEF InOrder, Ascends, w
    <3>4. v.n \in Int /\ w \in Nat \ {0}
      BY <1>1, <1>5, <3>1, InboxTyped
    <3> QED
      BY <3>3, <3>4
  <2>5. /\ \A q \in ToSet(queue) : q.kind = i.kind => i.n <= q.n
        /\ \A v \in ToSet(waiters) : i.kind \in v.wants =>
             \E u \in 1..v.n : answer'[u] = Inbox!Gave(i)
    BY <1>8, <2>2, <2>3, <2>4
  <2>6. \A k \in DOMAIN arrived' : arrived'[k].n = k
    BY <1>3
  <2> QED
    BY <2>1, <2>2, <2>5, <2>6, GivenInTurn
<1> QED
  BY <1>9, <1>10, <1>11, <1>14, <1>15 DEF InboxHolds

(* A frame that nobody waits for is queued. *)
LEMMA EnqueueHolds ==
  ASSUME InboxHolds, NEW kind \in Kind, NEW size \in 0..MaxBytes, NEW i,
         i = [n |-> Len(arrived) + 1, kind |-> kind, bytes |-> size],
         Inbox!Server(kind) = 0, Inbox!Fits(i), closed = "open", Len(arrived) < MaxPush,
         queue' = Append(queue, i), bytes' = bytes + size,
         arrived' = Append(arrived, i),
         UNCHANGED <<waiters, closed, answer>>
  PROVE  InboxHolds' /\ Inbox!InTurn
<1>1. Inbox!TypeOK /\ Inbox!NoneIdle /\ InOrder /\ InOnePlace
  BY DEF InboxHolds
<1>2. \A k \in DOMAIN waiters : kind \notin waiters[k].wants
  BY <1>1, ServerIs
<1>3. /\ i \in Inbox!Item /\ i.n \notin DOMAIN arrived
      /\ arrived' \in Seq(Inbox!Item) /\ Len(arrived') <= MaxPush
      /\ DOMAIN arrived' = (DOMAIN arrived) \cup {i.n} /\ arrived'[i.n] = i
      /\ \A k \in DOMAIN arrived : arrived'[k] = arrived[k]
      /\ \A k \in DOMAIN arrived' : arrived'[k].n = k
      /\ \A j \in DOMAIN queue : queue[j].n < i.n
  BY <1>1, ArrivedIs
<1>4. /\ queue' \in Seq(Inbox!Item) /\ Len(queue') = Len(queue) + 1
      /\ Ascends(queue') /\ ToSet(queue') = ToSet(queue) \cup {i}
  <2>1. queue \in Seq(Inbox!Item) /\ Ascends(queue)
    BY <1>1, InboxTyped DEF InOrder
  <2> QED
    BY <1>3, <2>1, AddAscends
<1>5. bytes' = Cardinality(Inbox!BytesOf(queue')) /\ bytes' \in 0..MaxBytes
  <2>1. ToSet(queue) \subseteq Inbox!Item
    BY <1>1, InboxTyped DEF ToSet
  <2>2. \A x \in ToSet(queue) : x.n # i.n
    BY <1>1, <1>3 DEF InOrder, ToSet
  <2>3. Cardinality(Inbox!BytesOf(queue')) = Cardinality(Inbox!BytesOf(queue)) + i.bytes
    <3> DEFINE r == queue'
    <3>1. i \in Inbox!Item /\ ToSet(r) = ToSet(queue) \cup {i}
      BY <1>3, <1>4
    <3> HIDE DEF r
    <3>2. Cardinality(Inbox!BytesOf(r)) = Cardinality(Inbox!BytesOf(queue)) + i.bytes
      BY <2>1, <2>2, <3>1, BytesMore
    <3> QED
      BY <3>2 DEF r
  <2>4. bytes \in Nat /\ bytes + size <= MaxBytes /\ MaxBytes \in Nat /\ i.bytes = size
    BY <1>1, InboxTyped DEF Inbox!Fits, Inbox!TypeOK
  <2> QED
    BY <1>1, <2>3, <2>4 DEF InOnePlace
<1>6. Inbox!TypeOK'
  <2>1. Len(queue') <= MaxItems
    BY <1>1, <1>4, InboxTyped DEF Inbox!Fits
  <2> QED
    BY <1>1, <1>3, <1>4, <1>5, <2>1 DEF Inbox!TypeOK
<1>7. Inbox!NoneIdle' /\ Inbox!ClosedEnds'
  <2>1. \A w \in ToSet(waiters) : i.kind \notin w.wants
    BY <1>2 DEF ToSet
  <2> QED
    BY <1>1, <1>4, <2>1 DEF Inbox!NoneIdle, Inbox!ClosedEnds, Inbox!ToSet, ToSet
<1>8. ASSUME NEW x \in ToSet(queue') PROVE x.n \in DOMAIN arrived' /\ arrived'[x.n] = x
  BY <1>1, <1>3, <1>4, <1>8 DEF InOrder, ToSet
<1>9. InOrder'
  <2>1. \A j \in DOMAIN queue' : queue'[j].n \in DOMAIN arrived' /\ arrived'[queue'[j].n] = queue'[j]
    BY <1>8 DEF ToSet
  <2>2. /\ Ascends(waiters) /\ Len(waiters) <= Len(answer)
        /\ \A k \in DOMAIN waiters :
             waiters[k].n \in DOMAIN answer /\ answer[waiters[k].n] = Inbox!Pending
    BY <1>1 DEF InOrder
  <2> QED
    BY <1>3, <1>4, <2>1, <2>2 DEF InOrder, Inbox!Pending, Inbox!End
<1>10. Inbox!Given' = Inbox!Given /\ Handed' = Handed
  BY DEF Inbox!Given, Handed
<1>11. InOnePlace'
  <2>1. ASSUME NEW k \in DOMAIN arrived'
        PROVE  (\E j \in DOMAIN queue' : queue'[j].n = k) <=> k \notin Handed
    <3>1. (\E j \in DOMAIN queue' : queue'[j].n = k) <=> \E x \in ToSet(queue') : x.n = k
      BY DEF ToSet
    <3>2. (\E x \in ToSet(queue') : x.n = k) <=> (\E x \in ToSet(queue) : x.n = k) \/ k = i.n
      BY <1>4
    <3>3. (\E x \in ToSet(queue) : x.n = k) <=> \E j \in DOMAIN queue : queue[j].n = k
      BY DEF ToSet
    <3>4. CASE k = i.n
      BY <1>1, <1>3, <3>1, <3>2, <3>4 DEF InOnePlace
    <3>5. CASE k # i.n
      <4>1. k \in DOMAIN arrived
        BY <1>3, <3>5
      <4>2. (\E j \in DOMAIN queue : queue[j].n = k) <=> k \notin Handed
        BY <1>1, <4>1 DEF InOnePlace
      <4> QED
        BY <3>1, <3>2, <3>3, <3>5, <4>2
    <3> QED
      BY <3>4, <3>5
  <2>2. Handed \subseteq DOMAIN arrived'
    BY <1>1, <1>3 DEF InOnePlace
  <2> QED
    BY <1>1, <1>5, <1>10, <2>1, <2>2 DEF InOnePlace
<1>12. Inbox!InTurn
  BY NothingGiven DEF ToSet
<1> QED
  BY <1>6, <1>7, <1>9, <1>11, <1>12 DEF InboxHolds

(* What is queued goes with the connection, and no read waits on. *)
LEMMA InboxCloses ==
  ASSUME InboxHolds, NEW error \in Inbox!Ended, closed = "open", Inbox!CloseWith(error)
  PROVE  InboxHolds' /\ Inbox!InTurn
<1>1. Inbox!TypeOK /\ InOrder
  BY DEF InboxHolds
<1>2. /\ closed' = error /\ queue' = <<>> /\ bytes' = 0 /\ waiters' = <<>> /\ arrived' = arrived
      /\ answer' = [w \in DOMAIN answer |->
                      IF answer[w] = Inbox!Pending THEN Inbox!End(error) ELSE answer[w]]
  BY DEF Inbox!CloseWith
<1>3. error \in {"done", "failed"} /\ closed' # "open"
  BY <1>2 DEF Inbox!Ended
<1>4. /\ Len(answer) \in Nat /\ DOMAIN answer = 1..Len(answer) /\ answer \in Seq(AnswerRow)
      /\ \A w \in DOMAIN answer : answer[w] \in AnswerRow
      /\ MaxPush \in Nat /\ MaxItems \in Nat /\ MaxBytes \in Nat /\ MaxRead \in Nat
  BY <1>1, InboxTyped
<1>5. Inbox!End(error) \in AnswerRow /\ Inbox!End(error) # Inbox!Pending
  BY <1>3, <1>4 DEF Inbox!End, AnswerRow, Inbox!Pending
<1>6. \A w \in DOMAIN answer : answer'[w] \in AnswerRow /\ answer'[w] # Inbox!Pending
  BY <1>2, <1>4, <1>5
<1>7. answer' \in Seq(AnswerRow) /\ Len(answer') = Len(answer) /\ DOMAIN answer' = DOMAIN answer
  <2>1. DOMAIN answer' = 1..Len(answer) /\ answer' = [w \in 1..Len(answer) |-> answer'[w]]
    BY <1>2, <1>4
  <2>2. answer' \in Seq(AnswerRow)
    BY <1>4, <1>6, <2>1, IsASeq
  <2> QED
    BY <1>4, <2>1, <2>2, LenProperties
<1>8. /\ queue' \in Seq(Inbox!Item) /\ Len(queue') = 0 /\ DOMAIN queue' = {}
      /\ waiters' \in Seq(Inbox!Waiter) /\ Len(waiters') = 0 /\ DOMAIN waiters' = {}
  BY <1>2
<1>9. Inbox!TypeOK'
  <2>1. Len(queue') <= MaxItems /\ Len(waiters') <= MaxRead /\ bytes' \in 0..MaxBytes
    BY <1>2, <1>4, <1>8
  <2>2. /\ arrived' \in Seq(Inbox!Item) /\ Len(arrived') <= MaxPush
        /\ Len(answer') <= MaxRead
    BY <1>1, <1>2, <1>7 DEF Inbox!TypeOK
  <2> QED
    BY <1>2, <1>3, <1>7, <1>8, <2>1, <2>2 DEF Inbox!TypeOK, AnswerRow, Inbox!Ended
<1>10. Inbox!NoneIdle'
  BY <1>8 DEF Inbox!NoneIdle, Inbox!ToSet
<1>11. Inbox!ClosedEnds'
  BY <1>2, <1>6, <1>7 DEF Inbox!ClosedEnds, Inbox!Pending, Inbox!End
<1>12. InOrder'
  BY <1>1, <1>2, <1>4, <1>7, <1>8 DEF InOrder, Ascends
<1>13. Inbox!InTurn
  <2>1. ASSUME NEW x \in ToSet(answer') PROVE x \in ToSet(answer) \/ x.state # "given"
    <3>1. PICK w \in DOMAIN answer : x = answer'[w]
      BY <1>7, <2>1 DEF ToSet
    <3>2. Inbox!End(error).state # "given"
      BY <1>3 DEF Inbox!End
    <3> QED
      BY <1>2, <3>1, <3>2 DEF ToSet
  <2> QED
    BY <2>1, NothingGiven
<1> QED
  BY <1>3, <1>9, <1>10, <1>11, <1>12, <1>13 DEF InboxHolds

(* A read is the last one, and has the answer it got. *)
LEMMA AnsweredIs ==
  ASSUME Inbox!TypeOK, NEW e \in AnswerRow, Len(answer) + 1 <= MaxRead, answer' = Append(answer, e)
  PROVE  /\ answer' \in Seq(AnswerRow) /\ Len(answer') = Len(answer) + 1 /\ Len(answer') <= MaxRead
         /\ DOMAIN answer' = (DOMAIN answer) \cup {Len(answer) + 1}
         /\ Len(answer) + 1 \notin DOMAIN answer
         /\ answer'[Len(answer) + 1] = e
         /\ \A v \in DOMAIN answer : answer'[v] = answer[v] /\ v < Len(answer) + 1
<1> DEFINE n == Len(answer)
<1>1. n \in Nat /\ DOMAIN answer = 1..n /\ answer \in Seq(AnswerRow)
  BY InboxTyped
<1>2. /\ answer' \in Seq(AnswerRow) /\ Len(answer') = n + 1 /\ DOMAIN answer' = 1..(n + 1)
      /\ answer'[n + 1] = e /\ \A v \in 1..n : answer'[v] = answer[v]
  BY <1>1, AppendProperties, LenProperties
<1> HIDE DEF n
<1>3. 1..(n + 1) = (1..n) \cup {n + 1} /\ n + 1 \notin 1..n /\ \A v \in 1..n : v < n + 1
  BY <1>1
<1>4. n + 1 <= MaxRead
  BY DEF n
<1> QED
  BY <1>1, <1>2, <1>3, <1>4 DEF n

(* What a read leaves as it is: the reads that wait, and what was given. *)
LEMMA ReadKeeps ==
  ASSUME InOrder, UNCHANGED <<arrived, waiters>>,
         DOMAIN answer \subseteq DOMAIN answer', \A v \in DOMAIN answer : answer'[v] = answer[v]
  PROVE  /\ \A k \in DOMAIN waiters' :
              waiters'[k].n \in DOMAIN answer' /\ answer'[waiters'[k].n] = Inbox!Pending
         /\ Ascends(waiters')
         /\ \A i \in DOMAIN arrived' : arrived'[i].n = i
BY DEF InOrder

(* A read that finds a frame takes the first one it wants. *)
LEMMA ReadTakes ==
  ASSUME InboxHolds, NEW wants, NEW at,
         at = Inbox!Found(wants), at # 0, Len(answer) + 1 <= MaxRead,
         answer' = Append(answer, Inbox!Gave(queue[at])),
         queue' = RemoveAt(queue, at), bytes' = bytes - Inbox!Freed(queue[at]),
         UNCHANGED <<waiters, closed, arrived>>
  PROVE  InboxHolds' /\ Inbox!InTurn
<1> DEFINE f == queue[at]
           w == Len(answer) + 1
<1>1. Inbox!TypeOK /\ Inbox!NoneIdle /\ InOrder /\ Inbox!ClosedEnds
  BY DEF InboxHolds
<1>2. /\ at \in DOMAIN queue /\ f.kind \in wants
      /\ \A j \in DOMAIN queue : queue[j].kind \in wants => at <= j
  BY <1>1, FoundIs
<1>3. closed = "open" /\ InOnePlace
  BY <1>1, <1>2 DEF InboxHolds, Inbox!ClosedEnds
<1>4. f \in Inbox!Item /\ f.n \in DOMAIN arrived /\ arrived[f.n] = f /\ f \in ToSet(queue)
  BY <1>1, <1>2, InboxTyped DEF InOrder, ToSet
<1>5. /\ queue' \in Seq(Inbox!Item) /\ Len(queue') = Len(queue) - 1
      /\ Ascends(queue') /\ ToSet(queue') = {queue[k] : k \in (DOMAIN queue) \ {at}}
  <2>1. /\ queue \in Seq(Inbox!Item) /\ at \in 1..Len(queue)
        /\ IsNumbered(queue) /\ Ascends(queue)
    BY <1>1, <1>2, InboxTyped DEF InOrder
  <2> QED
    BY <2>1, CutAscends
<1>6. ASSUME NEW k \in DOMAIN queue, k # at PROVE queue[k].n # f.n
  <2>1. k < at \/ at < k
    BY <1>1, <1>2, <1>6, InboxTyped
  <2>2. queue[k].n \in Int /\ f.n \in Int
    BY <1>1, <1>2, InboxTyped
  <2> QED
    BY <1>1, <1>2, <2>1, <2>2 DEF InOrder, Ascends
<1>7. Inbox!Gave(f) \in AnswerRow
  BY <1>4 DEF Inbox!Gave, AnswerRow, Inbox!Item
<1> HIDE DEF f, w
<1>8. /\ answer' \in Seq(AnswerRow) /\ Len(answer') = w /\ w <= MaxRead
      /\ DOMAIN answer' = (DOMAIN answer) \cup {w} /\ w \notin DOMAIN answer
      /\ answer'[w] = Inbox!Gave(f)
      /\ \A v \in DOMAIN answer : answer'[v] = answer[v]
  <2> DEFINE e == Inbox!Gave(f)
  <2>1. answer' = Append(answer, e)
    BY DEF f
  <2> HIDE DEF e
  <2>2. e \in AnswerRow
    BY <1>7 DEF e
  <2> QED
    BY <1>1, <2>1, <2>2, AnsweredIs DEF w, e
<1>9. bytes' = Cardinality(Inbox!BytesOf(queue')) /\ bytes' \in 0..MaxBytes
  <2> DEFINE q == queue'
  <2>1. /\ ToSet(q) \subseteq Inbox!Item /\ ToSet(queue) = ToSet(q) \cup {f}
        /\ \A x \in ToSet(q) : x.n # f.n
    <3>1. \A k \in DOMAIN queue : queue[k] \in Inbox!Item
      BY <1>1, InboxTyped
    <3>2. ToSet(q) = {queue[k] : k \in (DOMAIN queue) \ {at}}
      BY <1>5
    <3>3. ToSet(queue) = {queue[k] : k \in DOMAIN queue}
      BY DEF ToSet
    <3>4. f = queue[at]
      BY DEF f
    <3> HIDE DEF q
    <3> QED
      BY <1>2, <1>6, <3>1, <3>2, <3>3, <3>4
  <2> HIDE DEF q
  <2>2. /\ Cardinality(Inbox!BytesOf(q)) \in Nat
        /\ Cardinality(Inbox!BytesOf(queue)) = Cardinality(Inbox!BytesOf(q)) + f.bytes
    BY <1>4, <2>1, BytesMore
  <2>3. bytes \in 0..MaxBytes /\ f.bytes \in Nat /\ MaxBytes \in Nat /\ bytes' = bytes - f.bytes
    BY <1>1, <1>4, InboxTyped DEF Inbox!TypeOK, Inbox!Item, Inbox!Freed, f
  <2>4. bytes = Cardinality(Inbox!BytesOf(queue))
    BY <1>3 DEF InOnePlace
  <2>5. bytes' = Cardinality(Inbox!BytesOf(q)) /\ bytes' \in 0..MaxBytes
    BY <2>2, <2>3, <2>4
  <2> QED
    BY <2>5 DEF q
<1>10. Inbox!TypeOK'
  <2>1. Len(queue') <= MaxItems
    BY <1>1, <1>5, InboxTyped DEF Inbox!TypeOK
  <2>2. answer' \in Seq([state : Inbox!Ended \cup {"pending", "given"}, n : 0..MaxPush])
    <3>1. AnswerRow = [state : Inbox!Ended \cup {"pending", "given"}, n : 0..MaxPush]
      BY DEF AnswerRow, Inbox!Ended
    <3> QED
      BY <1>8, <3>1
  <2> QED
    BY <1>1, <1>5, <1>8, <1>9, <2>1, <2>2 DEF Inbox!TypeOK
<1>11. Inbox!NoneIdle' /\ Inbox!ClosedEnds'
  <2>1. \A x \in ToSet(queue') : x \in ToSet(queue)
    BY <1>5 DEF ToSet
  <2> QED
    BY <1>1, <1>3, <2>1 DEF Inbox!NoneIdle, Inbox!ClosedEnds, Inbox!ToSet, ToSet
<1>12. InOrder'
  <2>1. ASSUME NEW j \in DOMAIN queue'
        PROVE  queue'[j].n \in DOMAIN arrived /\ arrived[queue'[j].n] = queue'[j]
    <3>1. PICK k \in DOMAIN queue : queue'[j] = queue[k]
      BY <1>5 DEF ToSet
    <3> QED
      BY <1>1, <3>1 DEF InOrder
  <2>2. Len(waiters') <= Len(answer')
    BY <1>1, <1>8, InboxTyped DEF InOrder, w
  <2>3. /\ \A k \in DOMAIN waiters' :
             waiters'[k].n \in DOMAIN answer' /\ answer'[waiters'[k].n] = Inbox!Pending
        /\ Ascends(waiters') /\ \A i \in DOMAIN arrived' : arrived'[i].n = i
    BY <1>1, <1>8, ReadKeeps
  <2> QED
    BY <1>5, <2>1, <2>2, <2>3 DEF InOrder, Inbox!Pending, Inbox!End
<1>13. Inbox!Given' = Inbox!Given \cup {w} /\ w \notin Inbox!Given
  BY <1>8 DEF Inbox!Given, Inbox!Gave
<1>14. \A v \in Inbox!Given : answer'[v] = answer[v]
  BY <1>8 DEF Inbox!Given
<1>15. answer'[w].n = f.n
  BY <1>8 DEF Inbox!Gave
<1>16. Handed' = Handed \cup {f.n}
  BY <1>13, <1>14, <1>15 DEF Handed
<1>17. f.n \notin Handed
  BY <1>2, <1>3, <1>4 DEF InOnePlace, f
<1>18. InOnePlace'
  <2>1. ASSUME NEW k \in DOMAIN arrived'
        PROVE  (\E j \in DOMAIN queue' : queue'[j].n = k) <=> k \notin Handed'
    <3>1. (\E j \in DOMAIN queue' : queue'[j].n = k) <=> \E x \in ToSet(queue') : x.n = k
      BY DEF ToSet
    <3>2. (\E x \in ToSet(queue') : x.n = k) <=> \E j \in (DOMAIN queue) \ {at} : queue[j].n = k
      BY <1>5
    <3>3. (\E j \in (DOMAIN queue) \ {at} : queue[j].n = k)
            <=> (\E j \in DOMAIN queue : queue[j].n = k) /\ k # f.n
      BY <1>2, <1>6 DEF f
    <3> QED
      BY <1>3, <1>16, <3>1, <3>2, <3>3 DEF InOnePlace
  <2>2. ASSUME NEW u \in Inbox!Given', NEW v \in Inbox!Given', answer'[u] = answer'[v] PROVE u = v
    <3>1. \A x \in Inbox!Given : answer[x].n # f.n
      BY <1>17 DEF Handed
    <3>2. CASE u \in Inbox!Given /\ v \in Inbox!Given
      <4>1. answer[u] = answer[v]
        BY <1>14, <2>2, <3>2
      <4> QED
        BY <1>3, <3>2, <4>1 DEF InOnePlace
    <3>3. \A x \in Inbox!Given : answer'[x] # answer'[w]
      BY <1>14, <1>15, <3>1
    <3> QED
      BY <1>13, <2>2, <3>2, <3>3
  <2>3. Handed' \subseteq DOMAIN arrived'
    BY <1>3, <1>4, <1>16 DEF InOnePlace
  <2> QED
    BY <1>9, <2>1, <2>2, <2>3 DEF InOnePlace
<1>19. Inbox!InTurn
  <2>1. \A x \in ToSet(answer') : x \in ToSet(answer) \/ x = Inbox!Gave(f)
    BY <1>8 DEF ToSet
  <2>2. f \in ToSet(arrived')
    BY <1>4 DEF ToSet
  <2>3. ASSUME NEW q \in ToSet(queue), q.kind = f.kind PROVE f.n <= q.n
    <3>1. PICK j \in DOMAIN queue : q = queue[j]
      BY <2>3 DEF ToSet
    <3>2. at = j \/ at < j
      BY <1>1, <1>2, <2>3, <3>1, InboxTyped
    <3>3. f.n = q.n \/ f.n < q.n
      BY <1>1, <1>2, <3>1, <3>2 DEF InOrder, Ascends, f
    <3>4. f.n \in Int /\ q.n \in Int
      BY <1>1, <1>2, <3>1, InboxTyped DEF f
    <3> QED
      BY <3>3, <3>4
  <2>4. \A v \in ToSet(waiters) : f.kind \notin v.wants
    BY <1>1, <1>4 DEF Inbox!NoneIdle, Inbox!ToSet, ToSet
  <2>5. \A k \in DOMAIN arrived' : arrived'[k].n = k
    BY <1>1 DEF InOrder
  <2> QED
    BY <2>1, <2>2, <2>3, <2>4, <2>5, GivenInTurn
<1> QED
  BY <1>3, <1>10, <1>11, <1>12, <1>18, <1>19 DEF InboxHolds

(* A read of a closed inbox is told so. *)
LEMMA ReadEnds ==
  ASSUME InboxHolds, closed # "open", Len(answer) + 1 <= MaxRead,
         answer' = Append(answer, Inbox!End(closed)),
         UNCHANGED <<queue, bytes, waiters, closed, arrived>>
  PROVE  InboxHolds' /\ Inbox!InTurn
<1> DEFINE w == Len(answer) + 1
           e == Inbox!End(closed)
<1>1. Inbox!TypeOK /\ Inbox!NoneIdle /\ InOrder /\ Inbox!ClosedEnds
  BY DEF InboxHolds
<1>2. closed \in {"done", "failed"} /\ MaxPush \in Nat
  BY <1>1, InboxTyped DEF Inbox!TypeOK, Inbox!Ended
<1>3. e \in AnswerRow /\ e # Inbox!Pending /\ e.state # "given"
  BY <1>2 DEF AnswerRow, Inbox!End, Inbox!Pending
<1>4. answer' = Append(answer, e)
  OBVIOUS
<1> HIDE DEF e
<1>5. /\ answer' \in Seq(AnswerRow) /\ Len(answer') = w /\ w <= MaxRead
      /\ DOMAIN answer' = (DOMAIN answer) \cup {w} /\ answer'[w] = e
      /\ \A v \in DOMAIN answer : answer'[v] = answer[v]
  BY <1>1, <1>3, <1>4, AnsweredIs
<1> HIDE DEF w
<1>6. Inbox!TypeOK'
  <2>1. AnswerRow = [state : Inbox!Ended \cup {"pending", "given"}, n : 0..MaxPush]
    BY DEF AnswerRow, Inbox!Ended
  <2> QED
    BY <1>1, <1>5, <2>1 DEF Inbox!TypeOK
<1>7. Inbox!NoneIdle'
  BY <1>1 DEF Inbox!NoneIdle
<1>8. Inbox!ClosedEnds'
  BY <1>1, <1>3, <1>5 DEF Inbox!ClosedEnds, Inbox!Pending, Inbox!End
<1>9. InOrder'
  <2>1. Len(waiters') <= Len(answer')
    BY <1>1, <1>5, InboxTyped DEF InOrder, w
  <2>2. /\ \A k \in DOMAIN waiters' :
             waiters'[k].n \in DOMAIN answer' /\ answer'[waiters'[k].n] = Inbox!Pending
        /\ Ascends(waiters') /\ \A i \in DOMAIN arrived' : arrived'[i].n = i
    BY <1>1, <1>5, ReadKeeps
  <2> QED
    BY <1>1, <2>1, <2>2 DEF InOrder, Inbox!Pending, Inbox!End
<1>10. Inbox!InTurn
  <2>1. \A x \in ToSet(answer') : x \in ToSet(answer) \/ x.state # "given"
    BY <1>3, <1>5 DEF ToSet
  <2> QED
    BY <2>1, NothingGiven
<1> QED
  BY <1>6, <1>7, <1>8, <1>9, <1>10 DEF InboxHolds

(* A read that finds nothing waits. *)
LEMMA ReadWaits ==
  ASSUME InboxHolds, NEW wants, wants \subseteq Kind, Inbox!Found(wants) = 0,
         closed = "open", Len(answer) + 1 <= MaxRead,
         answer' = Append(answer, Inbox!Pending),
         waiters' = Append(waiters, [n |-> Len(answer) + 1, wants |-> wants]),
         UNCHANGED <<queue, bytes, closed, arrived>>
  PROVE  InboxHolds' /\ Inbox!InTurn
<1> DEFINE w == Len(answer) + 1
           e == Inbox!Pending
           x == [n |-> w, wants |-> wants]
<1>1. Inbox!TypeOK /\ Inbox!NoneIdle /\ InOrder /\ InOnePlace
  BY DEF InboxHolds
<1>2. \A j \in DOMAIN queue : queue[j].kind \notin wants
  BY <1>1, FoundIs
<1>3. e \in AnswerRow /\ e.state = "pending"
  BY <1>1, InboxTyped DEF AnswerRow, Inbox!End, Inbox!Pending
<1>4. answer' = Append(answer, e) /\ waiters' = Append(waiters, x) /\ x.n = w /\ x.wants = wants
  OBVIOUS
<1>5. x \in Inbox!Waiter
  BY <1>1, InboxTyped DEF Inbox!Waiter
<1> HIDE DEF e, x
<1>6. /\ answer' \in Seq(AnswerRow) /\ Len(answer') = w /\ w <= MaxRead
      /\ DOMAIN answer' = (DOMAIN answer) \cup {w} /\ w \notin DOMAIN answer
      /\ answer'[w] = e
      /\ \A v \in DOMAIN answer : answer'[v] = answer[v] /\ v < w
  BY <1>1, <1>3, <1>4, AnsweredIs
<1>7. Len(answer) \in Nat /\ w = Len(answer) + 1
  BY <1>1, InboxTyped
<1> HIDE DEF w
<1>8. /\ waiters' \in Seq(Inbox!Waiter) /\ Len(waiters') = Len(waiters) + 1
      /\ Ascends(waiters') /\ ToSet(waiters') = ToSet(waiters) \cup {x}
  <2>1. waiters \in Seq(Inbox!Waiter) /\ Ascends(waiters)
    BY <1>1, InboxTyped DEF InOrder
  <2>2. \A k \in DOMAIN waiters : waiters[k].n < x.n
    BY <1>1, <1>4, <1>6 DEF InOrder
  <2> QED
    BY <1>4, <1>5, <2>1, <2>2, AddAscends
<1>9. Len(waiters') <= Len(answer') /\ Len(waiters') <= MaxRead
  BY <1>1, <1>6, <1>7, <1>8, InboxTyped DEF InOrder
<1>10. Inbox!TypeOK'
  <2>1. AnswerRow = [state : Inbox!Ended \cup {"pending", "given"}, n : 0..MaxPush]
    BY DEF AnswerRow, Inbox!Ended
  <2> QED
    BY <1>1, <1>6, <1>8, <1>9, <2>1 DEF Inbox!TypeOK
<1>11. Inbox!NoneIdle' /\ Inbox!ClosedEnds'
  <2>1. \A q \in ToSet(queue) : q.kind \notin x.wants
    BY <1>2, <1>4 DEF ToSet
  <2>2. ASSUME NEW q \in ToSet(queue), NEW r \in ToSet(waiters') PROVE q.kind \notin r.wants
    <3>1. r = x \/ r \in ToSet(waiters)
      BY <1>8
    <3> QED
      BY <1>1, <2>1, <3>1 DEF Inbox!NoneIdle, Inbox!ToSet, ToSet
  <2>3. Inbox!NoneIdle'
    BY <2>2 DEF Inbox!NoneIdle, Inbox!ToSet, ToSet
  <2> QED
    BY <2>3 DEF Inbox!ClosedEnds
<1>12. InOrder'
  <2>1. ASSUME NEW k \in DOMAIN waiters'
        PROVE  waiters'[k].n \in DOMAIN answer' /\ answer'[waiters'[k].n] = e
    <3>1. waiters'[k] = x \/ \E l \in DOMAIN waiters : waiters'[k] = waiters[l]
      BY <1>8 DEF ToSet
    <3> QED
      BY <1>1, <1>4, <1>6, <3>1 DEF InOrder, e
  <2> QED
    BY <1>1, <1>8, <1>9, <2>1 DEF InOrder, Inbox!Pending, Inbox!End, e
<1>13. Inbox!Given' = Inbox!Given
  BY <1>3, <1>6 DEF Inbox!Given
<1>14. \A v \in Inbox!Given : answer'[v] = answer[v]
  BY <1>6 DEF Inbox!Given
<1>15. Handed' = Handed
  BY <1>13, <1>14 DEF Handed
<1>16. InOnePlace'
  <2>1. ASSUME NEW u \in Inbox!Given', NEW v \in Inbox!Given', answer'[u] = answer'[v] PROVE u = v
    <3>1. u \in Inbox!Given /\ v \in Inbox!Given
      BY <1>13
    <3>2. answer[u] = answer[v]
      BY <1>14, <2>1, <3>1
    <3> QED
      BY <1>1, <3>1, <3>2 DEF InOnePlace
  <2>2. /\ \A k \in DOMAIN arrived' :
             (\E j \in DOMAIN queue' : queue'[j].n = k) <=> k \notin Handed'
        /\ Handed' \subseteq DOMAIN arrived'
    BY <1>1, <1>15 DEF InOnePlace
  <2>3. bytes' = Cardinality(Inbox!BytesOf(queue'))
    BY <1>1 DEF InOnePlace
  <2> QED
    BY <2>1, <2>2, <2>3 DEF InOnePlace
<1>17. Inbox!InTurn
  <2>1. \A y \in ToSet(answer') : y \in ToSet(answer) \/ y.state # "given"
    BY <1>3, <1>6 DEF ToSet
  <2> QED
    BY <2>1, NothingGiven
<1> QED
  BY <1>10, <1>11, <1>12, <1>16, <1>17 DEF InboxHolds

LEMMA InboxGoesOn ==
  ASSUME InboxHolds, Inbox!Next PROVE InboxHolds' /\ Inbox!InTurn
<1>1. ASSUME NEW kind \in Kind, NEW size \in 0..MaxBytes + 1, Inbox!Push(kind, size)
      PROVE  InboxHolds' /\ Inbox!InTurn
  <2> DEFINE i == [n |-> Len(arrived) + 1, kind |-> kind, bytes |-> size]
             at == Inbox!Server(kind)
  <2>1. closed = "open" /\ Len(arrived) < MaxPush
    BY <1>1 DEF Inbox!Push
  <2>2. size <= MaxBytes => size \in 0..MaxBytes
    BY ProcessAssumption DEF Inbox!InboxAssumption
  <2>3. CASE /\ size <= MaxBytes /\ at # 0
             /\ answer' = [answer EXCEPT ![waiters[at].n] = Inbox!Gave(i)]
             /\ waiters' = Inbox!RemoveAt(waiters, at)
             /\ arrived' = Append(arrived, i)
             /\ UNCHANGED <<queue, bytes, closed>>
    <3>1. waiters' = RemoveAt(waiters, at)
      BY <2>3 DEF Inbox!RemoveAt, RemoveAt
    <3> QED
      BY <2>1, <2>2, <2>3, <3>1, ServeHolds
  <2>4. CASE /\ size <= MaxBytes /\ at = 0 /\ Inbox!Fits(i)
             /\ queue' = Append(queue, i) /\ bytes' = bytes + size
             /\ arrived' = Append(arrived, i)
             /\ UNCHANGED <<waiters, closed, answer>>
    BY <2>1, <2>2, <2>4, EnqueueHolds
  <2>5. CASE Inbox!CloseWith("failed")
    BY <2>1, <2>5, InboxCloses DEF Inbox!Ended
  <2> QED
    BY <1>1, <2>3, <2>4, <2>5 DEF Inbox!Push
<1>2. ASSUME NEW wants \in {Kind} \cup {{k} : k \in Kind}, Inbox!Read(wants)
      PROVE  InboxHolds' /\ Inbox!InTurn
  <2> DEFINE at == Inbox!Found(wants)
  <2>1. Len(answer) + 1 <= MaxRead /\ UNCHANGED <<closed, arrived>>
    BY <1>2 DEF Inbox!Read
  <2>2. CASE /\ at # 0
             /\ answer' = Append(answer, Inbox!Gave(queue[at]))
             /\ queue' = Inbox!RemoveAt(queue, at) /\ bytes' = bytes - Inbox!Freed(queue[at])
             /\ UNCHANGED waiters
    <3>1. queue' = RemoveAt(queue, at)
      BY <2>2 DEF Inbox!RemoveAt, RemoveAt
    <3> QED
      BY <2>1, <2>2, <3>1, ReadTakes
  <2>3. CASE /\ at = 0 /\ closed # "open" /\ answer' = Append(answer, Inbox!End(closed))
             /\ UNCHANGED <<queue, bytes, waiters>>
    BY <2>1, <2>3, ReadEnds
  <2>4. CASE /\ at = 0 /\ closed = "open" /\ answer' = Append(answer, Inbox!Pending)
             /\ waiters' = Append(waiters, [n |-> Len(answer) + 1, wants |-> wants])
             /\ UNCHANGED <<queue, bytes>>
    BY <2>1, <2>4, ReadWaits
  <2> QED
    BY <1>2, <2>2, <2>3, <2>4 DEF Inbox!Read
<1>3. ASSUME Inbox!Close PROVE InboxHolds' /\ Inbox!InTurn
  BY <1>3, InboxCloses DEF Inbox!Close
<1> QED
  BY <1>1, <1>2, <1>3 DEF Inbox!Next

(* Every frame the Host sent on a connection is read once and in its turn,  *)
(* or goes with the connection (bounded-inbox.ts), for every bound.         *)
THEOREM FramesAreReadAlways == ProcessSpec => FramesAreRead
<1>1. ProcessInit => InboxHolds
  <2> SUFFICES ASSUME Inbox!Init PROVE InboxHolds
    BY DEF ProcessInit
  <2>1. /\ queue = <<>> /\ waiters = <<>> /\ bytes = 0 /\ closed = "open"
        /\ arrived = <<>> /\ answer = <<>>
    BY DEF Inbox!Init
  <2>2. /\ DOMAIN queue = {} /\ DOMAIN waiters = {} /\ DOMAIN arrived = {} /\ DOMAIN answer = {}
        /\ Len(queue) = 0 /\ Len(waiters) = 0 /\ Len(arrived) = 0 /\ Len(answer) = 0
    BY <2>1
  <2>3. Inbox!TypeOK
    BY <2>1, <2>2, ProcessAssumption DEF Inbox!TypeOK, Inbox!InboxAssumption
  <2>4. Inbox!NoneIdle /\ Inbox!ClosedEnds
    BY <2>1, <2>2 DEF Inbox!NoneIdle, Inbox!ClosedEnds, Inbox!ToSet
  <2>5. InOrder
    BY <2>2 DEF InOrder, Ascends
  <2>6. InOnePlace
    <3>1. Inbox!Given = {} /\ Handed = {}
      BY <2>2 DEF Inbox!Given, Handed
    <3>2. Inbox!BytesOf(queue) = {}
      BY <2>2 DEF Inbox!BytesOf, Inbox!ToSet
    <3> QED
      BY <2>1, <2>2, <3>1, <3>2, FS_EmptySet DEF InOnePlace
  <2> QED
    BY <2>3, <2>4, <2>5, <2>6 DEF InboxHolds
<1>2. InboxHolds /\ [ProcessNext]_processVars => InboxHolds' /\ [Inbox!InTurn]_(Inbox!vars)
  <2> SUFFICES ASSUME InboxHolds, [ProcessNext]_processVars
               PROVE  InboxHolds' /\ [Inbox!InTurn]_(Inbox!vars)
    OBVIOUS
  <2>1. CASE UNCHANGED inboxVars
    <3>1. UNCHANGED <<queue, waiters, bytes, closed, arrived, answer>>
      BY <2>1 DEF inboxVars
    <3>2. Inbox!Given' = Inbox!Given /\ Handed' = Handed
      BY <3>1 DEF Inbox!Given, Handed
    <3>3. Inbox!TypeOK' /\ Inbox!NoneIdle' /\ Inbox!ClosedEnds'
      BY <3>1 DEF InboxHolds, Inbox!TypeOK, Inbox!NoneIdle, Inbox!ClosedEnds
    <3>4. InOrder' /\ (closed = "open" => InOnePlace')
      BY <3>1, <3>2 DEF InboxHolds, InOrder, InOnePlace
    <3> QED
      BY <3>1, <3>3, <3>4 DEF InboxHolds, Inbox!vars
  <2>2. CASE Inbox!Next
    BY <2>2, InboxGoesOn
  <2> QED
    BY <2>1, <2>2 DEF ProcessNext, processVars, inboxVars
<1>3. InboxHolds => Inbox!TypeOK /\ Inbox!NoneIdle /\ Inbox!NothingLost /\ Inbox!ClosedEnds
  BY InboxTells
<1> QED
  BY <1>1, <1>2, <1>3, PTL
  DEF ProcessSpec, FramesAreRead, Inbox!FramesAreRead, Inbox!ReadInOrder
=============================================================================
