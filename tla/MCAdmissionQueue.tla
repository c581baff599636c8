-------------------------- MODULE MCAdmissionQueue --------------------------
(***************************************************************************)
(* Bounded instances of AdmissionQueue, and #pump written as the loop the  *)
(* code runs, to compare with the closed form of AdmissionQueue!Started.   *)
(***************************************************************************)
EXTENDS AdmissionQueue, SequencesExt

(* The loop of #pump over the array pending: waiting collects the keys of  *)
(* the commands it skipped, held and flying change as it starts commands.  *)
RECURSIVE Scan(_, _, _, _, _)
Scan(pending, waiting, held, flying, go) ==
  IF pending = <<>> \/ flying >= MaxInFlight THEN go
  ELSE LET t == Head(pending)
       IN  IF \A k \in keys[t] : held[k] = 0 /\ k \notin waiting
           THEN Scan(Tail(pending), waiting,
                     [k \in Key |-> IF k \in keys[t] THEN held[k] + 1 ELSE held[k]],
                     flying + 1, go \cup {t})
           ELSE Scan(Tail(pending), waiting \cup keys[t], held, flying, go)

(* Started is what the loop starts, from every reachable queue and for     *)
(* every way its keys could be held and its slots taken, so the model that *)
(* pumps by the closed form stands for the code that loops.                *)
ScanAgrees ==
  LET pending == SetToSortSeq(In(stage, Waiting), <)
  IN  \A held \in [Key -> 0..1], flying \in 0..MaxInFlight :
        Scan(pending, {}, held, flying, {}) = Started(stage, keys, held, flying)
=============================================================================
