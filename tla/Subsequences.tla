---------------------------- MODULE Subsequences ----------------------------
(***************************************************************************)
(* What is left of a sequence when some of its elements are taken out.     *)
(* SelectSeq says the same by recursion; here the elements that stay are   *)
(* numbered by their places, from which it can be proved what stays, and   *)
(* in which order.                                                         *)
(***************************************************************************)
EXTENDS Integers, Sequences, FiniteSets

(* The place of K that has i - 1 others before it. *)
Place(K, i) == CHOOSE k \in K : Cardinality({j \in K : j < k}) = i - 1

(* The elements of s at the places in K, in their order. *)
Subsequence(s, K) == [i \in 1..Cardinality(K) |-> s[Place(K, i)]]

(* s without the elements of S. *)
Omit(s, S) == Subsequence(s, {k \in DOMAIN s : s[k] \notin S})
=============================================================================
