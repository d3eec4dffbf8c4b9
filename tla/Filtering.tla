----------------------------- MODULE Filtering -----------------------------
(***************************************************************************)
(* Array.prototype.filter.  It is SelectSeq of the module Sequences, but   *)
(* for the definition: the elements at the chosen positions, in order,     *)
(* without the recursion that the proof system does not unfold.            *)
(***************************************************************************)
EXTENDS Naturals, Sequences, FiniteSets

(* The n-th smallest position in K. *)
Nth(K, n) == CHOOSE k \in K : Cardinality({j \in K : j <= k}) = n

Picked(s, K) == [n \in 1 .. Cardinality(K) |-> s[Nth(K, n)]]

Filter(s, Test(_)) == Picked(s, {i \in DOMAIN s : Test(s[i])})
=============================================================================
