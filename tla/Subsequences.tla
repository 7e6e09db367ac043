----------------------------- MODULE Subsequences -----------------------------
(***************************************************************************)
(* Array.prototype.filter: the elements of a sequence at chosen indices, in*)
(* a form the lemmas of SubsequenceProofs can speak about.                 *)
(***************************************************************************)
EXTENDS Naturals, Sequences, FiniteSets

(* s is an array, whatever it holds.                                       *)
IsSequence(s) == s \in Seq({s[i] : i \in DOMAIN s})

(* The n-th smallest index of K.                                           *)
Nth(K, n) == CHOOSE i \in K : Cardinality({j \in K : j <= i}) = n

(* filter(): what s has at the indices of K, in the order of s.            *)
Kept(s, K) == [n \in 1..Cardinality(K) |-> s[Nth(K, n)]]
=============================================================================
