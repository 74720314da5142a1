------------------------------ MODULE Ordering ------------------------------
(***************************************************************************)
(* Sequences as sorting a finite set gives them.                           *)
(***************************************************************************)
EXTENDS Naturals, FiniteSets

(* The members of S, each after as many others as `earlier' says.          *)
Arranged(S, earlier) == [i \in 1 .. Cardinality(S) |-> CHOOSE x \in S : earlier[x] = i - 1]

Sorted(S) == Arranged(S, [x \in S |-> Cardinality({y \in S : y < x})])
=============================================================================
