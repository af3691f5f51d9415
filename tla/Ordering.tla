------------------------------ MODULE Ordering ------------------------------
(***************************************************************************)
(* The members of a finite set in an order, each once: SetToSortSeq, in a  *)
(* form that can be reasoned about.  The n-th has n - 1 members before it. *)
(***************************************************************************)
EXTENDS Naturals, FiniteSets

Ranked(S, below) ==
  [n \in 1 .. Cardinality(S) |-> CHOOSE x \in S : Cardinality(below[x]) = n - 1]

InOrder(S, before(_, _)) == Ranked(S, [x \in S |-> {y \in S : before(y, x)}])
=============================================================================
