----------------------------- MODULE Selection -----------------------------
(***************************************************************************)
(* The entries of a queue that count, in their order.  P are their         *)
(* positions; an entry's place among them is the number of positions up to *)
(* its own.  Stated by counting, not by recursion over the queue, so that  *)
(* it can be reasoned about.                                               *)
(***************************************************************************)
EXTENDS Naturals, FiniteSets

Rank(P, i) == Cardinality({j \in P : j <= i})

Nth(P, k) == CHOOSE i \in P : Rank(P, i) = k

Selected(f, P) == [k \in 1..Cardinality(P) |-> f[Nth(P, k)]]
=============================================================================
