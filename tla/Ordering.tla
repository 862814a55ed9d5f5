------------------------------ MODULE Ordering ------------------------------
(***************************************************************************)
(* Events are numbers wherever only their order counts: what a sequence of *)
(* them holds, and a set of them sorted.                                   *)
(***************************************************************************)
EXTENDS Naturals, FiniteSets

Elems(q) == {q[i] : i \in DOMAIN q}
Increasing(q) == \A i, j \in DOMAIN q : i < j => q[i] < q[j]

\* A sort by timestamp.
Sorted(S) == CHOOSE q \in [1..Cardinality(S) -> S] : Increasing(q)
=============================================================================
