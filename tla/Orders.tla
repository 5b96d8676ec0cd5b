------------------------------- MODULE Orders -------------------------------
(***************************************************************************)
(* A finite set of numbers as a sequence, for lists that are in the order  *)
(* of the columns or of the attributes.                                    *)
(***************************************************************************)
EXTENDS Naturals, FiniteSets

Below(S, i) == {j \in S : j < i}

\* The k-th entry is the number that has k - 1 smaller ones in the set.
Ascending(S) == [k \in 1 .. Cardinality(S) |-> CHOOSE i \in S : Cardinality(Below(S, i)) = k - 1]
=============================================================================
