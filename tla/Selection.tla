----------------------------- MODULE Selection -----------------------------
(***************************************************************************)
(* The elements of a sequence at some of its positions, in their order.    *)
(***************************************************************************)
EXTENDS Integers, FiniteSets, Sequences

\* The place of i among the elements of I.
Place(I, i) == Cardinality({j \in I : j <= i})

Selected(s, I) == [n \in 1 .. Cardinality(I) |-> s[CHOOSE i \in I : Place(I, i) = n]]

=============================================================================
