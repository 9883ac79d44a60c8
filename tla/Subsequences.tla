----------------------------- MODULE Subsequences -----------------------------
(***************************************************************************)
(* A list comprehension with a condition: what it leaves of a sequence.    *)
(***************************************************************************)
EXTENDS Naturals, Sequences, FiniteSets

\* The place position i has among the positions in.
Rank(in, i) == Cardinality({j \in in : j <= i})

\* The members of seq at the positions in, in their order.
Picked(seq, in) ==
    [n \in 1 .. Cardinality(in) |-> seq[CHOOSE i \in in : Rank(in, i) = n]]
=============================================================================
