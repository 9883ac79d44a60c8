------------------------------ MODULE MCReview ------------------------------
EXTENDS Review, TLC
CONSTANTS tA, tB, tC, s1, s2, p1, p2

\* tB is tA said with an alias of its verb.
MCCanon == [t \in Triples |-> IF t = tB THEN tA ELSE t]

Names == Permutations({s1, s2}) \cup Permutations({p1, p2})
=============================================================================
