--------------------------- MODULE MCNormalization ---------------------------
(* Instances of Normalization for TLC. *)
EXTENDS Normalization

CONSTANTS v, w, u, s1, s2, bare, here

\* No alias yet; v an alias (or the inverse) of w; w re-canonicalized to u,
\* with v following it.
Plain == [t \in Triples |-> t]
VisW  == [t \in Triples |-> IF t = v THEN w ELSE t]
AllU  == [t \in Triples |-> u]

MCCanons == {Plain, VisW, AllU}
=============================================================================
