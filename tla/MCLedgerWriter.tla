---------------------------- MODULE MCLedgerWriter ----------------------------
(* Instances of LedgerWriter for TLC. *)
EXTENDS LedgerWriter

CONSTANTS t1, t2, a1, s1, s2, e1, e2, e3, here

\* a1 is an alias spelling of t1; t2 shares an endpoint with it.
MCEnds == [t \in Triples |-> IF t = t2 THEN {e2, e3} ELSE {e1, e2}]
\* The same with one pair of endpoints for every triple.
MCOneEnds == [t \in Triples |-> {e1, e2}]
MCCanonical == [t \in Triples |-> IF t = a1 THEN t1 ELSE t]

C(t, s, w, sc) == [triple |-> t, source |-> s, row |-> [conf |-> w, scope |-> sc]]

\* One source claims t1 twice in one delta, the second time by its alias and
\* with another confidence; then t2.
DocA == <<C(t1, s1, 1, here), C(a1, s1, 2, NoScope), C(t2, s1, 1, NoScope)>>
\* A second source corroborates t1; the re-extraction of DocA drifts.
DocB == <<C(a1, s2, 2, NoScope)>>
DocADrifted == <<C(t2, s1, 2, here), C(t1, s1, 9, NoScope)>>

MCBatches == {DocA, DocB, DocADrifted}
\* Shorter deltas for two processes.
MCShortBatches == {<<C(t1, s1, 1, here), C(a1, s1, 2, NoScope)>>, DocB, DocADrifted}
=============================================================================
