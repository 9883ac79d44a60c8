----------------------------- MODULE MCBackfills -----------------------------
(* Instances of Backfills for TLC: t1 and t2 relate the same two entities. *)
EXTENDS Backfills

CONSTANTS t1, t2, s1, s2, noref, bare, here, doc

MCPair == [t \in Triples |-> 1]

\* Two chunks of one document.
MCSourceId == [s \in {s1, s2} |-> doc]
=============================================================================
