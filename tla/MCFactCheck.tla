----------------------------- MODULE MCFactCheck -----------------------------
(* Instances of FactCheck for TLC. *)
EXTENDS FactCheck, MCNormalization

CONSTANTS trade, untagged, id1

\* Claims are tagged one by one: u is untagged.
MCDomainOf == [t \in Triples |-> IF t = u THEN untagged ELSE trade]

\* Two chunks of one document.
MCSourceId == [s \in {s1, s2} |-> id1]
=============================================================================
