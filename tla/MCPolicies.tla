------------------------------ MODULE MCPolicies ------------------------------
(* Instances of Policies for TLC. *)
EXTENDS Policies

CONSTANTS t1, t2, s1, s2, here, raises, none

\* 1/4 units, with a report below 0.0 and one above 1.0.
Quarters == -1 .. 5

\* Entities 2 and 3 are homonyms of different types.
MCNameOf == [e \in Entities |-> Min({e, 2})]
=============================================================================
