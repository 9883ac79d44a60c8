------------------------- MODULE MCRegistryLifecycle -------------------------
(* Instances of RegistryLifecycle for TLC. *)
EXTENDS RegistryLifecycle

CONSTANTS causes, caused_by, raises, lifts, fivefold, none

Doc(labels, staged, aliased, inverse) ==
    [labels |-> labels, staged |-> staged,
     aliases |-> [n \in Names |-> IF n = causes THEN aliased ELSE {}],
     inverse |-> [n \in Names |-> IF n \in inverse THEN caused_by ELSE none],
     sectioned |-> TRUE, stray |-> {}]

Pairs == Doc(<<causes, caused_by>>, <<>>, {raises}, {causes})
Solo  == Doc(<<causes>>, <<>>, {}, {})
MCShipped == {Pairs, Solo}
=============================================================================
