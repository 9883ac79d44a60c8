----------------------------- MODULE Aggregation -----------------------------
(***************************************************************************)
(* The two places that combine confidences: complement_aggregate of        *)
(* ledger.py, over all rows of a triple at once, and aggregate_confidence  *)
(* of reduction.py, one event at a time.  A confidence is n/Unit; the      *)
(* aggregate of k rows is kept exactly, as a numerator over Unit^k.        *)
(*                                                                         *)
(* The state is one list of row confidences; a step appends a row.  The    *)
(* floats of the code round where this arithmetic does not.                *)
(***************************************************************************)
EXTENDS Integers, SequencesExt

CONSTANTS
    Unit,        \* the numerator of confidence 1.0
    Reported,    \* numerators an extractor reports, also outside 0 .. Unit
    MaxRows      \* bound: rows of the triple

ASSUME AggregationAssumption ==
    /\ Unit \in Nat \ {0}
    /\ Reported \subseteq Int
    /\ MaxRows \in Nat

VARIABLE confidences

\* max(0.0, min(1.0, value))
Clamp(n) == IF n < 0 THEN 0 ELSE IF n > Unit THEN Unit ELSE n

\* The product of a list of numbers, factor by factor from the left.
Product(factors) ==
    LET upTo[n \in 0 .. Len(factors)] == IF n = 0 THEN 1 ELSE upTo[n - 1] * factors[n]
    IN  upTo[Len(factors)]

Power(base, k) == Product([n \in 1 .. k |-> base])

\* What complement_aggregate's loop leaves: \prod (1 - c), over Unit^Len(cs).
Doubt(cs) == Product([n \in 1 .. Len(cs) |-> Unit - Clamp(cs[n])])

\* 1 - \prod (1 - c), over Unit^Len(cs).
ComplementAggregate(cs) == Power(Unit, Len(cs)) - Doubt(cs)

\* aggregate_confidence: previous is over Unit^k, the result over Unit^(k+1).
AggregateConfidence_Max(k, previous, event) ==
    Max({previous * Unit, Clamp(event) * Power(Unit, k)})

AggregateConfidence(k, previous, event) ==
    Power(Unit, k + 1) - (Power(Unit, k) - previous) * (Unit - Clamp(event))

NothingReported == confidences = <<>>

AddRow(n) ==
    /\ Len(confidences) < MaxRows
    /\ confidences' = Append(confidences, n)

-----------------------------------------------------------------------------

\* reduce_edges, which adds one event after the other, and the ledger, which
\* recomputes from all rows, reach the same confidence.
IncrementalIsBatch ==
    confidences # <<>> =>
        LET k == Len(confidences) - 1
        IN  ComplementAggregate(confidences) =
                AggregateConfidence(k, ComplementAggregate(Front(confidences)),
                                    Last(confidences))

\* What LedgerStore takes for granted: read a confidence 1 - 2^-w as its weight
\* w, and aggregating is adding weights, with confidence 1.0 absorbing.
Weighs(n, w) == (Unit - n) * Power(2, w) = Unit
Weight(n) == CHOOSE w \in 0 .. Unit : Weighs(n, w)

TotalWeight(cs) ==
    LET upTo[n \in 0 .. Len(cs)] == IF n = 0 THEN 0 ELSE upTo[n - 1] + Weight(cs[n])
    IN  upTo[Len(cs)]

LogDomainAgrees ==
    LET k == Len(confidences)
        cs == [i \in 1 .. k |-> Clamp(confidences[i])]
    IN  IF \E i \in 1 .. k : cs[i] = Unit
        THEN ComplementAggregate(cs) = Power(Unit, k)
        ELSE (\A i \in 1 .. k : \E w \in 0 .. Unit : Weighs(cs[i], w)) =>
             (Power(Unit, k) - ComplementAggregate(cs)) * Power(2, TotalWeight(cs))
                 = Power(Unit, k)

\* Three computations of one confidence agree: the ledger's, over all rows; the
\* delta's, event by event; and the sum of weights that these models use.
AggregatesAgree == IncrementalIsBatch /\ LogDomainAgrees
=============================================================================
