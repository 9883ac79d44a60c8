------------------------------- MODULE Policies -------------------------------
(***************************************************************************)
(* The pure rules of the program, each a function of its input alone: the  *)
(* plan of a batch of candidates, the confidence of a list of rows, and    *)
(* the answer to a query.  A behaviour builds up the input of one of them. *)
(***************************************************************************)
EXTENDS LedgerPlan, Aggregation, Fanout

VARIABLE subject   \* the function whose input is built up

planVars  == <<existing, mode, batch>>
queryVars == <<graph, exact, similarity, embedded>>
vars == <<subject, planVars, confidences, queryVars>>

Init ==
    /\ subject \in {"plan", "aggregate", "query"}
    /\ IF subject = "plan" THEN PlanInit ELSE NoBatch
    /\ NothingReported
    /\ IF subject = "query" THEN QueryInit ELSE NoQuery

GrowBatch ==
    /\ subject = "plan"
    /\ \E c \in Candidate : Grow(c)
    /\ UNCHANGED <<subject, confidences, queryVars>>

GrowRows ==
    /\ subject = "aggregate"
    /\ \E n \in Reported : AddRow(n)
    /\ UNCHANGED <<subject, planVars, queryVars>>

GrowGraph ==
    /\ subject = "query"
    /\ \E edge \in GraphEdge : AddArrow(edge)
    /\ UNCHANGED <<subject, planVars, confidences>>

Next == GrowBatch \/ GrowRows \/ GrowGraph

Spec == Init /\ [][Next]_vars
=============================================================================
