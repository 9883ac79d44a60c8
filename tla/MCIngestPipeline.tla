--------------------------- MODULE MCIngestPipeline ---------------------------
EXTENDS IngestPipeline, TLC
CONSTANTS plain, level, pair, name, f1, f2, entity

\* One well-formed claim and one of each class that reaches other executors.
MCClasses ==
    [c \in Claims |->
        CASE c = plain -> WellFormed
          [] c = level -> "qualitative_endpoint"
          [] c = pair  -> "compound_actor"
          [] c = name  -> "description_in_name"]

\* A run that says little, then one that says more.
MCCalls == <<1, 2>>

\* Two values of one measurement.
MCMeasure == [f \in Facts |-> entity]
=============================================================================
