------------------------------ MODULE Migration ------------------------------
(***************************************************************************)
(* pg migrate-ledger: graphs written before the ledger existed carry an    *)
(* arrow's provenance on the arrow.  migrate_ledger loads every arrow that *)
(* has no row of its own relation, plans the rows with plan_ledger_writes, *)
(* writes them one by one, compares and if need be sets each touched       *)
(* arrow, and last removes the legacy provenance of every arrow that has a *)
(* row.  It may die between any two statements and be run again.  (Its     *)
(* refusal of a graph with an arrow that has no confidence writes nothing  *)
(* and is left out.)                                                       *)
(***************************************************************************)
EXTENDS LedgerStore

CONSTANTS
    Pair,          \* Pair[t]: the (subject, object) pair of triple t
    EmptyRef,      \* the source_ref given to an arrow that has none
    Unprefixed,    \* the source_refs source_id_of rejects
    NoLegacy,      \* the arrow carries no evidence/source_ref property
    MaxIngests, MaxCrashes

ASSUME MigrationAssumption ==
    /\ DOMAIN Pair = Triples
    /\ EmptyRef \in Sources \ Unprefixed
    /\ Unprefixed \subseteq Sources
    /\ NoLegacy \notin Sources
    /\ MaxIngests \in Nat /\ MaxCrashes \in Nat

VARIABLES
    rows, arrows,
    legacy,      \* legacy[t]: the source_ref property of arrow t, if it has one
    stage,       \* the kind of statement the migration runs next
    plan,        \* plan[t]: the row still to write (stage "rows") or to compare
                 \* the arrow with (stage "arrows"), and its source_ref
    was,         \* history: the graph's legacy arrows, as the row each must become,
                 \* but those a document reached before the migration
    ingests, crashes

vars == <<rows, arrows, legacy, stage, plan, was, ingests, crashes>>

Seed == [source : Sources, row : Row]
NoPlan == [t \in {} |-> NoRow]
Drop(f, t) == [u \in DOMAIN f \ {t} |-> f[u]]

TypeOK ==
    /\ rows \in [Triples -> TripleRows]
    /\ arrows \in [Triples -> Arrow \cup {NoArrow}]
    /\ legacy \in [Triples -> Sources \cup {NoLegacy}]
    /\ stage \in {"idle", "rows", "arrows", "strip", "done"}
    /\ DOMAIN plan \subseteq Triples /\ \A t \in DOMAIN plan : plan[t] \in Seed
    /\ stage \in {"idle", "strip", "done"} => plan = NoPlan
    /\ \A t \in Triples : legacy[t] # NoLegacy => arrows[t] # NoArrow

-----------------------------------------------------------------------------

\* (s)-[:REPORTED]->({relation: type(r)})-[:ABOUT]->(o) exists, for arrow t;
\* a pattern without the relation is the bug of issue #70.
HasRow_OfPair(t) == \E u \in Triples : Pair[u] = Pair[t] /\ Support(rows[u]) # {}
HasRow(t) == Support(rows[t]) # {}

\* _BACKFILL_LOAD_QUERY: the arrows without a row.
Unmigrated == {t \in Triples : arrows[t] # NoArrow /\ ~HasRow(t)}

SeedSource(t) == IF legacy[t] = NoLegacy THEN EmptyRef ELSE legacy[t]

\* The row an unmigrated arrow becomes.
SeedRow(t) == [source |-> SeedSource(t), row |-> arrows[t]]

Init ==
    /\ rows = [t \in Triples |-> NoRows]
    /\ arrows \in [Triples -> [conf : Weights, scope : Scopes] \cup {NoArrow}]
    /\ legacy \in [Triples -> Sources \cup {NoLegacy}]
    /\ \A t \in Triples : arrows[t] = NoArrow => legacy[t] = NoLegacy
    /\ stage = "idle"
    /\ plan = NoPlan
    /\ was = [t \in Unmigrated |-> SeedRow(t)]
    /\ ingests = 0 /\ crashes = 0

\* Both load queries and the plan.  A candidate has no row, so each is a create.
Start ==
    /\ stage \in {"idle", "done"}
    /\ stage' = "rows"
    /\ plan' = [t \in Unmigrated |-> SeedRow(t)]
    /\ UNCHANGED <<rows, arrows, legacy, was, ingests, crashes>>

\* MERGE with nothing ON MATCH.
CreateRow(t) ==
    /\ stage = "rows" /\ t \in DOMAIN plan
    /\ rows[t][plan[t].source] = NoRow
    /\ rows' = [rows EXCEPT ![t] = [@ EXCEPT ![plan[t].source] = plan[t].row]]
    /\ UNCHANGED <<arrows, legacy, stage, plan, was, ingests, crashes>>

RowsDone ==
    /\ stage = "rows"
    /\ \A t \in DOMAIN plan : rows[t][plan[t].source] # NoRow
    /\ stage' = "arrows"
    /\ UNCHANGED <<rows, arrows, legacy, plan, was, ingests, crashes>>

\* Arrow updates written whatever the confidence, scope and all.
CheckArrow_AlwaysSets(t) ==
    /\ stage = "arrows" /\ t \in DOMAIN plan
    /\ arrows' = [arrows EXCEPT ![t] = [conf |-> plan[t].row.conf, scope |-> NoScope]]
    /\ plan' = Drop(plan, t)
    /\ UNCHANGED <<rows, legacy, stage, was, ingests, crashes>>

\* The aggregate of the one planned row against the arrow: set on a difference.
CheckArrow(t) ==
    /\ stage = "arrows" /\ t \in DOMAIN plan
    /\ arrows' = IF arrows[t].conf = plan[t].row.conf THEN arrows
                 ELSE [arrows EXCEPT ![t].conf = plan[t].row.conf]
    /\ plan' = Drop(plan, t)
    /\ UNCHANGED <<rows, legacy, stage, was, ingests, crashes>>

ArrowsDone ==
    /\ stage = "arrows" /\ plan = NoPlan
    /\ stage' = "strip"
    /\ UNCHANGED <<rows, arrows, legacy, plan, was, ingests, crashes>>

Strip ==
    /\ stage = "strip"
    /\ stage' = "done"
    /\ legacy' = [t \in Triples |-> IF HasRow(t) THEN NoLegacy ELSE legacy[t]]
    /\ UNCHANGED <<rows, arrows, plan, was, ingests, crashes>>

\* Nothing is rolled back.
Crash ==
    /\ stage \in {"rows", "arrows", "strip"} /\ crashes < MaxCrashes
    /\ crashes' = crashes + 1
    /\ stage' = "idle"
    /\ plan' = NoPlan
    /\ UNCHANGED <<rows, arrows, legacy, was, ingests>>

\* upsert_extraction, keep-first, between migrations.
Ingest(t, s, row) ==
    LET now == IF rows[t][s] = NoRow THEN [rows[t] EXCEPT ![s] = row] ELSE rows[t]
    IN  /\ ingests < MaxIngests
        /\ s \notin Unprefixed
        /\ stage \in {"idle", "done"}
        /\ ingests' = ingests + 1
        /\ rows' = [rows EXCEPT ![t] = now]
        /\ arrows' = [arrows EXCEPT ![t] = SetArrow(@, Aggregate(now),
                          IF rows[t][s] = NoRow THEN row.scope ELSE NoScope)]
        /\ was' = IF t \in Unmigrated THEN Drop(was, t) ELSE was
        /\ UNCHANGED <<legacy, stage, plan, crashes>>

Execute ==
    \/ Start
    \/ \E t \in Triples : CreateRow(t)
    \/ RowsDone
    \/ \E t \in Triples : CheckArrow(t)
    \/ ArrowsDone
    \/ Strip

Next ==
    \/ Execute
    \/ Crash
    \/ \E t \in Triples, s \in Sources, row \in Row : Ingest(t, s, row)

Spec == Init /\ [][Next]_vars

\* The operator repeats an interrupted migration until it completes.
LiveSpec == Spec /\ WF_vars(Execute)

-----------------------------------------------------------------------------
(* Properties *)

\* neo4j.py: no crash lets the migration strip an arrow of the provenance it
\* has not recorded.  A legacy arrow is on the graph as it was, or its row is,
\* unless a document about its triple was ingested first.
ProvenanceKept ==
    \A t \in DOMAIN was :
        \/ arrows[t] # NoArrow /\ SeedRow(t) = was[t]
        \/ rows[t][was[t].source] = was[t].row

\* No arrow moves in any field by being migrated, over any crashes and repeats.
MigrationMovesNoArrow == [][ingests' = ingests => arrows' = arrows]_vars

\* A graph is finally migrated, each legacy arrow exactly one row richer, and
\* repeats of the migration change nothing any more.
Migrated ==
    <>[](/\ Unmigrated = {}
         /\ \A t \in Triples : legacy[t] = NoLegacy
         /\ \A t \in DOMAIN was : rows[t][was[t].source] = was[t].row)
=============================================================================
