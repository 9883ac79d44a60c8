------------------------------ MODULE Backfills ------------------------------
(***************************************************************************)
(* pg backfill-sources over a graph that is being migrated and ingested    *)
(* into.  A row an ingest writes is linked to its :Source node in the same *)
(* statement; a row migrate_ledger makes is not, and waits for this pass.  *)
(* backfill_sources loads every row with a source_ref, oldest first, and   *)
(* takes them one by one: a ref without a source id ends the pass, else    *)
(* the node is merged and the row linked, a transaction each.              *)
(*                                                                         *)
(* created_at is a row's place in `log`.  Which rows and nodes exist the   *)
(* pass remembers from its load; reading them live is the same, because no *)
(* other writer links an existing row or removes a node.                   *)
(***************************************************************************)
EXTENDS Migration, Subsequences, SequencesExt

CONSTANT SourceId   \* SourceId[s]: source_id_of(s), for the refs that have one

ASSUME BackfillAssumption ==
    DOMAIN SourceId = Sources \ (Unprefixed \cup {EmptyRef})

VARIABLES
    log,         \* the rows' identities in the order of created_at
    linked,      \* the rows with a FROM_SOURCE edge
    firstSeen,   \* firstSeen[i]: first_seen of :Source i as a place in log; 0: no node
    pending,     \* the rows a running pass has still to take
    passing,     \* a pass is running
    deaths,      \* passes that were killed
    seededLate   \* history: sources whose node an ingest created

linkVars == <<log, linked, firstSeen, seededLate>>
passVars == <<pending, passing, deaths>>
allVars == <<vars, linkVars, passVars>>

Ids == {SourceId[s] : s \in DOMAIN SourceId}
Recorded == {id \in Triples \X Sources : rows[id[1]][id[2]] # NoRow}
Place(id) == CHOOSE k \in DOMAIN log : log[k] = id

BackfillTypeOK ==
    /\ ToSet(log) = Recorded
    /\ linked \subseteq Recorded
    /\ firstSeen \in [Ids -> 0 .. Len(log)]
    /\ ToSet(pending) \subseteq Recorded
    /\ passing \in BOOLEAN /\ deaths \in 0 .. MaxCrashes
    /\ seededLate \subseteq Ids

BackfillInit ==
    /\ Init
    /\ log = <<>> /\ linked = {} /\ firstSeen = [i \in Ids |-> 0]
    /\ pending = <<>> /\ passing = FALSE /\ deaths = 0
    /\ seededLate = {}

-----------------------------------------------------------------------------

\* A statement of migrate_ledger: a new row has no FROM_SOURCE edge.
MigrationStep ==
    /\ Execute \/ Crash
    /\ log' = log \o SetToSeq(Recorded' \ Recorded)
    /\ UNCHANGED <<linked, firstSeen, seededLate, passVars>>

\* _write_row: a new row is linked as it is written, its node created on demand.
IngestStep(t, s, row) ==
    LET i == SourceId[s]
    IN  /\ Ingest(t, s, row)
        /\ log' = log \o SetToSeq(Recorded' \ Recorded)
        /\ IF rows[t][s] = NoRow /\ s \in DOMAIN SourceId
           THEN /\ linked' = linked \cup {<<t, s>>}
                /\ firstSeen' = [firstSeen EXCEPT ![i] = IF @ = 0 THEN Len(log) + 1 ELSE @]
                /\ seededLate' = seededLate \cup {j \in {i} : firstSeen[i] = 0}
           ELSE UNCHANGED <<linked, firstSeen, seededLate>>
        /\ UNCHANGED passVars

\* The load without its ORDER BY.
Load_Unordered ==
    /\ ~passing
    /\ passing' = TRUE
    /\ pending' = Reverse(Picked(log, {k \in DOMAIN log : log[k][2] # EmptyRef}))
    /\ UNCHANGED <<vars, linkVars, deaths>>

\* _SOURCES_ROWS_LOAD_QUERY
Load ==
    /\ ~passing
    /\ passing' = TRUE
    /\ pending' = Picked(log, {k \in DOMAIN log : log[k][2] # EmptyRef})
    /\ UNCHANGED <<vars, linkVars, deaths>>

\* source_id_of of the next row.
NextId == SourceId[Head(pending)[2]]
HasId  == passing /\ pending # <<>> /\ Head(pending)[2] \notin Unprefixed

\* The node of a source met for the first time, ON CREATE SET first_seen.
MergeSource ==
    /\ HasId /\ firstSeen[NextId] = 0
    /\ firstSeen' = [firstSeen EXCEPT ![NextId] = Place(Head(pending))]
    /\ UNCHANGED <<vars, log, linked, seededLate, passVars>>

\* Only the first row of a source is linked.
Link_FirstOnly ==
    /\ HasId /\ firstSeen[NextId] # 0
    /\ linked' = IF firstSeen[NextId] = Place(Head(pending))
                 THEN linked \cup {Head(pending)} ELSE linked
    /\ pending' = Tail(pending)
    /\ UNCHANGED <<vars, log, firstSeen, seededLate, passing, deaths>>

\* A linked row is skipped, any other MERGEs its edge.
Link ==
    /\ HasId /\ firstSeen[NextId] # 0
    /\ linked' = linked \cup {Head(pending)}
    /\ pending' = Tail(pending)
    /\ UNCHANGED <<vars, log, firstSeen, seededLate, passing, deaths>>

\* source_id_of raises on the next row: the pass ends, its writes stay.
Refuse ==
    /\ passing /\ pending # <<>> /\ Head(pending)[2] \in Unprefixed
    /\ passing' = FALSE /\ pending' = <<>>
    /\ UNCHANGED <<vars, linkVars, deaths>>

Finish ==
    /\ passing /\ pending = <<>>
    /\ passing' = FALSE
    /\ UNCHANGED <<vars, linkVars, pending, deaths>>

\* The pass is killed between two transactions.
Die ==
    /\ passing /\ deaths < MaxCrashes
    /\ deaths' = deaths + 1
    /\ passing' = FALSE /\ pending' = <<>>
    /\ UNCHANGED <<vars, linkVars>>

Backfill == Load \/ MergeSource \/ Link \/ Refuse \/ Finish

BackfillNext ==
    \/ MigrationStep
    \/ \E t \in Triples, s \in Sources, row \in Row : IngestStep(t, s, row)
    \/ Backfill
    \/ Die

BackfillSpec == BackfillInit /\ [][BackfillNext]_allVars

\* The operator repeats both passes; documents come when they come.
LiveBackfills ==
    BackfillSpec /\ WF_allVars(MigrationStep /\ crashes' = crashes) /\ WF_allVars(Backfill)

-----------------------------------------------------------------------------
(* Properties *)

\* "first-seen = the earliest linked row's created_at" (neo4j.py) for every
\* source that the pass and not an ingest created: no row of it is older, over
\* any killed passes and with documents arriving between load and writes.
FirstSeenIsEarliest ==
    \A i \in Ids \ seededLate : firstSeen[i] # 0 =>
        \A k \in 1 .. firstSeen[i] - 1 :
            log[k][2] \in DOMAIN SourceId => SourceId[log[k][2]] # i

\* Source coverage becomes total (docs/adr/0004), as far as it can: a row with a
\* source id stays unlinked for good only behind an older row that has none.
SourcesLinked ==
    <>[](\A k \in DOMAIN log :
            \/ log[k][2] = EmptyRef
            \/ log[k] \in linked
            \/ \E j \in 1 .. k : log[j][2] \in Unprefixed)
=============================================================================
