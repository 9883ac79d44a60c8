---------------------------- MODULE MigrationProofs ----------------------------
(***************************************************************************)
(* What pg migrate-ledger keeps, for every graph, every number of crashes  *)
(* and repeats, documents and source backfills in between: the provenance  *)
(* of each legacy arrow, and each arrow.  The invariant says that a legacy *)
(* arrow without a row is still what it was, and that the rows a migration *)
(* has planned say what their arrows say.  The last section is about the   *)
(* planner the migration hands its candidates to: one batch, or one        *)
(* candidate after the other, leaves one ledger.                           *)
(***************************************************************************)
EXTENDS Backfills, LedgerPlan, DataLemmas, TLAPS

Shape ==
    /\ rows \in [Triples -> TripleRows]
    /\ DOMAIN arrows = Triples
    /\ legacy \in [Triples -> Sources \cup {NoLegacy}]
    /\ DOMAIN plan \subseteq Triples /\ \A t \in DOMAIN plan : plan[t] \in Seed
    /\ stage \in {"idle", "strip", "done"} => plan = NoPlan
    /\ DOMAIN was \subseteq Triples /\ \A t \in DOMAIN was : was[t] \in Seed
    /\ ingests \in Nat

\* An arrow older than the ledger says what one row can say.
Plain == \A t \in Triples : ~HasRow(t) /\ arrows[t] # NoArrow => arrows[t] \in Row

\* A legacy arrow has become its row, or is what it was.
Accounted ==
    \A t \in DOMAIN was :
        IF HasRow(t) THEN rows[t][was[t].source] = was[t].row
        ELSE arrows[t] # NoArrow /\ SeedRow(t) = was[t]

\* A planned row says what its arrow says.
Planned ==
    \A t \in DOMAIN plan :
        /\ arrows[t] # NoArrow /\ arrows[t] = plan[t].row
        /\ stage = "rows" => plan[t] = SeedRow(t)

MInv == Shape /\ Plain /\ Accounted /\ Planned

-----------------------------------------------------------------------------

LEMMA SeedFacts ==
    ASSUME Shape, Plain, NEW t \in Unmigrated
    PROVE  /\ t \in Triples /\ SeedRow(t) \in Seed
           /\ arrows[t] # NoArrow /\ SeedRow(t).row = arrows[t]
  <1>1. t \in Triples /\ arrows[t] # NoArrow /\ arrows[t] \in Row
    BY DEF Unmigrated, Plain
  <1>2. SeedSource(t) \in Sources
    BY <1>1, MigrationAssumption DEF SeedSource, Shape
  <1> QED BY <1>1, <1>2 DEF SeedRow, Seed

LEMMA InitMInv == Init => MInv
  <1> SUFFICES ASSUME Init PROVE MInv
    OBVIOUS
  <1> USE DEF Init
  <1>1. \A t \in Triples : ~HasRow(t)
    BY DEF HasRow, Support, NoRows
  <1>2. Plain
    BY DEF Plain, Row
  <1>3. Unmigrated \subseteq Triples /\ DOMAIN was = Unmigrated
        /\ \A t \in Unmigrated : was[t] = SeedRow(t)
    BY DEF Unmigrated
  <1>4. \A t \in Unmigrated : SeedRow(t) \in Seed
    <2>1. \A t \in Unmigrated : SeedSource(t) \in Sources
      BY <1>3, MigrationAssumption DEF SeedSource
    <2> QED BY <1>2, <1>3, <2>1, <1>1 DEF SeedRow, Seed, Plain, Unmigrated
  <1>5. Shape
    BY <1>3, <1>4 DEF Shape, TripleRows, NoRows, NoPlan
  <1>6. Accounted
    BY <1>1, <1>3 DEF Accounted, Unmigrated
  <1>7. Planned
    BY DEF Planned, NoPlan
  <1> QED BY <1>2, <1>5, <1>6, <1>7 DEF MInv

LEMMA StartMInv == MInv /\ Start => MInv'
  <1> SUFFICES ASSUME MInv, Start PROVE MInv'
    OBVIOUS
  <1> USE DEF MInv
  <1>1. /\ UNCHANGED <<rows, arrows, legacy, was, ingests>> /\ stage' = "rows"
        /\ plan' = [t \in Unmigrated |-> SeedRow(t)]
    BY DEF Start
  <1>2. \A t \in Triples : (HasRow(t) <=> HasRow(t)') /\ SeedRow(t)' = SeedRow(t)
    BY <1>1 DEF HasRow, SeedRow, SeedSource
  <1>3. Shape'
    <2>1. \A t \in Unmigrated : t \in Triples /\ SeedRow(t) \in Seed
      BY SeedFacts
    <2>2. DOMAIN plan' = Unmigrated /\ \A t \in Unmigrated : plan'[t] = SeedRow(t)
      BY <1>1
    <2> QED BY <1>1, <2>1, <2>2 DEF Shape
  <1>4. Plain' /\ Accounted'
    BY <1>1, <1>2 DEF Plain, Accounted, Shape
  <1>5. Planned'
    <2> SUFFICES ASSUME NEW t \in Unmigrated
                 PROVE  /\ arrows[t] # NoArrow /\ arrows[t] = SeedRow(t).row
                        /\ SeedRow(t) = SeedRow(t)'
      BY <1>1 DEF Planned
    <2> QED BY <1>2, SeedFacts
  <1> QED BY <1>3, <1>4, <1>5

\* A row of triple t under a new identity: the seed of t if it had none.
LEMMA RowMInv ==
    ASSUME MInv, NEW t \in Triples, NEW s \in Sources, NEW row \in Row,
           rows[t][s] = NoRow,
           rows' = [rows EXCEPT ![t] = [rows[t] EXCEPT ![s] = row]],
           ~HasRow(t) /\ t \in DOMAIN was' => row = was[t].row /\ s = was[t].source,
           DOMAIN was' \subseteq DOMAIN was, \A u \in DOMAIN was' : was'[u] = was[u],
           UNCHANGED legacy, DOMAIN arrows' = Triples,
           \A u \in Triples : u # t => arrows'[u] = arrows[u]
    PROVE  /\ rows' \in [Triples -> TripleRows] /\ HasRow(t)'
           /\ Plain' /\ Accounted'
  <1> USE DEF MInv
  <1>0. row # NoRow
    BY SentinelAssumption
  <1>1. /\ rows' \in [Triples -> TripleRows]
        /\ rows'[t][s] = row /\ \A r \in Sources : r # s => rows'[t][r] = rows[t][r]
        /\ \A u \in Triples : u # t => rows'[u] = rows[u]
    BY DEF Shape, TripleRows
  <1>2. HasRow(t)'
    <2>1. s \in DOMAIN rows'[t]
      BY <1>1 DEF TripleRows
    <2> QED BY <1>0, <1>1, <2>1 DEF HasRow, Support
  <1>3. \A u \in Triples : u # t => (HasRow(u)' <=> HasRow(u)) /\ SeedRow(u)' = SeedRow(u)
    BY <1>1 DEF HasRow, SeedRow, SeedSource
  <1>4. Plain'
    BY <1>2, <1>3 DEF Plain
  <1>5. ASSUME NEW u \in DOMAIN was'
        PROVE  IF HasRow(u)' THEN rows'[u][was'[u].source] = was'[u].row
               ELSE arrows'[u] # NoArrow /\ SeedRow(u)' = was'[u]
    <2>1. u \in Triples /\ was'[u] = was[u] /\ was[u] \in Seed
      BY DEF Shape
    <2>2. CASE u # t
      BY <1>1, <1>3, <2>1, <2>2 DEF Accounted
    <2>3. CASE u = t /\ ~HasRow(t)
      BY <1>1, <1>2, <2>1, <2>3
    <2>4. CASE u = t /\ HasRow(t)
      <3>1. rows[t][was[t].source] = was[t].row /\ was[t].row # NoRow
            /\ was[t].source \in Sources
        BY <2>1, <2>4, SentinelAssumption DEF Accounted, Seed
      <3> QED BY <1>1, <1>2, <2>1, <2>4, <3>1
    <2> QED BY <2>2, <2>3, <2>4
  <1> QED BY <1>1, <1>2, <1>4, <1>5 DEF Accounted

LEMMA CreateMInv ==
    ASSUME MInv, NEW t \in Triples, CreateRow(t)
    PROVE  MInv'
  <1> USE DEF MInv
  <1>1. /\ UNCHANGED <<arrows, legacy, stage, plan, was, ingests>>
        /\ stage = "rows" /\ t \in DOMAIN plan
        /\ rows[t][plan[t].source] = NoRow
        /\ rows' = [rows EXCEPT ![t] = [rows[t] EXCEPT ![plan[t].source] = plan[t].row]]
    BY DEF CreateRow
  <1>2. plan[t].source \in Sources /\ plan[t].row \in Row /\ plan[t] = SeedRow(t)
    BY <1>1 DEF Shape, Seed, Planned
  <1>3. ~HasRow(t) /\ t \in DOMAIN was' =>
           plan[t].row = was[t].row /\ plan[t].source = was[t].source
    BY <1>1, <1>2 DEF Accounted
  <1>4. DOMAIN arrows' = Triples
    BY <1>1 DEF Shape
  <1>5. rows' \in [Triples -> TripleRows] /\ Plain' /\ Accounted'
    BY <1>1, <1>2, <1>3, <1>4, RowMInv
  <1>6. Shape'
    BY <1>1, <1>5 DEF Shape
  <1>7. Planned'
    BY <1>1 DEF Planned, SeedRow, SeedSource
  <1> QED BY <1>5, <1>6, <1>7

LEMMA IngestMInv ==
    ASSUME MInv, NEW t \in Triples, NEW s \in Sources, NEW row \in Row,
           Ingest(t, s, row)
    PROVE  MInv'
  <1> USE DEF MInv
  <1>1. /\ UNCHANGED <<legacy, stage, plan>> /\ stage \in {"idle", "done"}
        /\ plan = NoPlan /\ ingests' \in Nat
        /\ was' = IF t \in Unmigrated THEN Drop(was, t) ELSE was
    BY DEF Ingest, Shape
  <1>2. /\ DOMAIN arrows' = Triples
        /\ \A u \in Triples : u # t => arrows'[u] = arrows[u]
    BY DEF Ingest, Shape
  <1>3. /\ DOMAIN was' \subseteq DOMAIN was /\ \A u \in DOMAIN was' : was'[u] = was[u]
        /\ t \in Unmigrated => t \notin DOMAIN was'
    BY <1>1 DEF Drop
  <1>4. rows' \in [Triples -> TripleRows] /\ Plain' /\ Accounted'
    <2>1. CASE rows[t][s] = NoRow
      <3>1. rows' = [rows EXCEPT ![t] = [rows[t] EXCEPT ![s] = row]]
        BY <2>1 DEF Ingest
      <3>2. ~HasRow(t) /\ t \in DOMAIN was => t \in Unmigrated
        BY DEF Accounted, Unmigrated
      <3>3. ~HasRow(t) /\ t \in DOMAIN was' => row = was[t].row /\ s = was[t].source
        BY <1>3, <3>2
      <3> QED BY <1>1, <1>2, <1>3, <2>1, <3>1, <3>3, RowMInv
    <2>2. CASE rows[t][s] # NoRow
      <3>1. rows' = rows
        BY <2>2 DEF Ingest, Shape
      <3>2. HasRow(t)
        BY <2>2 DEF HasRow, Support, Shape, TripleRows
      <3>3. ASSUME NEW u \in Triples, ~HasRow(u)'
            PROVE  ~HasRow(u) /\ arrows'[u] = arrows[u]
        BY <1>2, <3>1, <3>2, <3>3 DEF HasRow
      <3>4. Plain'
        BY <3>3 DEF Plain
      <3>5. ASSUME NEW u \in DOMAIN was'
            PROVE  IF HasRow(u)' THEN rows'[u][was'[u].source] = was'[u].row
                   ELSE arrows'[u] # NoArrow /\ SeedRow(u)' = was'[u]
        <4>1. u \in Triples /\ u \in DOMAIN was /\ was'[u] = was[u]
          BY <1>3 DEF Shape
        <4>2. CASE HasRow(u)
          BY <3>1, <4>1, <4>2 DEF Accounted, HasRow
        <4>3. CASE ~HasRow(u)
          <5>1. ~HasRow(u)' /\ arrows'[u] = arrows[u] /\ SeedRow(u)' = SeedRow(u)
            BY <1>1, <1>2, <3>1, <3>2, <4>1, <4>3 DEF HasRow, SeedRow, SeedSource
          <5> QED BY <4>1, <4>3, <5>1 DEF Accounted
        <4> QED BY <4>2, <4>3
      <3>6. Accounted'
        BY <3>5 DEF Accounted
      <3> QED BY <3>1, <3>4, <3>6 DEF Shape
    <2> QED BY <2>1, <2>2
  <1>5. Shape'
    BY <1>1, <1>2, <1>3, <1>4 DEF Shape
  <1>6. Planned'
    BY <1>1 DEF Planned, NoPlan
  <1> QED BY <1>4, <1>5, <1>6

\* The arrow of a planned row already has the confidence of the row.
LEMMA CheckIsQuiet ==
    ASSUME MInv, NEW t \in Triples, CheckArrow(t)
    PROVE  UNCHANGED <<rows, arrows, legacy, stage, was, ingests>> /\ plan' = Drop(plan, t)
  BY DEF MInv, CheckArrow, Planned

LEMMA QuietMInv ==
    ASSUME MInv, UNCHANGED <<rows, arrows, was>>, ingests' \in Nat,
           \/ UNCHANGED legacy
           \/ legacy' = [t \in Triples |-> IF HasRow(t) THEN NoLegacy ELSE legacy[t]],
           DOMAIN plan' \subseteq DOMAIN plan, \A t \in DOMAIN plan' : plan'[t] = plan[t],
           stage' \in {"idle", "strip", "done"} => plan' = NoPlan,
           stage' # "rows" \/ UNCHANGED <<stage, legacy>>
    PROVE  MInv'
  <1> USE DEF MInv
  <1>1. legacy' \in [Triples -> Sources \cup {NoLegacy}]
        /\ \A t \in Triples : ~HasRow(t) => legacy'[t] = legacy[t]
    BY DEF Shape
  <1>2. \A t \in Triples : (HasRow(t)' <=> HasRow(t))
                           /\ (~HasRow(t) => SeedRow(t)' = SeedRow(t))
    BY <1>1 DEF HasRow, SeedRow, SeedSource
  <1>3. Shape'
    BY <1>1 DEF Shape
  <1>4. Plain' /\ Accounted'
    BY <1>2 DEF Plain, Accounted, Shape
  <1>5. Planned'
    BY DEF Planned, SeedRow, SeedSource
  <1> QED BY <1>3, <1>4, <1>5

LEMMA NextMInv == MInv /\ [Next]_vars => MInv'
  <1> SUFFICES ASSUME MInv, [Next]_vars PROVE MInv'
    OBVIOUS
  <1>1. CASE Start
    BY <1>1, StartMInv
  <1>2. CASE \E t \in Triples : CreateRow(t)
    BY <1>2, CreateMInv
  <1>3. CASE \E t \in Triples, s \in Sources, row \in Row : Ingest(t, s, row)
    BY <1>3, IngestMInv
  <1>4. CASE \E t \in Triples : CheckArrow(t)
    <2>1. PICK t \in Triples : CheckArrow(t)
      BY <1>4
    <2>2. UNCHANGED <<rows, arrows, legacy, stage, was, ingests>> /\ plan' = Drop(plan, t)
      BY <2>1, CheckIsQuiet
    <2>3. stage = "arrows"
      BY <2>1 DEF CheckArrow
    <2> QED BY <2>2, <2>3, QuietMInv DEF Drop, MInv, Shape
  <1>5. CASE RowsDone \/ ArrowsDone \/ Strip \/ Crash
    BY <1>5, QuietMInv DEF RowsDone, ArrowsDone, Strip, Crash, MInv, Shape, NoPlan
  <1>6. CASE UNCHANGED vars
    BY <1>6, QuietMInv DEF vars, MInv, Shape
  <1> QED BY <1>1, <1>2, <1>3, <1>4, <1>5, <1>6 DEF Next, Execute

LEMMA MInvHolds == Spec => []MInv
  BY InitMInv, NextMInv, PTL DEF Spec

-----------------------------------------------------------------------------
(* The theorems *)

\* migrate_ledger: killed and repeated wherever and however often, it never
\* strips from a legacy arrow a provenance it has not recorded.
THEOREM ProvenanceIsKept == Spec => []ProvenanceKept
  <1>1. MInv => ProvenanceKept
    BY DEF MInv, Accounted, ProvenanceKept
  <1> QED BY <1>1, MInvHolds, PTL

\* Nor does it move an arrow in any field.
THEOREM NoArrowIsMoved == Spec => MigrationMovesNoArrow
  <1>1. MInv /\ [Next]_vars => [ingests' = ingests => arrows' = arrows]_vars
    <2> SUFFICES ASSUME MInv, Next, ingests' = ingests PROVE arrows' = arrows
      BY DEF vars
    <2>1. CASE \E t \in Triples : CheckArrow(t)
      BY <2>1, CheckIsQuiet
    <2>2. CASE \E t \in Triples, s \in Sources, row \in Row : Ingest(t, s, row)
      BY <2>2 DEF Ingest, MInv, Shape
    <2> QED BY <2>1, <2>2
            DEF Next, Execute, Start, CreateRow, RowsDone, ArrowsDone, Strip, Crash
  <1> QED BY <1>1, MInvHolds, PTL DEF Spec, MigrationMovesNoArrow

\* pg backfill-sources, and the links of ingested rows, leave the migration and
\* the ledger as they would be without them.
THEOREM MigrationsSurviveBackfills ==
    BackfillSpec => []ProvenanceKept /\ MigrationMovesNoArrow
  <1>1. BackfillInit => Init
    BY DEF BackfillInit
  <1>2. [BackfillNext]_allVars => [Next]_vars
    BY DEF BackfillNext, allVars, MigrationStep, IngestStep, Backfill, Load,
           MergeSource, Link, Refuse, Finish, Die, Next
  <1>3. BackfillSpec => Spec
    BY <1>1, <1>2, PTL DEF BackfillSpec, Spec
  <1> QED BY <1>3, ProvenanceIsKept, NoArrowIsMoved

-----------------------------------------------------------------------------
(* The source backfill *)

Identity == Triples \X Sources

\* The log names every row once.
LogShape ==
    /\ log \in Seq(Identity) /\ ToSet(log) = Recorded
    /\ \A j, k \in DOMAIN log : log[j] = log[k] => j = k

\* A running pass has its rows in the order of the log; what is older than one
\* of them is before it, or done: its source has a node.
InOrder ==
    /\ pending \in Seq(Identity)
    /\ \A a \in DOMAIN pending : pending[a] \in ToSet(log)
    /\ \A a \in DOMAIN pending, k \in DOMAIN log :
          k < Place(pending[a]) /\ log[k][2] \in DOMAIN SourceId =>
              \/ \E b \in 1 .. a - 1 : pending[b] = log[k]
              \/ firstSeen[SourceId[log[k][2]]] # 0

Earliest ==
    /\ firstSeen \in [Ids -> Nat]
    /\ \A i \in Ids \ seededLate : firstSeen[i] <= Len(log)
    /\ FirstSeenIsEarliest

BInv == MInv /\ LogShape /\ InOrder /\ Earliest

LEMMA PlaceIs ==
    ASSUME LogShape, NEW id \in ToSet(log)
    PROVE  Place(id) \in DOMAIN log /\ log[Place(id)] = id
  BY DEF LogShape, Place, ToSet

LEMMA BInvInit == BackfillInit => BInv
  <1> SUFFICES ASSUME BackfillInit PROVE BInv
    OBVIOUS
  <1>1. MInv
    BY InitMInv DEF BackfillInit
  <1>2. Recorded = {} /\ log = <<>> /\ pending = <<>> /\ firstSeen = [i \in Ids |-> 0]
    BY DEF BackfillInit, Init, Recorded, NoRows
  <1>3. LogShape
    BY <1>2 DEF LogShape, ToSet
  <1>4. InOrder /\ Earliest
    BY <1>2 DEF InOrder, Earliest, FirstSeenIsEarliest
  <1> QED BY <1>1, <1>3, <1>4 DEF BInv

\* The rows a statement writes are few, and none is removed.
LEMMA RowsGather ==
    ASSUME MInv,
           \/ rows' = rows
           \/ \E t \in Triples, s \in Sources, row \in Row :
                 rows' = [rows EXCEPT ![t] = [@ EXCEPT ![s] = row]]
    PROVE  Recorded \subseteq Recorded' /\ IsFiniteSet(Recorded' \ Recorded)
  <1>1. CASE rows' = rows
    <2>1. Recorded' = Recorded
      BY <1>1 DEF Recorded
    <2>2. Recorded' \ Recorded = {}
      BY <2>1
    <2> QED BY <2>1, <2>2, FS_EmptySet
  <1>2. ASSUME NEW t \in Triples, NEW s \in Sources, NEW row \in Row,
               rows' = [rows EXCEPT ![t] = [@ EXCEPT ![s] = row]]
        PROVE  Recorded \subseteq Recorded' /\ IsFiniteSet(Recorded' \ Recorded)
    <2>1. row # NoRow
      BY SentinelAssumption
    <2>2. \A u \in Triples, r \in Sources :
             rows'[u][r] = IF u = t /\ r = s THEN row ELSE rows[u][r]
      BY <1>2 DEF MInv, Shape, TripleRows
    <2>3. Recorded' = Recorded \cup {<<t, s>>}
      BY <2>1, <2>2 DEF Recorded
    <2>4. Recorded' \ Recorded \in SUBSET {<<t, s>>} /\ IsFiniteSet({<<t, s>>})
      BY <2>3, FS_Singleton
    <2> QED BY <2>3, <2>4, FS_Subset
  <1> QED BY <1>1, <1>2

LEMMA LogGrows ==
    ASSUME LogShape, Recorded \subseteq Recorded', IsFiniteSet(Recorded' \ Recorded),
           log' = log \o SetToSeq(Recorded' \ Recorded)
    PROVE  /\ LogShape'
           /\ Len(log) \in Nat /\ Len(log') \in Nat /\ Len(log) <= Len(log')
           /\ DOMAIN log = 1 .. Len(log) /\ DOMAIN log' = 1 .. Len(log')
           /\ \A k \in DOMAIN log : log'[k] = log[k]
           /\ \A id \in ToSet(log) : id \in ToSet(log') /\ Place(id)' = Place(id)
  <1> DEFINE T == Recorded' \ Recorded
             more == SetToSeq(T)
  <1>1. more \in Seq(T) /\ ToSet(more) = T
        /\ \A i, j \in DOMAIN more : more[i] = more[j] => i = j
    <2> HIDE DEF T
    <2> QED BY SetToSeqMembers DEF T
  <1>2. T \subseteq Identity
    BY DEF Recorded, Identity
  <1>0. log' = log \o more
    OBVIOUS
  <1> HIDE DEF more, T
  <1>3. log \in Seq(Identity) /\ more \in Seq(Identity)
    <2>1. log \in Seq(Identity)
      BY DEF LogShape
    <2>2. \A i \in DOMAIN more : more[i] \in Identity
      BY <1>1, <1>2
    <2> QED BY <1>1, <2>1, <2>2
  <1>4. /\ Len(log) \in Nat /\ DOMAIN log = 1 .. Len(log)
        /\ Len(more) \in Nat /\ DOMAIN more = 1 .. Len(more)
        /\ DOMAIN log' = 1 .. Len(log) + Len(more)
        /\ \A i \in 1 .. Len(log) : log'[i] = log[i]
        /\ \A i \in 1 .. Len(log) + Len(more) : i > Len(log) => log'[i] = more[i - Len(log)]
    <2> DEFINE joined == log \o more
    <2>1. /\ Len(log) \in Nat /\ DOMAIN log = 1 .. Len(log)
          /\ Len(more) \in Nat /\ DOMAIN more = 1 .. Len(more)
          /\ DOMAIN joined = 1 .. Len(log) + Len(more)
          /\ \A i \in 1 .. Len(log) : joined[i] = log[i]
          /\ \A i \in 1 .. Len(log) + Len(more) : i > Len(log) => joined[i] = more[i - Len(log)]
      BY <1>3, ConcatParts
    <2>2. log' = joined
      BY <1>0
    <2> HIDE DEF joined
    <2> QED BY <2>1, <2>2
  <1>5. log' \in Seq(Identity) /\ Len(log') = Len(log) + Len(more)
    <2> DEFINE joined == log \o more
    <2>1. joined \in Seq(Identity) /\ Len(joined) = Len(log) + Len(more)
      BY <1>3
    <2>2. log' = joined
      BY <1>0
    <2> HIDE DEF joined
    <2> QED BY <2>1, <2>2
  <1>6. ToSet(log') = Recorded'
    <2> DEFINE joined == log \o more
    <2>1. ToSet(joined) = ToSet(log) \cup ToSet(more)
      BY <1>3, ToSetConcat
    <2>2. log' = joined
      BY <1>0
    <2> HIDE DEF joined
    <2>3. ToSet(log') = ToSet(log) \cup ToSet(more)
      BY <2>1, <2>2
    <2> QED BY <1>1, <2>3 DEF LogShape, T
  <1>7. ASSUME NEW j \in DOMAIN log', NEW k \in DOMAIN log', log'[j] = log'[k] PROVE j = k
    <2>1. \A i \in DOMAIN log' : i \in 1 .. Len(log) => log'[i] \in Recorded
      BY <1>4 DEF LogShape, ToSet
    <2>2. \A i \in DOMAIN log' : i > Len(log) =>
             i - Len(log) \in DOMAIN more /\ log'[i] = more[i - Len(log)] /\ log'[i] \in T
      <3>1. \A j1 \in DOMAIN more : more[j1] \in T
        BY <1>1 DEF ToSet
      <3>2. \A i \in DOMAIN log' : i > Len(log) => i - Len(log) \in DOMAIN more
        BY <1>4
      <3> QED BY <1>4, <3>1, <3>2
    <2>3. \A id \in T : id \notin Recorded
      BY DEF T
    <2>4. \A i \in DOMAIN log' : i \in Nat /\ (i \in 1 .. Len(log) \/ i > Len(log))
      BY <1>4
    <2>5. CASE j \in 1 .. Len(log) /\ k \in 1 .. Len(log)
      BY <1>4, <1>7, <2>5 DEF LogShape
    <2>6. CASE j > Len(log) /\ k > Len(log)
      <3>1. j - Len(log) = k - Len(log)
        BY <1>1, <1>7, <2>2, <2>6
      <3> QED BY <1>4, <2>4, <3>1
    <2> QED BY <1>7, <2>1, <2>2, <2>3, <2>4, <2>5, <2>6
  <1>8. LogShape'
    BY <1>5, <1>6, <1>7 DEF LogShape, Identity
  <1>9. ASSUME NEW id \in ToSet(log) PROVE id \in ToSet(log') /\ Place(id)' = Place(id)
    <2>1. Place(id) \in DOMAIN log /\ log[Place(id)] = id
      BY PlaceIs
    <2>2. Place(id) \in DOMAIN log' /\ log'[Place(id)] = id
      BY <1>4, <2>1
    <2>3. id \in ToSet(log')
      BY <2>2 DEF ToSet
    <2>4. \A k \in DOMAIN log' : log'[k] = id => k = Place(id)
      BY <1>7, <2>2
    <2>5. Place(id)' = CHOOSE k \in DOMAIN log' : log'[k] = id
      BY DEF Place
    <2> QED BY <2>2, <2>3, <2>4, <2>5
  <1>10. Len(log') \in Nat /\ Len(log) <= Len(log') /\ DOMAIN log' = 1 .. Len(log')
    BY <1>4, <1>5
  <1> QED BY <1>4, <1>8, <1>9, <1>10

LEMMA SourceOf ==
    ASSUME LogShape, NEW k \in DOMAIN log, log[k][2] \in DOMAIN SourceId
    PROVE  SourceId[log[k][2]] \in Ids
  BY DEF Ids

\* The writes of migrations and documents.
LEMMA WritesKeepOrder ==
    ASSUME BInv, MInv', UNCHANGED pending,
           \/ rows' = rows
           \/ \E t \in Triples, s \in Sources, row \in Row :
                 rows' = [rows EXCEPT ![t] = [@ EXCEPT ![s] = row]],
           log' = log \o SetToSeq(Recorded' \ Recorded),
           firstSeen' \in [Ids -> Nat], seededLate \subseteq seededLate',
           \A i \in Ids : \/ firstSeen'[i] = firstSeen[i]
                          \/ firstSeen[i] = 0 /\ i \in seededLate'
    PROVE  BInv'
  <1>1. Recorded \subseteq Recorded' /\ IsFiniteSet(Recorded' \ Recorded)
    BY RowsGather DEF BInv
  <1>2. /\ LogShape'
        /\ Len(log) \in Nat /\ Len(log') \in Nat /\ Len(log) <= Len(log')
        /\ DOMAIN log = 1 .. Len(log) /\ DOMAIN log' = 1 .. Len(log')
        /\ \A k \in DOMAIN log : log'[k] = log[k]
        /\ \A id \in ToSet(log) : id \in ToSet(log') /\ Place(id)' = Place(id)
    BY <1>1, LogGrows DEF BInv
  <1>3. InOrder'
    <2>1. ASSUME NEW a \in DOMAIN pending, NEW k \in DOMAIN log',
                 k < Place(pending[a])', log'[k][2] \in DOMAIN SourceId
          PROVE  \/ \E b \in 1 .. a - 1 : pending[b] = log'[k]
                 \/ firstSeen'[SourceId[log'[k][2]]] # 0
      <3>1. pending[a] \in ToSet(log) /\ Place(pending[a])' = Place(pending[a])
        BY <1>2 DEF BInv, InOrder
      <3>2. Place(pending[a]) \in DOMAIN log
        BY <3>1, PlaceIs DEF BInv
      <3>3. k \in DOMAIN log /\ log'[k] = log[k]
        BY <1>2, <2>1, <3>1, <3>2
      <3>4. k < Place(pending[a])
        BY <2>1, <3>1
      <3>5. \/ \E b \in 1 .. a - 1 : pending[b] = log[k]
            \/ firstSeen[SourceId[log[k][2]]] # 0
        BY <2>1, <3>3, <3>4 DEF BInv, InOrder
      <3>6. SourceId[log[k][2]] \in Ids
        BY <2>1, <3>3, SourceOf DEF BInv
      <3>7. firstSeen[SourceId[log[k][2]]] # 0 => firstSeen'[SourceId[log[k][2]]] # 0
        BY <3>6
      <3> QED BY <3>3, <3>5, <3>7
    <2>2. pending' \in Seq(Identity) /\ \A a \in DOMAIN pending' : pending'[a] \in ToSet(log')
      BY <1>2 DEF BInv, InOrder
    <2> QED BY <2>1, <2>2 DEF InOrder, Identity
  <1>4. Earliest'
    <2>1. \A i \in Ids \ seededLate' : /\ i \in Ids \ seededLate /\ firstSeen'[i] = firstSeen[i]
                                       /\ firstSeen[i] \in Nat /\ firstSeen[i] <= Len(log)
      BY DEF BInv, Earliest
    <2>2. ASSUME NEW i \in Ids \ seededLate', NEW k \in 1 .. firstSeen'[i] - 1
          PROVE  k \in DOMAIN log /\ log'[k] = log[k] /\ k \in 1 .. firstSeen[i] - 1
      BY <1>2, <2>1
    <2>3. FirstSeenIsEarliest'
      BY <2>1, <2>2 DEF BInv, Earliest, FirstSeenIsEarliest
    <2>4. \A i \in Ids \ seededLate' : firstSeen'[i] <= Len(log')
      BY <1>2, <2>1
    <2> QED BY <2>3, <2>4 DEF Earliest
  <1> QED BY <1>2, <1>3, <1>4 DEF BInv

LEMMA MigrationStepOrder == BInv /\ MigrationStep => BInv'
  <1> SUFFICES ASSUME BInv, MigrationStep PROVE BInv'
    OBVIOUS
  <1>1. MInv'
    BY NextMInv DEF BInv, MigrationStep, Next
  <1>2. \/ rows' = rows
        \/ \E t \in Triples, s \in Sources, row \in Row :
              rows' = [rows EXCEPT ![t] = [@ EXCEPT ![s] = row]]
    <2>1. ASSUME NEW t \in Triples, CreateRow(t)
          PROVE  \E s \in Sources, row \in Row :
                    rows' = [rows EXCEPT ![t] = [@ EXCEPT ![s] = row]]
      <3>1. plan[t].source \in Sources /\ plan[t].row \in Row
        BY <2>1 DEF CreateRow, BInv, MInv, Shape, Seed
      <3> QED BY <2>1, <3>1 DEF CreateRow
    <2> QED BY <2>1 DEF MigrationStep, Execute, Start, RowsDone, CheckArrow, ArrowsDone,
                Strip, Crash
  <1>3. UNCHANGED <<pending, firstSeen, seededLate>>
        /\ log' = log \o SetToSeq(Recorded' \ Recorded)
    BY DEF MigrationStep, passVars
  <1>4. firstSeen' \in [Ids -> Nat] /\ \A i \in Ids : firstSeen'[i] = firstSeen[i]
    BY <1>3 DEF BInv, Earliest
  <1> QED BY <1>1, <1>2, <1>3, <1>4, WritesKeepOrder

LEMMA IngestStepOrder ==
    ASSUME BInv, NEW t \in Triples, NEW s \in Sources, NEW row \in Row, IngestStep(t, s, row)
    PROVE  BInv'
  <1>1. MInv'
    BY NextMInv DEF BInv, IngestStep, Next
  <1>2. rows' = rows \/ rows' = [rows EXCEPT ![t] = [@ EXCEPT ![s] = row]]
    BY DEF IngestStep, Ingest, BInv, MInv, Shape
  <1>3. UNCHANGED pending /\ log' = log \o SetToSeq(Recorded' \ Recorded)
    BY DEF IngestStep, passVars
  <1>4. /\ firstSeen' \in [Ids -> Nat] /\ seededLate \subseteq seededLate'
        /\ \A i \in Ids : \/ firstSeen'[i] = firstSeen[i]
                          \/ firstSeen[i] = 0 /\ i \in seededLate'
    <2>1. firstSeen \in [Ids -> Nat] /\ Len(log) + 1 \in Nat
      BY DEF BInv, Earliest, LogShape
    <2>2. CASE rows[t][s] = NoRow /\ s \in DOMAIN SourceId
      <3> DEFINE i == SourceId[s]
      <3>1. i \in Ids
        BY <2>2 DEF Ids
      <3>2. /\ firstSeen' = [firstSeen EXCEPT ![i] = IF @ = 0 THEN Len(log) + 1 ELSE @]
            /\ seededLate' = seededLate \cup {j \in {i} : firstSeen[i] = 0}
        BY <2>2 DEF IngestStep
      <3> HIDE DEF i
      <3> QED BY <2>1, <3>1, <3>2
    <2>3. CASE ~(rows[t][s] = NoRow /\ s \in DOMAIN SourceId)
      BY <2>1, <2>3 DEF IngestStep
    <2> QED BY <2>2, <2>3
  <1> QED BY <1>1, <1>2, <1>3, <1>4, WritesKeepOrder

\* A step that leaves log, firstSeen and the ledger alone, and the queue or empties it.
LEMMA QuietOrder ==
    ASSUME BInv, UNCHANGED <<vars, log, firstSeen, seededLate>>,
           UNCHANGED pending \/ pending' = <<>>
    PROVE  BInv'
  <1>1. MInv' /\ LogShape' /\ Earliest'
    <2>1. MInv'
      BY NextMInv DEF BInv
    <2>2. Recorded' = Recorded
      BY DEF Recorded, vars
    <2> QED BY <2>1, <2>2 DEF BInv, LogShape, Earliest, FirstSeenIsEarliest
  <1>2. InOrder'
    <2>1. CASE UNCHANGED pending
      BY <2>1 DEF BInv, InOrder, Place
    <2>2. CASE pending' = <<>>
      BY <2>2 DEF InOrder
    <2> QED BY <2>1, <2>2
  <1> QED BY <1>1, <1>2 DEF BInv

LEMMA LoadOrder == BInv /\ Load => BInv'
  <1> SUFFICES ASSUME BInv, Load PROVE BInv'
    OBVIOUS
  <1> DEFINE in == {k \in DOMAIN log : log[k][2] # EmptyRef}
  <1>1. pending' = Picked(log, in) /\ UNCHANGED <<vars, log, firstSeen, seededLate>>
    BY DEF Load, linkVars
  <1>2. /\ log \in Seq(Identity) /\ in \in SUBSET DOMAIN log
        /\ \A j, k \in DOMAIN log : log[j] = log[k] => j = k
    BY DEF BInv, LogShape
  <1>3. \A k \in DOMAIN log : log[k][2] \in DOMAIN SourceId => k \in in
    BY BackfillAssumption
  <1> HIDE DEF in
  <1>4. /\ pending' \in Seq(Identity)
        /\ \A i \in in : Rank(in, i) \in DOMAIN pending' /\ pending'[Rank(in, i)] = log[i]
        /\ \A a \in DOMAIN pending' : \E i \in in : Rank(in, i) = a
        /\ \A i, j \in in : i < j => Rank(in, i) < Rank(in, j)
    BY <1>1, <1>2, PickedMembers
  <1>5. ASSUME NEW a \in DOMAIN pending'
        PROVE  /\ pending'[a] \in ToSet(log)
               /\ \A k \in DOMAIN log :
                     k < Place(pending'[a]) /\ log[k][2] \in DOMAIN SourceId =>
                         \E b \in 1 .. a - 1 : pending'[b] = log[k]
    <2>1. PICK i \in in : Rank(in, i) = a
      BY <1>4
    <2>2. pending'[a] = log[i] /\ i \in DOMAIN log
      BY <1>2, <1>4, <2>1
    <2>3. pending'[a] \in ToSet(log)
      BY <2>2 DEF ToSet
    <2>4. Place(pending'[a]) = i
      BY <1>2, <2>2 DEF Place
    <2>5. ASSUME NEW k \in DOMAIN log, k < i, log[k][2] \in DOMAIN SourceId
          PROVE  \E b \in 1 .. a - 1 : pending'[b] = log[k]
      <3>1. k \in in
        BY <1>3, <2>5
      <3>2. Rank(in, k) \in DOMAIN pending' /\ pending'[Rank(in, k)] = log[k] /\ Rank(in, k) < a
        BY <1>4, <2>1, <2>5, <3>1
      <3>3. Rank(in, k) \in 1 .. a - 1
        BY <1>4, <3>2
      <3> QED BY <3>2, <3>3
    <2> QED BY <2>3, <2>4, <2>5
  <1>6. MInv' /\ LogShape' /\ Earliest'
    <2>1. MInv'
      BY <1>1, NextMInv DEF BInv
    <2>2. Recorded' = Recorded
      BY <1>1 DEF Recorded, vars
    <2> QED BY <1>1, <2>1, <2>2 DEF BInv, LogShape, Earliest, FirstSeenIsEarliest
  <1>7. InOrder'
    BY <1>1, <1>4, <1>5 DEF InOrder, Identity, Place
  <1> QED BY <1>6, <1>7 DEF BInv

\* The head of the queue is not EmptyRef's and its source has no older row.
LEMMA MergeOrder == BInv /\ MergeSource => BInv'
  <1> SUFFICES ASSUME BInv, MergeSource PROVE BInv'
    OBVIOUS
  <1> DEFINE head == Head(pending)
             i == NextId
  <1>1. /\ pending # <<>> /\ firstSeen[i] = 0
        /\ firstSeen' = [firstSeen EXCEPT ![i] = Place(head)]
        /\ UNCHANGED <<vars, log, seededLate, pending>>
    BY DEF MergeSource, HasId, passVars
  <1>2. /\ head = pending[1] /\ 1 \in DOMAIN pending /\ pending \in Seq(Identity)
        /\ head \in ToSet(log)
    BY <1>1 DEF BInv, InOrder
  <1>3. Place(head) \in DOMAIN log /\ log[Place(head)] = head /\ log \in Seq(Identity)
    BY <1>2, PlaceIs DEF BInv, LogShape
  <1>4. Place(head) \in Nat /\ Place(head) # 0 /\ Place(head) <= Len(log)
        /\ DOMAIN log = 1 .. Len(log) /\ Len(log) \in Nat
    BY <1>3
  <1>5. firstSeen \in [Ids -> Nat]
    BY DEF BInv, Earliest
  <1> HIDE DEF head, i
  <1>6. /\ firstSeen' \in [Ids -> Nat]
        /\ \A j \in Ids : firstSeen'[j] = IF j = i THEN Place(head) ELSE firstSeen[j]
    BY <1>1, <1>4, <1>5
  <1>7. ASSUME NEW k \in 1 .. Place(head) - 1, log[k][2] \in DOMAIN SourceId
        PROVE  SourceId[log[k][2]] # i
    <2>1. k \in DOMAIN log /\ k < Place(head)
      BY <1>4
    <2>2. \/ \E b \in 1 .. 1 - 1 : pending[b] = log[k]
          \/ firstSeen[SourceId[log[k][2]]] # 0
      BY <1>2, <1>7, <2>1 DEF BInv, InOrder
    <2> QED BY <1>1, <2>2
  <1>8. Earliest'
    BY <1>1, <1>4, <1>6, <1>7 DEF BInv, Earliest, FirstSeenIsEarliest
  <1>9. MInv' /\ LogShape'
    <2>1. MInv'
      BY <1>1, NextMInv DEF BInv
    <2>2. Recorded' = Recorded
      BY <1>1 DEF Recorded, vars
    <2> QED BY <1>1, <2>1, <2>2 DEF BInv, LogShape
  <1>10. InOrder'
    <2>1. \A k \in DOMAIN log : log[k][2] \in DOMAIN SourceId /\ firstSeen[SourceId[log[k][2]]] # 0
             => firstSeen'[SourceId[log[k][2]]] # 0
      BY <1>4, <1>6, SourceOf DEF BInv
    <2> QED BY <1>1, <2>1 DEF BInv, InOrder, Place
  <1> QED BY <1>8, <1>9, <1>10 DEF BInv

LEMMA LinkOrder == BInv /\ Link => BInv'
  <1> SUFFICES ASSUME BInv, Link PROVE BInv'
    OBVIOUS
  <1>1. /\ pending # <<>> /\ firstSeen[SourceId[Head(pending)[2]]] # 0
        /\ pending' = Tail(pending) /\ UNCHANGED <<vars, log, firstSeen, seededLate>>
    BY DEF Link, HasId, NextId
  <1>2. pending \in Seq(Identity)
    BY DEF BInv, InOrder
  <1>3. /\ Tail(pending) \in Seq(Identity) /\ Len(pending) \in Nat /\ Head(pending) = pending[1]
        /\ DOMAIN pending = 1 .. Len(pending) /\ DOMAIN Tail(pending) = 1 .. Len(pending) - 1
        /\ \A a \in 1 .. Len(pending) - 1 : Tail(pending)[a] = pending[a + 1]
    BY <1>1, <1>2
  <1>4. ASSUME NEW a \in DOMAIN pending'
        PROVE  /\ pending'[a] \in ToSet(log)
               /\ \A k \in DOMAIN log :
                     k < Place(pending'[a]) /\ log[k][2] \in DOMAIN SourceId =>
                         \/ \E b \in 1 .. a - 1 : pending'[b] = log[k]
                         \/ firstSeen[SourceId[log[k][2]]] # 0
    <2>1. a + 1 \in DOMAIN pending /\ pending'[a] = pending[a + 1] /\ a \in 1 .. Len(pending) - 1
      BY <1>1, <1>3
    <2>2. pending'[a] \in ToSet(log)
      BY <2>1 DEF BInv, InOrder
    <2>3. ASSUME NEW k \in DOMAIN log, k < Place(pending'[a]), log[k][2] \in DOMAIN SourceId,
                 firstSeen[SourceId[log[k][2]]] = 0
          PROVE  \E b \in 1 .. a - 1 : pending'[b] = log[k]
      <3>1. PICK c \in 1 .. (a + 1) - 1 : pending[c] = log[k]
        BY <2>1, <2>3 DEF BInv, InOrder
      <3>2. c # 1
        BY <1>1, <1>3, <2>3, <3>1
      <3>3. c - 1 \in 1 .. a - 1 /\ c - 1 \in 1 .. Len(pending) - 1
        BY <1>3, <2>1, <3>1, <3>2
      <3>4. pending'[c - 1] = pending[c]
        BY <1>1, <1>3, <3>3
      <3> QED BY <3>1, <3>3, <3>4
    <2> QED BY <2>2, <2>3
  <1>5. MInv' /\ LogShape' /\ Earliest'
    <2>1. MInv'
      BY <1>1, NextMInv DEF BInv
    <2>2. Recorded' = Recorded
      BY <1>1 DEF Recorded, vars
    <2> QED BY <1>1, <2>1, <2>2 DEF BInv, LogShape, Earliest, FirstSeenIsEarliest
  <1>6. InOrder'
    BY <1>1, <1>3, <1>4 DEF InOrder, Identity, Place
  <1> QED BY <1>5, <1>6 DEF BInv

LEMMA BInvStep == BInv /\ [BackfillNext]_allVars => BInv'
  <1> SUFFICES ASSUME BInv, [BackfillNext]_allVars PROVE BInv'
    OBVIOUS
  <1>1. CASE Refuse \/ Finish \/ Die
    BY <1>1, QuietOrder DEF Refuse, Finish, Die, linkVars
  <1>2. CASE UNCHANGED allVars
    BY <1>2, QuietOrder DEF allVars, linkVars, passVars
  <1> QED BY <1>1, <1>2, MigrationStepOrder, IngestStepOrder, LoadOrder, MergeOrder, LinkOrder
          DEF BackfillNext, Backfill

\* pg backfill-sources: however often it is killed and repeated, and whatever
\* is written between its load and its writes, the node of a source that no
\* document created is dated by the oldest of its rows.
THEOREM NodesAreDatedByTheOldest == BackfillSpec => []FirstSeenIsEarliest
  <1>1. BInv => FirstSeenIsEarliest
    BY DEF BInv, Earliest
  <1> QED BY <1>1, BInvInit, BInvStep, PTL DEF BackfillSpec
-----------------------------------------------------------------------------
(* The planner migrate_ledger hands all its candidates to, and             *)
(* upsert_extraction one at a time.                                        *)

\* Any ledger and any batch, in either repeat mode.
PlanInput == existing \in [Triples -> TripleRows] /\ batch \in Seq(Candidate)

Identities == Triples \X Sources
Partial(D, R) == UNION {[ds -> R] : ds \in SUBSET D}
PlannedWrites == Partial(Identities, Row)
PlannedScopes == Partial(Triples, Scopes)
WritePlans == [creates : PlannedWrites, updates : PlannedWrites,
               skips : SUBSET Identities, scope : PlannedScopes]

\* Every row the plan refreshes is in the ledger it was made for.
Held(rs, p) ==
    \A t \in Triples, s \in Sources : <<t, s>> \in DOMAIN p.updates => rs[t][s] # NoRow

LEMMA CandidateFacts ==
    ASSUME NEW c \in Candidate
    PROVE  /\ c.triple \in Triples /\ c.source \in Sources /\ Id(c) \in Identities
           /\ c.row \in Row /\ c.row # NoRow /\ c.row.scope \in Scopes
  BY SentinelAssumption DEF Candidate, Row, Id, Identities

LEMMA EmptyPlanType == EmptyPlan \in WritePlans
  <1>1. /\ <<>> \in [{} -> Row] /\ <<>> \in [{} -> Scopes]
    OBVIOUS
  <1>2. <<>> \in PlannedWrites
    BY <1>1 DEF PlannedWrites, Partial
  <1>3. <<>> \in PlannedScopes
    BY <1>1 DEF PlannedScopes, Partial
  <1> QED BY <1>2, <1>3 DEF EmptyPlan, WritePlans

LEMMA WithType ==
    ASSUME NEW D, NEW R, NEW f \in Partial(D, R), NEW x \in D, NEW v \in R
    PROVE  With(f, x, v) \in Partial(D, R)
  <1>1. DOMAIN f \cup {x} \in SUBSET D /\ With(f, x, v) \in [DOMAIN f \cup {x} -> R]
    BY DEF With, Partial
  <1> QED BY <1>1 DEF Partial

\* One more candidate: its triple will have its arrow recomputed, and what was
\* to be refreshed still is.
LEMMA PlanOneType ==
    ASSUME NEW rs \in [Triples -> TripleRows], NEW p \in WritePlans, NEW c \in Candidate
    PROVE  LET q == PlanOne(rs, p, c)
           IN  /\ q \in WritePlans
               /\ DOMAIN q.scope = DOMAIN p.scope \cup {c.triple}
               /\ DOMAIN p.updates \subseteq DOMAIN q.updates
  <1> DEFINE Fits(q) == /\ q \in WritePlans
                        /\ DOMAIN q.scope = DOMAIN p.scope \cup {c.triple}
                        /\ DOMAIN p.updates \subseteq DOMAIN q.updates
  <1>1. /\ p.creates \in PlannedWrites /\ p.updates \in PlannedWrites
        /\ p.skips \in SUBSET Identities /\ p.scope \in PlannedScopes
    BY DEF WritePlans
  <1>2. /\ c.triple \in Triples /\ Id(c) \in Identities /\ c.row \in Row
        /\ c.row.scope \in Scopes /\ NoScope \in Scopes
    BY CandidateFacts, StoreAssumption
  <1>3. \A v \in Scopes : With(p.scope, c.triple, v) \in PlannedScopes
    BY <1>1, <1>2, WithType DEF PlannedScopes
  <1>4. \A f \in PlannedWrites : With(f, Id(c), c.row) \in PlannedWrites
    BY <1>2, WithType DEF PlannedWrites
  <1>5. Restrict(p.creates, DOMAIN p.creates \ {Id(c)}) \in PlannedWrites
    <2> DEFINE ids == DOMAIN p.creates \ {Id(c)}
    <2>1. ids \in SUBSET Identities /\ Restrict(p.creates, ids) \in [ids -> Row]
      BY <1>1 DEF PlannedWrites, Partial, Restrict
    <2> QED BY <2>1 DEF PlannedWrites, Partial
  <1>6. Fits(PlanCreate(p, c))
    <2>1. PlanCreate(p, c) \in WritePlans
      BY <1>1, <1>2, <1>3, <1>4 DEF PlanCreate, WritePlans
    <2>2. /\ PlanCreate(p, c).scope = With(p.scope, c.triple, c.row.scope)
          /\ PlanCreate(p, c).updates = p.updates
      BY DEF PlanCreate, WritePlans
    <2>3. DOMAIN PlanCreate(p, c).scope = DOMAIN p.scope \cup {c.triple}
      BY <2>2 DEF With
    <2> QED BY <2>1, <2>2, <2>3
  <1>7. Fits(PlanRefresh(p, c))
    <2>1. PlanRefresh(p, c) \in WritePlans
      BY <1>1, <1>2, <1>3, <1>4, <1>5 DEF PlanRefresh, WritePlans
    <2>2. /\ PlanRefresh(p, c).scope = With(p.scope, c.triple, c.row.scope)
          /\ PlanRefresh(p, c).updates = With(p.updates, Id(c), c.row)
      BY DEF PlanRefresh, WritePlans
    <2>3. /\ DOMAIN PlanRefresh(p, c).scope = DOMAIN p.scope \cup {c.triple}
          /\ DOMAIN p.updates \subseteq DOMAIN PlanRefresh(p, c).updates
      BY <2>2 DEF With
    <2> QED BY <2>1, <2>3
  <1>8. Fits(PlanSkip(p, c))
    <2> DEFINE sc == IF c.triple \in DOMAIN p.scope THEN p.scope
                     ELSE With(p.scope, c.triple, NoScope)
    <2>1. sc \in PlannedScopes /\ DOMAIN sc = DOMAIN p.scope \cup {c.triple}
      BY <1>1, <1>2, <1>3 DEF With
    <2>2. PlanSkip(p, c) = [p EXCEPT !.skips = p.skips \cup {Id(c)}, !.scope = sc]
      BY DEF PlanSkip
    <2> HIDE DEF sc
    <2>3. PlanSkip(p, c) \in WritePlans
      BY <1>1, <1>2, <2>1, <2>2 DEF WritePlans
    <2>4. PlanSkip(p, c).scope = sc /\ PlanSkip(p, c).updates = p.updates
      BY <2>2 DEF WritePlans
    <2> QED BY <2>1, <2>3, <2>4
  <1> HIDE DEF Fits
  <1>9. Fits(PlanOne(rs, p, c))
    BY <1>6, <1>7, <1>8 DEF PlanOne
  <1> QED BY <1>9 DEF Fits

LEMMA ExecutedType ==
    ASSUME NEW rs \in [Triples -> TripleRows], NEW p \in WritePlans
    PROVE  Executed(rs, p) \in [Triples -> TripleRows]
  <1>1. \A id \in DOMAIN p.updates : p.updates[id] \in Row
    BY DEF WritePlans, PlannedWrites, Partial
  <1>2. \A id \in DOMAIN p.creates : p.creates[id] \in Row
    BY DEF WritePlans, PlannedWrites, Partial
  <1> QED BY <1>1, <1>2 DEF Executed, TripleRows

-----------------------------------------------------------------------------

\* The plan of a batch is reached candidate by candidate.
LEMMA PlanRuns ==
    ASSUME NEW rs \in [Triples -> TripleRows], NEW cands \in Seq(Candidate)
    PROVE  \E f \in [0 .. Len(cands) -> WritePlans] :
              /\ f[0] = EmptyPlan
              /\ \A n \in 1 .. Len(cands) : f[n] = PlanOne(rs, f[n - 1], cands[n])
              /\ PlanWrites(rs, cands) = f[Len(cands)]
  <1> DEFINE m == Len(cands)
             step == [n \in 1 .. m |-> [p \in WritePlans |-> PlanOne(rs, p, cands[n])]]
             Body(f, n) == IF n = 0 THEN EmptyPlan ELSE PlanOne(rs, f[n - 1], cands[n])
             upTo == CHOOSE f : f = [n \in 0 .. m |-> Body(f, n)]
  <1>1. m \in Nat /\ \A n \in 1 .. m : cands[n] \in Candidate
    OBVIOUS
  <1>2. step \in [1 .. m -> [WritePlans -> WritePlans]]
    BY <1>1, PlanOneType
  <1>3. PICK f : Passes(f, WritePlans, EmptyPlan, m, step)
    <2>1. m \in Nat /\ EmptyPlan \in WritePlans
      BY <1>1, EmptyPlanType
    <2> HIDE DEF m, step
    <2> QED BY <1>2, <2>1, RunExists
  <1>4. ASSUME NEW n \in 1 .. m PROVE f[n] = PlanOne(rs, f[n - 1], cands[n])
    <2>1. f[n - 1] \in WritePlans
      BY <1>1, <1>3 DEF Passes
    <2> QED BY <1>3, <2>1 DEF Passes
  <1>5. \A n \in 0 .. m : f[n] = Body(f, n)
    BY <1>1, <1>3, <1>4 DEF Passes
  <1>6. f = [n \in 0 .. m |-> Body(f, n)]
    <2> HIDE DEF Body
    <2> QED BY <1>3, <1>5 DEF Passes
  <1>7. upTo = [n \in 0 .. m |-> Body(upTo, n)]
    <2> HIDE DEF Body
    <2> QED BY <1>6
  <1>8. PlanWrites(rs, cands) = upTo[m]
    BY DEF PlanWrites
  <1> HIDE DEF upTo
  <1>9. upTo[0] = EmptyPlan /\ \A n \in 1 .. m : upTo[n] = PlanOne(rs, upTo[n - 1], cands[n])
    BY <1>1, <1>7
  <1>10. upTo \in [0 .. m -> WritePlans]
    <2> DEFINE T == {n \in Nat : n <= m => upTo[n] \in WritePlans}
    <2>1. 0 \in T
      BY <1>9, EmptyPlanType
    <2>2. ASSUME NEW n \in T PROVE n + 1 \in T
      <3> SUFFICES ASSUME n + 1 <= m PROVE upTo[n + 1] \in WritePlans
        BY <2>2
      <3>1. n + 1 \in 1 .. m /\ (n + 1) - 1 = n /\ upTo[n] \in WritePlans
        BY <1>1, <2>2
      <3> QED BY <1>1, <1>9, <3>1, PlanOneType
    <2>3. T = Nat
      <3> HIDE DEF T
      <3>1. T \in SUBSET Nat
        BY DEF T
      <3> QED BY <2>1, <2>2, <3>1, Induct
    <2>4. \A n \in 0 .. m : upTo[n] \in WritePlans
      BY <1>1, <2>3
    <2> QED BY <1>7, <2>4
  <1> QED BY <1>8, <1>9, <1>10

\* The plan of one candidate.
LEMMA PlanAlone ==
    ASSUME NEW rs \in [Triples -> TripleRows], NEW c \in Candidate
    PROVE  PlanWrites(rs, <<c>>) = PlanOne(rs, EmptyPlan, c)
  <1>1. <<c>> \in Seq(Candidate) /\ Len(<<c>>) = 1 /\ <<c>>[1] = c
    OBVIOUS
  <1>2. PICK f : /\ f[0] = EmptyPlan
                 /\ \A n \in 1 .. 1 : f[n] = PlanOne(rs, f[n - 1], <<c>>[n])
                 /\ PlanWrites(rs, <<c>>) = f[1]
    BY <1>1, PlanRuns
  <1>3. f[1] = PlanOne(rs, f[1 - 1], <<c>>[1])
    BY <1>2
  <1> QED BY <1>1, <1>2, <1>3

\* The ledger of the claims planned one at a time is reached claim by claim.
LEMMA OneByOneRuns ==
    ASSUME NEW rs \in [Triples -> TripleRows], NEW cands \in Seq(Candidate)
    PROVE  \E f \in [0 .. Len(cands) -> [Triples -> TripleRows]] :
              /\ f[0] = rs
              /\ \A n \in 1 .. Len(cands) :
                    f[n] = Executed(f[n - 1], PlanOne(f[n - 1], EmptyPlan, cands[n]))
              /\ OneByOne(rs, cands) = f[Len(cands)]
  <1> DEFINE m == Len(cands)
             Ledgers == [Triples -> TripleRows]
             Alone(acc, c) == Executed(acc, PlanWrites(acc, <<c>>))
             step == [n \in 1 .. m |-> [acc \in Ledgers |-> Alone(acc, cands[n])]]
             Body(f, n) == IF n = 0 THEN rs ELSE Alone(f[n - 1], cands[n])
             upTo == CHOOSE f : f = [n \in 0 .. m |-> Body(f, n)]
  <1>1. m \in Nat /\ \A n \in 1 .. m : cands[n] \in Candidate
    OBVIOUS
  <1>2. ASSUME NEW acc \in Ledgers, NEW c \in Candidate
        PROVE  /\ Alone(acc, c) = Executed(acc, PlanOne(acc, EmptyPlan, c))
               /\ Alone(acc, c) \in Ledgers
    <2>1. PlanWrites(acc, <<c>>) = PlanOne(acc, EmptyPlan, c)
      BY PlanAlone
    <2>2. PlanOne(acc, EmptyPlan, c) \in WritePlans
      BY EmptyPlanType, PlanOneType
    <2> QED BY <2>1, <2>2, ExecutedType
  <1> HIDE DEF Alone
  <1>3. step \in [1 .. m -> [Ledgers -> Ledgers]]
    BY <1>1, <1>2
  <1>4. PICK f : Passes(f, Ledgers, rs, m, step)
    <2> HIDE DEF m, step
    <2> QED BY <1>1, <1>3, RunExists
  <1>5. ASSUME NEW n \in 1 .. m
        PROVE  f[n] = Alone(f[n - 1], cands[n]) /\ f[n - 1] \in Ledgers
    <2>1. f[n - 1] \in Ledgers
      BY <1>1, <1>4 DEF Passes
    <2> QED BY <1>4, <2>1 DEF Passes
  <1>6. \A n \in 0 .. m : f[n] = Body(f, n)
    BY <1>1, <1>4, <1>5 DEF Passes
  <1>7. f = [n \in 0 .. m |-> Body(f, n)]
    <2> HIDE DEF Body
    <2> QED BY <1>4, <1>6 DEF Passes
  <1>8. upTo = [n \in 0 .. m |-> Body(upTo, n)]
    <2> HIDE DEF Body
    <2> QED BY <1>7
  <1>9. OneByOne(rs, cands) = upTo[m]
    BY DEF OneByOne, Alone
  <1> HIDE DEF upTo
  <1>10. upTo[0] = rs /\ \A n \in 1 .. m : upTo[n] = Alone(upTo[n - 1], cands[n])
    BY <1>1, <1>8
  <1> DEFINE T == {n \in Nat : n <= m => upTo[n] \in Ledgers}
  <1>11. 0 \in T
    BY <1>10
  <1>12. ASSUME NEW n \in T PROVE n + 1 \in T
    <2>1. SUFFICES ASSUME n + 1 <= m PROVE upTo[n + 1] \in Ledgers
      BY <1>12
    <2>2. n + 1 \in 1 .. m /\ (n + 1) - 1 = n /\ upTo[n] \in Ledgers
      BY <1>1, <1>12, <2>1
    <2>3. upTo[n + 1] = Alone(upTo[n], cands[n + 1]) /\ cands[n + 1] \in Candidate
      BY <1>1, <1>10, <2>2
    <2> QED BY <1>2, <2>2, <2>3
  <1>13. T = Nat
    <2> HIDE DEF T
    <2>1. T \in SUBSET Nat
      BY DEF T
    <2> QED BY <1>11, <1>12, <2>1, Induct
  <1>14. \A n \in 0 .. m : upTo[n] \in Ledgers
    BY <1>1, <1>13
  <1>15. upTo \in [0 .. m -> Ledgers]
    BY <1>8, <1>14
  <1>16. ASSUME NEW n \in 1 .. m
         PROVE  upTo[n] = Executed(upTo[n - 1], PlanOne(upTo[n - 1], EmptyPlan, cands[n]))
    <2>1. upTo[n - 1] \in Ledgers
      BY <1>1, <1>14
    <2> QED BY <1>1, <1>2, <1>10, <2>1
  <1> QED BY <1>9, <1>10, <1>15, <1>16

-----------------------------------------------------------------------------

\* One more candidate, planned with the batch or after it, leaves one ledger.
LEMMA OneMore ==
    ASSUME NEW rs \in [Triples -> TripleRows], NEW p \in WritePlans, NEW c \in Candidate,
           Held(rs, PlanOne(rs, p, c))
    PROVE  LET acc == Executed(rs, p)
           IN  Executed(rs, PlanOne(rs, p, c)) = Executed(acc, PlanOne(acc, EmptyPlan, c))
  <1> DEFINE acc == Executed(rs, p)
             q == PlanOne(rs, p, c)
             alone == PlanOne(acc, EmptyPlan, c)
             id == Id(c)
  <1>1. /\ c.triple \in Triples /\ c.source \in Sources /\ c.row # NoRow
        /\ id = <<c.triple, c.source>>
    BY CandidateFacts DEF Id
  <1>2. /\ \A i \in DOMAIN p.updates : p.updates[i] # NoRow
        /\ \A i \in DOMAIN p.creates : p.creates[i] # NoRow
    BY SentinelAssumption DEF WritePlans, PlannedWrites, Partial
  <1>3. Held(rs, p)
    <2>1. DOMAIN p.updates \subseteq DOMAIN PlanOne(rs, p, c).updates
      BY PlanOneType
    <2> QED BY <2>1 DEF Held
  <1>4. /\ EmptyPlan.creates = <<>> /\ EmptyPlan.updates = <<>>
        /\ DOMAIN EmptyPlan.creates = {} /\ DOMAIN EmptyPlan.updates = {}
    BY DEF EmptyPlan
  <1>5. Seen(acc, EmptyPlan, c) <=> acc[c.triple][c.source] # NoRow
    BY <1>4 DEF Seen
  <1>6. Seen(rs, p, c) <=> acc[c.triple][c.source] # NoRow
    BY <1>1, <1>2, <1>3 DEF Seen, Executed, Held
  <1> HIDE DEF acc
  <1>7. CASE ~Seen(rs, p, c)
    <2>1. q = PlanCreate(p, c) /\ alone = PlanCreate(EmptyPlan, c)
      BY <1>5, <1>6, <1>7 DEF PlanOne
    <2>2. q.creates = With(p.creates, id, c.row) /\ q.updates = p.updates
      BY <2>1 DEF PlanCreate, WritePlans
    <2>3. alone.creates = With(<<>>, id, c.row) /\ DOMAIN alone.updates = {}
      BY <1>4, <2>1, EmptyPlanType DEF PlanCreate, WritePlans
    <2>4. DOMAIN alone.creates = {id} /\ alone.creates[id] = c.row
      BY <2>3 DEF With
    <2>5. /\ DOMAIN q.creates = DOMAIN p.creates \cup {id}
          /\ q.creates[id] = c.row
          /\ \A i \in DOMAIN p.creates : i # id => q.creates[i] = p.creates[i]
      BY <2>2 DEF With
    <2>6. /\ rs[c.triple][c.source] = NoRow /\ acc[c.triple][c.source] = NoRow
          /\ id \notin DOMAIN p.updates
      BY <1>6, <1>7 DEF Seen
    <2> HIDE DEF q, alone, id
    <2>7. ASSUME NEW t \in Triples, NEW s \in Sources
          PROVE  Executed(rs, q)[t][s] = Executed(acc, alone)[t][s]
      <3>1. CASE t = c.triple /\ s = c.source
        BY <1>1, <2>2, <2>3, <2>4, <2>5, <2>6, <3>1 DEF Executed
      <3>2. CASE ~(t = c.triple /\ s = c.source)
        <4>1. <<t, s>> # id
          BY <1>1, <3>2
        <4>2. Executed(acc, alone)[t][s] = acc[t][s]
          BY <2>3, <2>4, <4>1 DEF Executed
        <4>3. Executed(rs, q)[t][s] = acc[t][s]
          BY <2>2, <2>5, <4>1 DEF Executed, acc
        <4> QED BY <4>2, <4>3
      <3> QED BY <3>1, <3>2
    <2> QED BY <2>7 DEF Executed, q, alone, acc
  <1>8. CASE Seen(rs, p, c) /\ mode = "refresh"
    <2>1. q = PlanRefresh(p, c) /\ alone = PlanRefresh(EmptyPlan, c)
      BY <1>5, <1>6, <1>8 DEF PlanOne
    <2>2. /\ q.creates = Restrict(p.creates, DOMAIN p.creates \ {id})
          /\ q.updates = With(p.updates, id, c.row)
      BY <2>1 DEF PlanRefresh, WritePlans
    <2>3. /\ alone.creates = Restrict(<<>>, {} \ {id})
          /\ alone.updates = With(<<>>, id, c.row)
      BY <1>4, <2>1, EmptyPlanType DEF PlanRefresh, WritePlans
    <2>4. /\ DOMAIN alone.creates = {}
          /\ DOMAIN alone.updates = {id} /\ alone.updates[id] = c.row
      BY <2>3 DEF With, Restrict
    <2>5. /\ DOMAIN q.creates = DOMAIN p.creates \ {id}
          /\ \A i \in DOMAIN q.creates : q.creates[i] = p.creates[i]
          /\ DOMAIN q.updates = DOMAIN p.updates \cup {id}
          /\ q.updates[id] = c.row
          /\ \A i \in DOMAIN p.updates : i # id => q.updates[i] = p.updates[i]
      BY <2>2 DEF With, Restrict
    <2>6. rs[c.triple][c.source] # NoRow /\ acc[c.triple][c.source] # NoRow
      BY <1>1, <1>6, <1>8, <2>5 DEF Held
    <2> HIDE DEF q, alone, id
    <2>7. ASSUME NEW t \in Triples, NEW s \in Sources
          PROVE  Executed(rs, q)[t][s] = Executed(acc, alone)[t][s]
      <3>1. CASE t = c.triple /\ s = c.source
        BY <1>1, <2>4, <2>5, <2>6, <3>1 DEF Executed
      <3>2. CASE ~(t = c.triple /\ s = c.source)
        <4>1. <<t, s>> # id
          BY <1>1, <3>2
        <4>2. Executed(acc, alone)[t][s] = acc[t][s]
          BY <2>4, <4>1 DEF Executed
        <4>3. Executed(rs, q)[t][s] = acc[t][s]
          BY <2>5, <4>1 DEF Executed, acc
        <4> QED BY <4>2, <4>3
      <3> QED BY <3>1, <3>2
    <2> QED BY <2>7 DEF Executed, q, alone, acc
  <1>9. CASE Seen(rs, p, c) /\ mode # "refresh"
    <2>1. q = PlanSkip(p, c) /\ alone = PlanSkip(EmptyPlan, c)
      BY <1>5, <1>6, <1>9 DEF PlanOne
    <2>2. q.creates = p.creates /\ q.updates = p.updates
      BY <2>1 DEF PlanSkip, WritePlans
    <2>3. DOMAIN alone.creates = {} /\ DOMAIN alone.updates = {}
      BY <1>4, <2>1, EmptyPlanType DEF PlanSkip, WritePlans
    <2> HIDE DEF q, alone
    <2>4. Executed(rs, q) = acc
      BY <2>2 DEF Executed, acc
    <2>5. acc \in [Triples -> TripleRows]
      BY ExecutedType DEF acc
    <2>6. Executed(acc, alone) = acc
      BY <2>3, <2>5 DEF Executed, TripleRows
    <2> QED BY <2>4, <2>6 DEF q, alone, acc
  <1> QED BY <1>7, <1>8, <1>9

\* A plan whose refreshed rows are all in the ledger writes what planning its
\* claims one by one writes, of every batch and in either repeat mode.
THEOREM BatchesAreSequential ==
    ASSUME PlanInput PROVE BatchIsSequential
  <1> DEFINE m == Len(batch)
  <1>1. existing \in [Triples -> TripleRows] /\ batch \in Seq(Candidate)
    BY DEF PlanInput
  <1>2. m \in Nat /\ \A n \in 1 .. m : batch[n] \in Candidate
    BY <1>1
  <1>3. PICK f \in [0 .. m -> WritePlans] :
           /\ f[0] = EmptyPlan
           /\ \A n \in 1 .. m : f[n] = PlanOne(existing, f[n - 1], batch[n])
           /\ PlanWrites(existing, batch) = f[m]
    BY <1>1, PlanRuns
  <1>4. PICK g \in [0 .. m -> [Triples -> TripleRows]] :
           /\ g[0] = existing
           /\ \A n \in 1 .. m :
                 g[n] = Executed(g[n - 1], PlanOne(g[n - 1], EmptyPlan, batch[n]))
           /\ OneByOne(existing, batch) = g[m]
    BY <1>1, OneByOneRuns
  <1> HIDE DEF m
  <1> DEFINE T == {n \in Nat : n <= m => (Held(existing, f[n]) => Executed(existing, f[n]) = g[n])}
  <1>5. 0 \in T
    <2>1. DOMAIN EmptyPlan.creates = {} /\ DOMAIN EmptyPlan.updates = {}
      BY DEF EmptyPlan
    <2>2. Executed(existing, EmptyPlan) = existing
      BY <1>1, <2>1 DEF Executed, TripleRows
    <2> QED BY <1>3, <1>4, <2>2
  <1>6. ASSUME NEW n \in T PROVE n + 1 \in T
    <2>1. SUFFICES ASSUME n + 1 <= m, Held(existing, f[n + 1])
                   PROVE  Executed(existing, f[n + 1]) = g[n + 1]
      BY <1>6
    <2>2. /\ n + 1 \in 1 .. m /\ n \in 0 .. m /\ (n + 1) - 1 = n
          /\ Held(existing, f[n]) => Executed(existing, f[n]) = g[n]
      BY <1>2, <1>6, <2>1
    <2>3. /\ f[n] \in WritePlans /\ batch[n + 1] \in Candidate
          /\ f[n + 1] = PlanOne(existing, f[n], batch[n + 1])
          /\ g[n + 1] = Executed(g[n], PlanOne(g[n], EmptyPlan, batch[n + 1]))
      BY <1>2, <1>3, <1>4, <2>2
    <2>4. Held(existing, f[n])
      <3>1. DOMAIN f[n].updates \subseteq DOMAIN f[n + 1].updates
        BY <1>1, <2>3, PlanOneType
      <3> QED BY <2>1, <3>1 DEF Held
    <2> QED BY <1>1, <2>1, <2>2, <2>3, <2>4, OneMore
  <1>7. T = Nat
    <2> HIDE DEF T
    <2>1. T \in SUBSET Nat
      BY DEF T
    <2> QED BY <1>5, <1>6, <2>1, Induct
  <1>8. Held(existing, f[m]) => Executed(existing, f[m]) = g[m]
    BY <1>2, <1>7
  <1>9. ~PendingRefresh => Held(existing, f[m])
    BY <1>3 DEF PendingRefresh, ThePlan, Held
  <1> QED BY <1>3, <1>4, <1>8, <1>9 DEF BatchIsSequential, ThePlan, m

\* The arrows a plan recomputes are those of its batch's triples, from the rows
\* that are there once it is executed, of every batch and in either mode.
THEOREM ArrowsFollowTheirRows ==
    ASSUME PlanInput PROVE ArrowsMatchExecution
  <1> DEFINE m == Len(batch)
  <1>1. existing \in [Triples -> TripleRows] /\ batch \in Seq(Candidate)
    BY DEF PlanInput
  <1>2. m \in Nat /\ DOMAIN batch = 1 .. m /\ \A n \in 1 .. m : batch[n] \in Candidate
    BY <1>1
  <1>3. PICK f \in [0 .. m -> WritePlans] :
           /\ f[0] = EmptyPlan
           /\ \A n \in 1 .. m : f[n] = PlanOne(existing, f[n - 1], batch[n])
           /\ PlanWrites(existing, batch) = f[m]
    BY <1>1, PlanRuns
  <1> HIDE DEF m
  <1> DEFINE Named(n) == {batch[i].triple : i \in 1 .. n}
             T == {n \in Nat : n <= m => DOMAIN f[n].scope = Named(n)}
  <1>4. 0 \in T
    BY <1>3 DEF EmptyPlan
  <1>5. ASSUME NEW n \in T PROVE n + 1 \in T
    <2>1. SUFFICES ASSUME n + 1 <= m PROVE DOMAIN f[n + 1].scope = Named(n + 1)
      BY <1>5
    <2>2. /\ n + 1 \in 1 .. m /\ n \in 0 .. m /\ (n + 1) - 1 = n
          /\ DOMAIN f[n].scope = Named(n)
      BY <1>2, <1>5, <2>1
    <2>3. /\ f[n] \in WritePlans /\ batch[n + 1] \in Candidate
          /\ f[n + 1] = PlanOne(existing, f[n], batch[n + 1])
      BY <1>2, <1>3, <2>2
    <2> HIDE DEF Named
    <2>4. DOMAIN f[n + 1].scope = DOMAIN f[n].scope \cup {batch[n + 1].triple}
      BY <1>1, <2>3, PlanOneType
    <2>5. 1 .. n + 1 = (1 .. n) \cup {n + 1}
      BY <2>2
    <2> QED BY <2>2, <2>4, <2>5 DEF Named
  <1>6. T = Nat
    <2> HIDE DEF T
    <2>1. T \in SUBSET Nat
      BY DEF T
    <2> QED BY <1>4, <1>5, <2>1, Induct
  <1>7. DOMAIN ThePlan.scope = Touched
    BY <1>2, <1>3, <1>6 DEF ThePlan, Touched, m
  <1>8. ASSUME ~PendingRefresh, NEW t \in Touched
        PROVE  PlannedRows(existing, ThePlan, t) = Executed(existing, ThePlan)[t]
    <2>1. t \in Triples
      BY <1>2, CandidateFacts DEF Touched
    <2>2. \A s \in Sources : <<t, s>> \in DOMAIN ThePlan.updates => existing[t][s] # NoRow
      BY <1>8 DEF PendingRefresh
    <2> QED BY <1>1, <2>1, <2>2 DEF PlannedRows, Executed
  <1> QED BY <1>7, <1>8 DEF ArrowsMatchExecution, ArrowConf
==============================================================================
