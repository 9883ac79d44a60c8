# principle-graph in TLA+

Specifications of `principle-graph`, a Python command line (`pg`) that reads a
document, lets a language model propose claims from it, and keeps the approved
ones in Neo4j as a two-layer graph: an append-only *ledger* of extractions and
*arrows* derived from it. The modules model the parts that keep stored state,
TLC checks them on small instances, and TLAPS proves the main results for every
value of the constants. `PROJECT.json` maps each definition to the lines of
code it stands for; source names below are under `src/src/principle_graph/`
unless they say otherwise.

## 1. The system

| Part | State it keeps | Operations | Interacts with |
|---|---|---|---|
| Extraction ledger (`ledger.py`, `neo4j.py`) | `:ExtractionEvent` rows by (triple, source_ref); arrows with one confidence and one scope; entities | `upsert_entity`, `upsert_extraction`, `commit_delta`, `pg reset` | called by an approved review; canonicalizes through the registry |
| Confidence policy (`ledger.py`, `reduction.py`) | none | `complement_aggregate`, `aggregate_confidence` | the delta uses one form, the ledger the other |
| Delta and Mode-2 review (`reduction.py`, `review.py`) | the delta at the prompt; the rejected log | assemble, edit, approve, reject | reads the graph before the prompt, writes after it |
| Ingest orchestration (`orchestrator.py`, `extraction.py`) | one scratch run: candidates, states, flags | `run()`: extract, dispatch, gate, resolve, review, commit | everything below |
| Mis-shape dispatch (`dispatch.py`) | none; writes the rejected log | classify, one decision per mis-shape, executors | before the gate |
| Novelty gate (`novelty.py`, `state.py`) | none | one verdict per distinct claim | between dispatch and resolution |
| Entity resolution (`resolution.py`) | session registry; aliases in the graph | `resolve`, queue defaults | writes aliases before the review |
| State ledger (`state.py`, `neo4j.py`) | `:StateEvent` rows; a current-state map on each entity | `upsert_state_event` | after the triples of an approved run |
| Label registry (`label_registry.py`, `scan.py`, `cli.py`) | a packaged and a working YAML file | load, canonicalize, stage, promote | read by every write, extended by every scan |
| Normalization (`normalization.py`, `neo4j.py`) | rewrites rows and arrows | `pg normalize-relations` | after registry edits |
| Migration (`neo4j.py`) | turns legacy arrow properties into rows | `pg migrate-ledger` | graphs older than the ledger |
| Two-pass scan (`scan.py`) | stages verbs | discovery, consolidation | before extraction |
| Source provenance (`neo4j.py`) | `:Source` nodes, `FROM_SOURCE` links of rows | link in the row statement, `pg backfill-sources`, walk by source | rows of migrations have no link until the backfill |
| Fact check (`factcheck.py`, `neo4j.py`) | `:Verdict` receipts, `CHECKS` links to rows | select rows, judge, `save_verdicts` | normalization deletes the rows under them |
| Fan-out query (`fanout.py`) | none | `match_seeds`, `query_directions` | reads the arrows |
| Evidence vectors, search, gateways, configuration, demo | vectors | backfill; read-only or I/O | not modelled (section 5) |

**What is hard here.** Nothing runs in threads; the difficulty is in the
database and over time.

- *Every `session.run` is a transaction of its own.* Recording one claim is
  load, write row, set arrow; recording one state is load, write row, replace
  map; a normalization or a migration is as many statements as it touches
  things. A process may die, and another `pg` may run, between any two.
- *Plans are made from snapshots* and executed later: `plan_ledger_writes`,
  `plan_normalization`, `plan_state_writes`, and the delta a person looks at.
- *Everything is repeated.* Documents are re-ingested, passes repeated after
  crashes and registry edits; keep-first and "a second run is a no-op" are what
  the documents promise.
- *Two computations must agree*: the merged edges that are shown and the
  candidates that are written; the extracted and the canonical verb; the order
  of resolution and the graph it is resolved against.
- *Remote services fail*, some of them after the run has left traces.

**What makes each part correct.** Ledger: an arrow is the aggregate of its rows;
a recorded row is never overwritten; an approved claim is recorded; re-ingest
moves nothing; what a crash leaves behind heals. Review: what was shown is what
lands; what was turned away is in the log. Pipeline: the graph waits for
approval, nothing is silently lost, a run ends. Resolution: one name, one
entity, no merge of an ambiguous one, no trace of a discarded run. States: the
map is the latest statement of its rows. Registry: it always loads, and what a
spelling means is final and stable. Normalization and migration: no claim lost,
none invented, none moved twice. Sources: every row that can be linked is, and a
node is as old as its first row. Fact check: receipts come whole runs at a time,
stay with the row they check, and change nothing else. Query: the best
directions, whatever the order of the arrows.

## 2. The modules

| Module | Models | Built on |
|---|---|---|
| `LedgerStore` | rows, arrows, aggregate, the arrow `SET` | - |
| `Ledger` | **abstract**: what ADR-0002 promises; `Record`, `Derive`, `Clear` | `LedgerStore` |
| `LedgerWriter` | `commit_delta` / `upsert_extraction` statement by statement, several processes, crashes, reset; `ImplementsLedger` instantiates `Ledger` | `LedgerStore` |
| `LedgerPlan` | the pure planner over batches, both repeat modes | `LedgerStore` |
| `Aggregation` | complement aggregation in exact integers; justifies the log domain of `LedgerStore` | - |
| `Fanout` | seeds, candidate directions, ranking: the loops of the code against the definition of a best answer | `Subsequences` |
| `Policies` | the three pure functions above, each over all its small inputs | `LedgerPlan`, `Aggregation`, `Fanout` |
| `Review` | `assemble_delta`, the prompt, the rejected log, commit; several processes | `LedgerStore`, `Subsequences` |
| `IngestPipeline` | `run()` from the first model call to the last state | `Subsequences` |
| `Resolution` | the resolver over one document after another | - |
| `StateLedger` | `upsert_state_event` statement by statement | - |
| `LabelRegistry` | validation and `canonicalize` as functions of a file | - |
| `RegistryLifecycle` | the two files over scans, hand edits, promotions, releases | `LabelRegistry`, `Subsequences` |
| `Normalization` | plan and statements of a pass, between registry edits, migrated rows and ingests | `LedgerStore` |
| `FactCheck` | `pg fact-check` beside passes, edits and ingests: composed with every step of `Normalization` | `Normalization` |
| `Migration` | plan and statements of the migration | `LedgerStore` |
| `Backfills` | `pg backfill-sources` beside the migration and ingests: composed with every step of `Migration` | `Migration`, `Subsequences` |
| `Subsequences` | a list comprehension with a condition, used for every filter of a list | - |
| `LedgerWriterProofs` | theorems about the writer and the abstract ledger | `LedgerWriter` |
| `NormalizationProofs` | theorems about normalization, its arrows and fact checks | `FactCheck` |
| `MigrationProofs` | theorems about the two backfills, and the planner | `Backfills`, `LedgerPlan` |
| `StateLedgerProofs` | theorems about state maps | `StateLedger` |
| `RegistryProofs` | theorems about registry files and their life | `RegistryLifecycle` |
| `IngestPipelineProofs` | theorems about a run, and the resolver it uses | `IngestPipeline`, `Resolution` |
| `ReviewProofs` | theorems about reviews, and two pure functions around them: the arithmetic of confidences, and the query | `Review`, `Aggregation`, `Fanout` |
| `DataLemmas` | what these proofs need of numbers, sets, sequences and loops | `Subsequences` |
| `MC*` | instances for TLC | their modules |

A module that uses another's operation takes it as one step where the inner
steps are the other module's subject: a commit is one step in `Review` and
`IngestPipeline`, because `LedgerWriter` has its steps; a registry is a
function on triples in `LedgerWriter`, `Review` and `Normalization`, because
`RegistryProofs` shows that it is idempotent, which is the assumption they make
of it (`Canonical`, `Canon`, `Canons`).

**State.** `rows[t][s]` is the `:ExtractionEvent` of triple `t` and source
reference `s` (or `NoRow`), `arrows[t]` the relationship (or `NoArrow`). In
`LedgerWriter`, `phase[w]`, `batch[w]`, `at[w]` and the like are the local
variables of a `pg` process between two statements. History variables, which
only properties read, say what a property depends on: `torn`, `newest`, `lost`
and `wiped` in `LedgerWriter` (arrows behind their rows; a triple's last scope;
triples whose last scope died with its process; processes under which another
has reset the ledger); `torn`, `overtaken` and `raced` in `StateLedger` (a row
not yet followed by its map; a process whose load is out of date; a map set by
one); `alone` in `Review` (no other commit since the delta was shown); `said`,
`clean` and `met` in `Normalization` (the claims made; a completed pass; an
ingest during a pass); `was` in `Migration` (what each legacy arrow must
become); `seededLate` in `Backfills` (nodes that an ingest created); `failed` in
`FactCheck` (runs that raised). `log` in `Backfills` is the order of
`created_at`, and `firstSeen` a place in it. `verdicts` in `FactCheck` are the
`:Verdict` nodes, `on` the row their `CHECKS` link reaches. In `IngestPipeline`
`kept`, `states` and `flagged` are memory of the run, `rows`, `events` and `log`
outlive it. In `RegistryLifecycle` a file is a record of its labels, staged
labels, aliases, inverses, whether it has a `proposed:` section and what landed
outside the sections.

**Actions.** `LedgerWriter`: `Begin` (an approved delta), `UpsertEntity`,
`EntitiesDone`, `LoadRows` (the load, and `PlanWrite`), `WriteRow`,
`WriteArrow`, `Crash`, `Reset`. `Normalization`: `Begin` (load and plan), one
action per kind of statement, `RefuseRow` where `_write_row` raises, `Crash`,
`EditRegistry`, `IngestRow`, `MigrateRow`. `Migration` and `StateLedger`
likewise. `FactCheck`: `Fetch`, `Judge`, `Raise`, `SaveVerdict` (one `CREATE`
each), `End` (or death), and `LedgerStep`, any step of `Normalization` with the
links a deleted row takes along. `Backfills`: `Load`, `MergeSource`, `Link`,
`Refuse`, `Finish`, `Die`, and the steps of `Migration` with the links they make
or do not make. `Policies`: a state is one input, a step makes it one item
longer. `Review`: extraction and delta, edit, approve with commit, reject.
`IngestPipeline`: `ExtractChunk`, `Bypass`, the executors (`RouteToState`,
`Rewrite`, `Split`, `Flag`, `Drop`, `EmptyMembers`), `GateTriples`,
`GateStates`, `Approve`, `Reject`, `CommitRow`, `CommitState`, `Outage` (a
service out, or the process killed).

**Abstractions, all of them deliberate.**

- A confidence `1 - 2^-w` is its weight `w`, so that the complement aggregate is
  a sum; 1.0 is `Certain`, which absorbs. `Aggregation` checks this reading
  (`LogDomainAgrees`) against the product of the code. Floating-point rounding
  is not modelled, so "confidence unchanged" means mathematically unchanged.
- One statement is atomic (Neo4j auto-commit). A row statement's `FROM_SOURCE`
  link belongs to it: `Backfills` models it, the other modules leave it out. Its
  embedding is left out.
- `Backfills` lets a pass remember from its load which rows are linked and which
  nodes exist, as the code does; reading them live is the same, because only
  ingests link rows besides, and only those they create.
- A judged row is any row: a run judges all of its rows in one step, or raises at
  some row. The search and the model touch nothing shared.
- In `Fanout` ids and names are numbers, so that they sort; scores are given; the
  graph lists its arrows in any order, and a pair of names may have an arrow
  twice because entities of two types may share a name.
- Entity names are unique. The row statements match endpoints by name alone;
  two entities of one name and two types are listed under "hazards".
- Evidence, wording, units, timestamps and statistics are left out, except
  where a source reference stands for the evidence.
- `as_of` texts are ranks in string order, with `DateOf` giving the date meant.
- In `Resolution` there is one entity type, the embedder answers, and what
  string similarity and cosine similarity return is given by constants
  (`Fuzzy`, `Tokens`, `Likeness`).
- In `Migration` the comparison of an arrow's confidence with the aggregate
  never finds a difference in the states reached: one row is made per arrow, and
  its confidence is the arrow's. The branch that sets the arrow is modelled.
- What a repair may say is bounded by `Repairs`, and what one run may extract by
  `MaxCalls`.
- The classifier of mis-shapes is a constant `ClassOf`; the decision model and
  the novelty gate may answer anything.

## 3. The runs

A bound is a constant whose name begins with `Max` and appears in a guard. The
data are chosen so that what is interesting happens: an alias spelling and its
canonical triple, two triples that share an endpoint, a claim repeated within a
delta with another confidence, a second source, a re-extraction that drifts, a
certain claim.

| Run | Shows | Bounds |
|---|---|---|
| `LedgerWriter_single` | one process, both repeat modes: arrows derived from rows except the one a crash tore, scopes those of the newest row with one also after deaths and repeats, except where that scope died with its process, no wobble, refinement of `Ledger` | 2 crashes, 1 reset; a second crash is needed to tear during a repair |
| `LedgerWriter_two` | two processes, one of which may die, or reset the ledger under the other: commits recorded but for the one reset, keep-first, all arrows finally right | 1 crash or 1 reset (`MaxUpsets`), fairness |
| `Policies` | whole-batch planning equals claim by claim, and arrows are computed from the rows that will be there; incremental equals batch aggregation and the log domain; a query's answer is the best | every ledger over 2 triples x 2 sources and every batch of up to 2: a pair covers repeat, refresh and mixed triples; confidences in quarters, out of range too, up to 5; every graph of up to 3 arrows over 3 entities, 2 arrows inspected per seed, 2 answers: both cuts bite |
| `FactCheck` | registry edits, a pass that dies or is refused a row, another process's ingests and fact-check runs at every statement: no claim lost, invented or misplaced, arrows derived, a completed pass leaves no work, and no row in canonical form is touched, also one recorded after the pass loaded; receipts whole and kept | 2 rows, one of which may be a migrated one without a source id, 1 edit after any of three registries, 1 death, 2 runs: a verdict whose row moves, and one written after it moved |
| `Backfills` | no provenance lost and no arrow moved, the migration completes; `first_seen` earliest, every row linked that can be | 2 legacy arrows, siblings of one pair, of refs with, without and with an empty source; each pass dies once; 1 ingest |
| `RegistryLifecycle` | the file loads, meanings are final and stable | 3 scans, 3 hand edits, 1 release, 5 names of which one may not be a label |
| `Review` | two prompts open at once: what is shown lands, what is rejected is logged, what is approved is recorded | 2 candidates, 1 edit, 2 ingests; one triple is another with an alias of its verb |
| `StateLedger` | two processes, one may die: maps derived, entries only replaced by later or tied ones, maps finally right | 1 crash, an alias key and two sibling keys, two states that tie, fairness |
| `Resolution` | aliases land, decisions stick | 3 names, 3 ingests: create, merge, meet again |
| `IngestPipeline` | nothing lost, also by the repeat of a run that died; the graph waits; what is filtered stays out; a run ends; every executor | 4 claims, 2 facts, 2 chunks, 2 runs, of one and two proposals; fairness |
| `Resolution_discard` | refutes `DiscardLeavesGraph` | 2 names, 2 ingests |
| `Normalization_refused` | refutes `RefusedBeforeAnyWrite` | as `FactCheck`, no pass killed |

Each module's `TypeOK` holds on the same instances; it says little by itself and
is there for the reader and for the proofs (`IInv` contains it), so no
run spends its time on it.

`CHECK_DEADLOCK FALSE` stands only in runs whose subject stops by itself: a
bounded number of ingests (`Review`, `Resolution`, `IngestPipeline`), a file
whose edits are used up (`RegistryLifecycle`), an input that is only grown
(`Policies`). Where commands may be repeated for ever (`LedgerWriter`,
`StateLedger`, `FactCheck`, `Backfills`) deadlock is checked. `SYMMETRY` is
used in `Review` only, on sources and processes, which no constant tells apart,
with invariants only.

**Fairness.** `LedgerWriter` and `StateLedger`: a commit that does not die goes
on (weak, per process), and the operator re-runs each document, in whichever
process, until it is in (strong: README "Repeat-extraction"; two busy processes
must not keep it out for ever). `Backfills`: either command is run again until it is done (weak,
on each of the two; a death or a refusal ends a run, and the next begins).
`IngestPipeline`: a run is one sequential program whose model calls time out and
whose reviewer answers (weak, on its steps as a whole; nothing is said of
whether another run starts). Safety properties assume no fairness.

**Mutants.** For every property of a passing run `PROJECT.json` names a change
of the model, in the form of a plausible bug (a dropped filter on the triple, an
arrow computed before the row, a re-dispatched repair, a commit before the
prompt ...), under which TLC finds it violated.

### Where the code departs from its documents

`Resolution_discard` is run as a refutation: README.md:133 says that a rejection
commits nothing, and `resolve()` has by then written the aliases of merged
surface forms to the graph, where the next ingest resolves by them.
`Normalization_refused` is the other: `_write_row` says of a row without a
source id that it "is rejected here, before any write fires" (neo4j.py:331),
but `normalize_relations` has by then deleted the row it was to replace
(neo4j.py:721). Migration makes such rows of legacy arrows, and the pass that
meets one fails with its claim gone.

The other departures met while reading and modelling are built into the models
as the code has them, and no property denies or hides them; where a property
would be wrong because of one, its statement names the exception.

*Ledger.* Two processes that load one triple's rows before either writes leave
an arrow without the other's row (neo4j.py:373; `ArrowsDerived` is therefore a
property of one process, `Converges` of several), and likewise a state map
without the other's row (neo4j.py:998; `raced`). The repeat after a crash heals
the arrow's confidence and never its scope (ledger.py:170; `ScopeFollowsRows`
excepts those triples, `lost`, until their next row with a scope). In refresh
mode a claim repeated in the batch that creates it is stored nowhere
(ledger.py:157; `PendingRefresh`; latent, as the writer plans one claim at a
time).

*Normalization and migration.* A pass killed between its deletes and its creates
loses the claims (neo4j.py:721), and one killed before its arrows leaves them
stale for good, because the next pass plans from rows alone (neo4j.py:731);
`ClaimsKept` and `PassesDeriveArrows` speak of passes that are not killed. A rewrite
that leaves the arrow's confidence as it was drops the scope it carries
(neo4j.py:744). A document ingested before the migration makes its triple look
migrated, and the legacy provenance is stripped (neo4j.py:416, 450; exempt by
`was`).

*Sources and verdicts.* The source backfill raises at the first row whose ref
has no source id, every time it is run, so no younger row is ever linked
(neo4j.py:615; excepted in `SourcesLinked`). An ingest that creates a `:Source`
node gives it the present as `first_seen`, older migrated rows of the source
notwithstanding (neo4j.py:318; excepted by `seededLate`). A row that moves loses
its verdicts (neo4j.py:678; the second disjunct of `VerdictsStay`).
`verdicts_for_source` walks `FROM_SOURCE` from source to row, the other way from
every write (neo4j.py:789), so `pg fact-check --source` never prints the
verdicts it recorded. The evidence backfill reads `record["elementId"]` from a
query that returns `element_id` (neo4j.py:1109) and so fails at its first row.

*Registry.* `scan.py` stages verbs that the loader refuses, such as one that
begins with a digit, and in a file without a `proposed:` section puts its
entries beside `labels:` (scan.py:306-317): the two exceptions of
`RegistryLoads`. `pg promote-verbs --apply` appends at the end of the packaged
file, inside its last section (cli.py:838). Labels of a later release never
reach a working copy seeded before, although the docstring below says the
packaged baseline is always in force (label_registry.py:154, 156); the copy is
modelled as the code keeps it, and no property speaks of labels that do not
arrive. Of two labels that declare one inverse, promotion may change the one
that wins (label_registry.py:71).

*Review.* The delta is keyed by the extracted verb, so two spellings are shown
as two edges and land as one (reduction.py:61; excepted in
`NewEdgesLandAsShown`); a confidence change is shown for a source whose row
keep-first will skip (reduction.py:66); after an edit, the originals are missing
from the record of a rejection (review.py:103) and a repeat of the document is
no no-op (review.py:124).

*States.* Ties in `as_of` and confidence follow load order (neo4j.py:946), which
is no order at all: even a re-ingest may put a tied row in the place of a current
entry. The instance has a tie, and `MapOnlyAdvances` allows just this. `as_of` is
compared as text (state.py:84), which is right as long as the texts sort as
dates; those of the instance do, so the case in which they do not is not checked.

*Resolution.* A queued name is merged by name and type (orchestrator.py:595), the
session's look-alikes come before the graph's exact names (resolution.py:204),
and names in another spelling are not fetched to be normalized (neo4j.py:1153).

*Pipeline.* An empty list payload aborts the run (dispatch.py:396); a candidate
with an invalid payload is logged and not flagged (orchestrator.py:404); a run
aborted later leaves these records (orchestrator.py:407); the states of a
rejected run leave none (orchestrator.py:326).

## 4. The proofs

| Theorem | Says | Assumes |
|---|---|---|
| `TypeCorrect`, `KeepFirstHolds` (`LedgerWriterProofs`) | types; no recorded row is overwritten, for any number of processes | the module's assumptions on constants |
| `CommitsAreRecorded` | for any number of processes, over any deaths and resets: a commit that returns has recorded its claims, unless another process reset the ledger under it | the module's assumptions |
| `SingleIInv`, `ArrowsAreDerived`, `ArrowsDoNotWobble`, `OneTearPerCrashHolds`, `ScopeFollowsRowsHolds` | the safety of one process, over any crashes and resets | `SingleWriter`: one process writes at a time |
| `Refinement` | `LedgerWriter` implements `Ledger` under the identity mapping | `SingleWriter` |
| `ClaimsAreKept`, `SecondRunIsEmpty`, `NothingIsInvented`, `CanonicalIsUntouched` (`NormalizationProofs`) | no pass that does not die loses a claim; a completed pass leaves no work; rows stay honest, canonical ones untouched | idempotent registries |
| `ArrowsStayDerived` (`NormalizationProofs`) | while no pass has died or was overtaken, arrows are the aggregates of their rows | idempotent registries |
| `ClaimsSurviveChecks` (`NormalizationProofs`) | the same in `FactCheck`, whose runs write receipts between the statements of a pass | as above |
| `OnlyWholeRunsHolds`, `VerdictsStayHolds` (`NormalizationProofs`) | no verdict of a run that raised; verdicts stay but for the rows a pass moves | as above |
| `ProvenanceIsKept`, `NoArrowIsMoved`, `MigrationsSurviveBackfills` (`MigrationProofs`) | migration loses nothing and moves no arrow over any crashes, also with source backfills between its statements | the module's assumptions |
| `NodesAreDatedByTheOldest` (`MigrationProofs`) | a source node made by the backfill is as old as the source's first row, over any deaths and repeats | the module's assumptions |
| `BatchesAreSequential`, `ArrowsFollowTheirRows` (`MigrationProofs`) | for batches of any size: planned at once or one by one, one ledger; the arrows set are those of the rows left | `PlanInput`: a ledger and a list of candidates |
| `MapsAreDerived` (`StateLedgerProofs`) | a state map is what its rows say, sibling keys included, but for a torn or raced entity; any number of processes | `TextsSortAsDates`, `FiniteSources` |
| `MapsOnlyAdvance` (`StateLedgerProofs`) | but for an entity another process raced on, an entry gives way only to a row as late and as sure, and in a current map only to one it ties with | as above; ties are allowed |
| `CanonicalizeIdempotent` (`RegistryProofs`) | what validation admits canonicalizes in one pass; the ground of that assumption | a valid file |
| `RegistryStaysLoadable`, `MeaningsStayFinal`, `ScansKeepMeanings` (`RegistryProofs`) | over any scans, edits, promotions and releases the registry in force loads (but for two known ways), is idempotent, and scans change no meaning | the shipped files load, have their sections and keep their entries in them |
| `NothingBeforeApproval`, `RefusedStaysOut` (`IngestPipelineProofs`) | no row and no state is written until the delta is approved (aliases are, section 3); what the gate refused is not written | the module's assumptions |
| `DispatchPrecedesGate`, `NothingSilentlyLost` (`IngestPipelineProofs`) | types and the order of the phases; every proposal is in the graph, a log, a flag or under way | the module's assumptions |
| `DecisionsStick`, `MergesLand` (`IngestPipelineProofs`) | a resolved name means one entity for its document; a committed run's merged forms are aliases in the graph | normal forms are stable, likeness is symmetric |
| `ApprovalLosesNothing`, `RejectionLosesNothing` (`ReviewProofs`) | any number of concurrent reviews: an approved triple is an arrow with its rows, a rejected one is in the log | an idempotent registry |
| `ShownIsWhatLands` (`ReviewProofs`) | a new edge lands at the confidence it was shown with | also `CertainAssumption`: only a row of confidence 1.0 makes an aggregate of 1.0 |
| `ConfidencesAgree` (`ReviewProofs`) | the product of the ledger, the steps of the delta and the sums of these models are one confidence | the module's assumptions |
| `AnswersStayBest` (`ReviewProofs`) | for graphs of any size, listed in any order: an answer is ranked, repeats no key and leaves out nothing better than what it has | finitely many entities and scores |

**Many processes.** A plan may be stale when it is acted on, so an arrow may be
wrong; a claim is not lost. `SharedInv` says why: under a process that nobody has
reset the ledger, rows and entities only grow, and `PlanLands` holds of its plan
in hand -- it creates its row, or the row is there already. A reset between the
entities and the claims of a delta does lose claims: their `MATCH` finds no
endpoint and raises nothing. Such a process is in `wiped` until it dies or begins
another delta, and `Sound` is said of the others only.

**One process.** `SingleWriter` is needed and not a convenience: two processes
lose updates, as said above. `ArrowsDerived` is
not inductive, because an arrow is computed from what was loaded. `IInv` adds
that the plan in hand is still the plan the ledger would give (`PlanFresh`),
that the claims before the current one are recorded (`ClaimsInOrder`), and that
the endpoints of every claim exist once entities are done (`EntitiesFirst`), as
otherwise a statement would match nothing and change nothing. `IInv` is also an
invariant of `LedgerWriter_single`. The refinement maps `WriteRow` to `Record`,
`WriteArrow` to `Derive`, a reset to `Clear` and all else to a stutter; it needs
`IInv` for the step that sets the arrow from planned rows. `OneTearPerCrash`
rests on `TearInv`: `Orphans`, the torn arrows but for the one the process is
about to set, are at most as many as the crashes; a row write tears only that
one, and a crash orphans at most one more (`OneOut`). The counting uses the
library's facts on finite sets. `ScopeFollowsRows` rests on `ScopeInv`: every
arrow outside `lost` has the newest scope (`Matches`), or its process is about to
put it there (`Carries`); an arrow that a death leaves torn without a scope to
carry has it already.

**Normalization.** `NInv` says that, as long as no pass was killed, the stored
rows that are not condemned and the rows still to be created are together the
claims, under the identities they have been brought to (`Balanced`); that what
is condemned is not canonical and what is to be created is (`PlanSplits`); that
a pass condemns every row the registry rewrites (`Complete`); and that rows,
planned ones included, keep the words of a claim of their source (`Worded`).
`PassesDeriveArrows` needs more: in `AInv`, with `Final(t)` the rows a triple
will have when the plan's deletes and creates are done, a triple to be dropped
will have none, a planned update is the aggregate of `Final(t)`, and every other
arrow already agrees with it (`OnCourse`).

**Fact checks.** Every step of `CheckSpec` is by construction a step of
`Normalization` or a stutter of it (lemma `ChecksStepTheLedger`), so what is
proved there holds here. `Numbered` (verdicts and receipts are of runs begun, and the
current run has not failed before it saves) carries `OnlyWholeRuns`; `Attached`
(a linked verdict's row is stored) with the fact that only deletes remove rows,
and those of a plan only `Rewritten` ones, carries `VerdictsStay`.

**Migration.** `MInv` adds to the types (`Shape`) that an arrow without a row says
what one row can say (`Plain`); that every arrow of `was` is untouched and
unrecorded, or recorded as the row it must become (`Accounted`); and that a
planned row says what its arrow says (`Planned`), so that comparing the two never
sets the arrow. Source backfills are stutters of `Migration`. `BInv` adds for
them that the log names every recorded row once (`LogShape`); that a pass holds
its rows in the order of the log, and whatever is older than one of them is
before it or has its node already (`InOrder`); and that no node is dated later
than the log is long (`Earliest`). That a filter keeps the order of a list is
`PickedMembers` of `DataLemmas`.

**The planner.** By induction over the batch: the ledger a plan of the first `n`
candidates leaves is the one `n` plans of one candidate leave, as long as every
row it refreshes is in the ledger (`Held`; refreshing a row of the same batch is
the excepted case, `PendingRefresh`). The step, `OneMore`, says that a candidate
planned behind a plan and a candidate planned after its execution meet the same
rows.

**States.** `Entries` and `EntriesWith`, the two ways the recomputation picks a
row, are first shown to return what `CurrentMap` asks of one key (`EntriesAgree`,
`EntriesWithAgree`): a latest row exists, because a key has finitely many
(`FiniteSources`), and being later is an order (`BeatsOrders`). `as_of` texts that
do not sort as their dates break exactly this (`TextsSortAsDates`). `SInv` then
says, beside `MapsDerived`, that a process nobody has overtaken holds the map of
the rows there will be once its own is created (`PlanFits`): a map is computed
two statements before it is set, and a row created between by another process
is what makes that process overtaken. `MapOnlyAdvances` needs, besides,
`Backed`: every entry of an entity nobody raced on is a stored row. Rows never
change, so a map set from all of them has for each key one that no other is later
than, the old entry's row included; and if the old entry was the best as well,
the two tie.

**The pipeline.** `WaitInv` adds to the property that a commit phase means an
approved verdict (`CommitIsApproved`) and that no phase up to the review still
holds the verdict of an earlier run (`ReviewIsOpen`). `PTypes` holds types and
where the loops stand; upon it `FilterInv` carries what the gate has refused
through its second half, the review and both commit loops, and `TraceInv` says
that every proposal has an item in some list of the run (`AllTraced`) and how far
a commit has got (`Progress`). One lemma per executor says which item stands for
the one it took away.

**The resolver.** `DecisionSticks` follows from `Memory`: entities created in a
document differ in normal form, and a remembered surface form is that of no name
an entity was created for. The graph's answers never get between, because both
layers of the session are asked first.

**The registry.** `RInv`: every file that was ever in force is `Sound` (it reads
back as it was written, its entries under their sections), and what a process has
loaded differs from the file by staged names only (`Extends`). A scan therefore
adds names nobody used, and `Canonicalize` of a known spelling does not meet
them.

**Reviews.** The commit loop is one step of `Review` and a recursive function in
it; `Says` gives the rows it leaves after `n` candidates. `RInv` says of every
session that its delta has each extracted triple as a new edge, a change or an
edit (`Faithful`), that an approved one is in the ledger (`Landed`) and a
rejected one in the log (`Logged`). `QInv` adds `Shows`: a new edge is quoted at
what its candidates will aggregate to. Merging candidates one by one then has to
be the sum over the rows, whatever order the sum takes them in: `SumAdds` of
`DataLemmas`.

**Confidences.** `IncrementalIsBatch` is one step of a product
(`ProductGrows`). For the weights, an induction over the rows multiplies
`(1 - c) * 2^w = 1` up (`WeightsAdd`); a certain row leaves a factor 0
(`CertainAbsorbs`).

**The query.** `Ranking` takes a first member out again and again; in a finite set
with a strict order there is one (`FirstExists`), ties or not, so what it returns
is ranked and complete (`RankingRanks`). `Stand` is the invariant of the two loops
over seeds and arrows: one candidate for each key offered so far, and none of the
offers better. Cutting the ranking off then leaves out only what ranks lower.

**Induction.** The library's induction theorems cannot be used, as they take an
operator; `DataLemmas` has induction over a set of numbers (`Induct`), from the
well-foundedness of the naturals, and arguments by a smallest counterexample over
the cardinality of a set. Loops of the code are recursive functions, whose values
`RunExists` provides, rather than folds.

**Only model-checked.** All liveness (`Converges`, `Migrated`, `SourcesLinked`,
`MapsConverge`, `RunEnds`), which needs fairness, and the two refutations. Every
other property of the runs, invariant or action property, is stated by a theorem.

## 5. What is not modelled, and what comes next

Not modelled because nothing in it can go wrong between two steps: prompts,
chunking, the parsing of model answers and of search pages, rendering, gateways,
configuration, the demo, read-only queries, the advisory list of claims to
check. Not modelled because it takes no step that changes anything: the evidence
backfill, which raises at the first row it embeds (section 3). External, and
modelled from how it is used where it is used: Neo4j, the models, the embedder.

Done, in this order: the ledger writer with its abstract ledger and its proofs
(the most important behaviour), planner and arithmetic, normalization with its
proofs, migration, the registry and its life, review, state ledger, resolution,
the pipeline; then fact checks, source backfills, the fan-out query, and the
proofs of every invariant and action property of the runs.

Next:

1. An abstract specification of the state ledger, with a refinement proof.
2. Entities of one name and two types in `LedgerWriter`; two processes with
   different registries, composed with `Normalization`.
3. Scan: anchoring and consolidation, as far as they stage verbs.

The runs are kept few, one for each component or composition; where two
components meet, the run of the composition stands for both.
