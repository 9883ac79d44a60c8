---------------------------- MODULE Normalization ----------------------------
(***************************************************************************)
(* pg normalize-relations: plan_normalization decides from one load of the *)
(* ledger which rows move to their canonical identity under the registry   *)
(* in force, and normalize_relations executes the plan statement by        *)
(* statement: every row delete, then every row create, then the emptied    *)
(* arrows, then the recomputed arrows.  Each is a transaction of its own.  *)
(*                                                                         *)
(* A registry is its canonicalization, a function on triples (alias to     *)
(* verb, inverse to flipped verb); module LabelRegistry proves it          *)
(* idempotent.  An ingested claim is one step here: its own statements are *)
(* LedgerWriter's subject.  A ledger may also hold rows that migrate_ledger *)
(* made of arrows older than the rule that a source_ref names its source:  *)
(* no other write accepts such a ref, this pass's own row create included. *)
(***************************************************************************)
EXTENDS LedgerStore

CONSTANTS
    Canons,       \* the registries an operator may edit to
    Unprefixed,   \* the source_refs source_id_of rejects
    MaxIngests, MaxEdits, MaxCrashes

\* A row with the triple its extractor spelled.
Spelled == [conf : Weights, scope : Scopes, raw : Triples]

ASSUME NormalizationAssumption ==
    /\ NoRow \notin Spelled
    /\ \A c \in Canons : c \in [Triples -> Triples]
    /\ \A c \in Canons : \A t \in Triples : c[c[t]] = c[t]
    /\ Unprefixed \subseteq Sources
    /\ MaxIngests \in Nat /\ MaxEdits \in Nat /\ MaxCrashes \in Nat

VARIABLES
    rows,        \* the row layer; raw stands for raw_relation, the verb of
                 \* the triple the extractor spelled
    arrows,      \* the arrow layer
    canon,       \* the registry in force
    running,     \* a pass is executing its plan
    plan,        \* what is left of the NormalizationPlan
    said,        \* history: the claims made, and where passes moved them
    clean,       \* history: a pass has completed under this registry
    met,         \* history: a claim was ingested while a pass was running
    ingests,     \* claims ingested and migrated
    edits,
    crashes      \* passes that died, killed or by their own refusal

storeVars == <<rows, arrows>>
vars == <<storeVars, canon, running, plan, said, clean, met,
          ingests, edits, crashes>>

Identities == Triples \X Sources

StoredRows == {id \in Identities : rows[id[1]][id[2]] # NoRow}
At(id) == rows[id[1]][id[2]]
Put(id, row) == [rows EXCEPT ![id[1]] = [@ EXCEPT ![id[2]] = row]]

Empty == [x \in {} |-> NoRow]
Without(f, x) == [y \in DOMAIN f \ {x} |-> f[y]]

NoPlan == [delete |-> {}, create |-> Empty, drop |-> {}, update |-> Empty]

TypeOK ==
    /\ rows \in [Triples -> [Sources -> Spelled \cup {NoRow}]]
    /\ \A t \in Triples : arrows[t] # NoArrow =>
          arrows[t].conf \in Nat /\ arrows[t].scope \in Scopes
    /\ canon \in Canons
    /\ plan.delete \subseteq Identities
    /\ DOMAIN plan.create \subseteq Identities
    /\ plan.drop \subseteq Triples
    /\ DOMAIN plan.update \subseteq Triples
    /\ ~running => plan = NoPlan
    /\ said \subseteq [raw : Triples, at : Triples, source : Sources]
    /\ met \in BOOLEAN

-----------------------------------------------------------------------------
(* plan_normalization *)

\* Rows whose identity the registry changes; the others are kept.
Rewritten == {id \in StoredRows : canon[id[1]] # id[1]}
Kept      == StoredRows \ Rewritten
Goal(id)  == <<canon[id[1]], id[2]>>

\* What is deleted: every rewritten identity, collapsed variants included.
Deletions_OnlyMoved == {id \in Rewritten : Goal(id) \notin Kept}
Deletions == Rewritten

\* An identity already held by a kept row has no candidate: the variant is
\* deleted without replacement.
Goals_ByTriple == {Goal(id) : id \in {i \in Rewritten :
                                        \A k \in Kept : k[1] # canon[i[1]]}}
Goals == {Goal(id) : id \in Rewritten} \ Kept

\* The first variant loaded claims a goal.  created_at order is not modelled,
\* so any variant may be first.
Winners == {f \in [Goals -> Rewritten] : \A g \in Goals : Goal(f[g]) = g}

\* The rows a triple ends with.
FinalRows(create, t) ==
    [s \in Sources |-> IF <<t, s>> \in DOMAIN create THEN create[<<t, s>>]
                       ELSE IF <<t, s>> \in Kept THEN At(<<t, s>>) ELSE NoRow]

\* Scopes an update may carry: of a created row that has one, else none.
PlanScopes(create, t) ==
    LET said_scopes == {create[g].scope : g \in {h \in DOMAIN create : h[1] = t}}
    IN  IF said_scopes \subseteq {NoScope} THEN {NoScope} ELSE said_scopes \ {NoScope}

\* The canonical row keeps the spelling the extractor used.
Moved_RawIsLast(id) == [At(id) EXCEPT !.raw = id[1]]
Moved(id) == At(id)

Created(win) == [g \in Goals |-> Moved(win[g])]

Targets == {g[1] : g \in Goals}

ScopeChoices(win) ==
    {f \in [Targets -> Scopes] : \A t \in Targets : f[t] \in PlanScopes(Created(win), t)}

PlanWith(win, scopes) ==
    [delete |-> Deletions,
     create |-> Created(win),
     drop   |-> {id[1] : id \in Rewritten},
     update |-> [t \in Targets |-> [conf  |-> Aggregate(FinalRows(Created(win), t)),
                                    scope |-> scopes[t]]]]

-----------------------------------------------------------------------------

Init ==
    /\ rows    = [t \in Triples |-> NoRows]
    /\ arrows  = [t \in Triples |-> NoArrow]
    /\ canon   \in Canons
    /\ running = FALSE
    /\ plan    = NoPlan
    /\ said    = {}
    /\ clean   = FALSE
    /\ met     = FALSE
    /\ ingests = 0 /\ edits = 0 /\ crashes = 0

\* upsert_extraction of a claim spelled t, keep-first, under the registry.
IngestRow(t, s, row) ==
    LET id  == <<canon[t], s>>
        new == At(id) = NoRow
        now == IF new THEN [rows[canon[t]] EXCEPT ![s] = row] ELSE rows[canon[t]]
    IN  /\ ingests < MaxIngests
        /\ s \notin Unprefixed
        /\ ingests' = ingests + 1
        /\ row.raw = t
        /\ rows' = [rows EXCEPT ![canon[t]] = now]
        /\ arrows' = [arrows EXCEPT ![canon[t]] =
               SetArrow(@, Aggregate(now), IF new THEN row.scope ELSE NoScope)]
        /\ said' = said \cup {[raw |-> t, at |-> canon[t], source |-> s]}
        /\ met' = (met \/ running)
        /\ UNCHANGED <<canon, running, plan, clean, edits, crashes>>

\* migrate_ledger makes the row of a legacy arrow, under the arrow's own relation
\* whatever the registry says.  Refs with a prefix behave as ingested ones here.
MigrateRow(t, s, row) ==
    /\ ingests < MaxIngests /\ ~running
    /\ s \in Unprefixed /\ Support(rows[t]) = {}
    /\ row.raw = t
    /\ ingests' = ingests + 1
    /\ rows' = Put(<<t, s>>, row)
    /\ arrows' = [arrows EXCEPT
           ![t] = SetArrow(@, Aggregate([rows[t] EXCEPT ![s] = row]), row.scope)]
    /\ said' = said \cup {[raw |-> t, at |-> t, source |-> s]}
    /\ clean' = FALSE
    /\ UNCHANGED <<canon, running, plan, met, edits, crashes>>

\* The operator edits the registry (labels or aliases) between passes.
EditRegistry(c) ==
    /\ ~running
    /\ edits < MaxEdits
    /\ c # canon
    /\ edits' = edits + 1
    /\ canon' = c
    /\ clean' = FALSE
    /\ UNCHANGED <<storeVars, running, plan, said, met, ingests, crashes>>

\* One load of the ledger, one plan.
Start(win, scopes) ==
    /\ ~running
    /\ running' = TRUE
    /\ plan' = PlanWith(win, scopes)
    /\ said' = {[r EXCEPT !.at = canon[@]] : r \in said}
    /\ clean' = FALSE
    /\ UNCHANGED <<storeVars, canon, met, ingests, edits, crashes>>

DeleteRow(id) ==
    /\ id \in plan.delete
    /\ rows' = Put(id, NoRow)
    /\ plan' = [plan EXCEPT !.delete = @ \ {id}]
    /\ UNCHANGED <<arrows, canon, running, said, clean, met, ingests, edits, crashes>>

\* The planned row is written whatever has been recorded since the plan.
CreateRow_Overwrites(g) ==
    /\ plan.delete = {} /\ g \in DOMAIN plan.create
    /\ g[2] \notin Unprefixed
    /\ rows' = Put(g, plan.create[g])
    /\ plan' = [plan EXCEPT !.create = Without(@, g)]
    /\ UNCHANGED <<arrows, canon, running, said, clean, met, ingests, edits, crashes>>

\* The row MERGE sets nothing on a match.
CreateRow(g) ==
    /\ plan.delete = {} /\ g \in DOMAIN plan.create
    /\ g[2] \notin Unprefixed
    /\ rows' = IF At(g) = NoRow THEN Put(g, plan.create[g]) ELSE rows
    /\ plan' = [plan EXCEPT !.create = Without(@, g)]
    /\ UNCHANGED <<arrows, canon, running, said, clean, met, ingests, edits, crashes>>

\* _write_row raises on a ref without a source id: the pass ends there, its
\* deletes done.
RefuseRow(g) ==
    /\ plan.delete = {} /\ g \in DOMAIN plan.create
    /\ g[2] \in Unprefixed
    /\ crashes' = crashes + 1
    /\ running' = FALSE
    /\ plan' = NoPlan
    /\ UNCHANGED <<storeVars, canon, said, clean, met, ingests, edits>>

DropArrow_Never(t) ==
    /\ plan.delete = {} /\ DOMAIN plan.create = {} /\ t \in plan.drop
    /\ plan' = [plan EXCEPT !.drop = @ \ {t}]
    /\ UNCHANGED <<storeVars, canon, running, said, clean, met, ingests, edits, crashes>>

DropArrow(t) ==
    /\ plan.delete = {} /\ DOMAIN plan.create = {} /\ t \in plan.drop
    /\ arrows' = [arrows EXCEPT ![t] = NoArrow]
    /\ plan' = [plan EXCEPT !.drop = @ \ {t}]
    /\ UNCHANGED <<rows, canon, running, said, clean, met, ingests, edits, crashes>>

\* The arrow is set only when its confidence would move.
RecomputeArrow(t) ==
    /\ plan.delete = {} /\ DOMAIN plan.create = {} /\ plan.drop = {}
    /\ t \in DOMAIN plan.update
    /\ arrows' = IF arrows[t] # NoArrow /\ arrows[t].conf = plan.update[t].conf
                 THEN arrows
                 ELSE [arrows EXCEPT
                         ![t] = SetArrow(@, plan.update[t].conf, plan.update[t].scope)]
    /\ plan' = [plan EXCEPT !.update = Without(@, t)]
    /\ UNCHANGED <<rows, canon, running, said, clean, met, ingests, edits, crashes>>

Finish ==
    /\ running /\ plan = NoPlan
    /\ running' = FALSE
    /\ clean' = TRUE
    /\ UNCHANGED <<storeVars, canon, plan, said, met, ingests, edits, crashes>>

\* The pass dies between two statements; nothing is rolled back.
Crash ==
    /\ running /\ crashes < MaxCrashes
    /\ crashes' = crashes + 1
    /\ running' = FALSE
    /\ plan' = NoPlan
    /\ UNCHANGED <<storeVars, canon, said, clean, met, ingests, edits>>

Begin == \E win \in Winners : \E scopes \in ScopeChoices(win) : Start(win, scopes)

Execute ==
    \/ \E id \in Identities : DeleteRow(id)
    \/ \E g \in Identities : CreateRow(g)
    \/ \E g \in Identities : RefuseRow(g)
    \/ \E t \in Triples : DropArrow(t)
    \/ \E t \in Triples : RecomputeArrow(t)
    \/ Finish

Next ==
    \/ \E t \in Triples, s \in Sources, row \in Spelled : IngestRow(t, s, row)
    \/ \E t \in Triples, s \in Sources, row \in Spelled : MigrateRow(t, s, row)
    \/ \E c \in Canons : EditRegistry(c)
    \/ Begin
    \/ Execute
    \/ Crash

Spec == Init /\ [][Next]_vars

-----------------------------------------------------------------------------
(* Properties *)

\* Passes that do not die lose no claim and move nothing else: whatever the
\* registry edits and the ingests in between, the ledger holds exactly the
\* identities the passes have brought the claims to.  Variants of one source
\* collapse; claims of different sources never do.
ClaimsKept ==
    ~running /\ crashes = 0 => StoredRows = {<<r.at, r.source>> : r \in said}

\* No row is invented: each one stands for a claim its own source made, in the
\* words its extractor first used, however many passes have moved it.
NothingInvented ==
    \A id \in StoredRows :
        \E r \in said : r.source = id[2] /\ r.raw = At(id).raw

\* While no pass has died and none was overtaken by another process, every
\* arrow is the aggregate of its rows and the emptied triples have no arrow.
PassesDeriveArrows ==
    ~running /\ crashes = 0 /\ ~met =>
        \A t \in Triples : Derived(arrows[t], rows[t])

\* A second pass computes an empty plan (ADR-0003): once a pass completes, only
\* a registry edit or a migration gives it work again.
SecondRunEmpty == clean => Rewritten = {}

\* What _write_row says of itself: a ref without a source id is rejected "before
\* any write fires" (neo4j.py).  So no pass that is not killed takes from a source
\* its last row.
RefusedBeforeAnyWrite ==
    ~running => \A r \in said : \E id \in StoredRows : id[2] = r.source

\* A row already under its canonical identity is never changed or deleted, not
\* even by a pass whose plan was made before the row was recorded and has a row
\* of its own to create under that identity.
CanonicalUntouched ==
    [][\A id \in Kept : rows'[id[1]][id[2]] = At(id)]_vars
=============================================================================
