------------------------------ MODULE Resolution ------------------------------
(***************************************************************************)
(* resolution.py as the orchestrator drives it: the names of one document  *)
(* are resolved one after the other against the entities created earlier   *)
(* in the session and against the graph, a merge records its surface form  *)
(* as an alias, and an approved review upserts every entity it touched.    *)
(* An ambiguous name is queued and becomes an entity of its own.           *)
(*                                                                         *)
(* One entity type; the embedder answers; no neighbours are passed, so     *)
(* structural corroboration never decides.  What string and embedding      *)
(* comparisons return is given by constants.                               *)
(***************************************************************************)
EXTENDS Naturals, Sequences

CONSTANTS
    Names,       \* spellings of entity names
    Norm,        \* normalize_name: the normal form is a spelling too
    Fuzzy,       \* pairs {x, y} whose normal forms are similar from 0.90 on
    Tokens,      \* the tokens of a normal form
    Likeness,    \* Likeness[x][y]: 0 below 0.85, and a step per margin of 0.05
    MaxNames,    \* bound: names a document mentions
    MaxIngests   \* bound: ingests

ASSUME ResolutionAssumption ==
    /\ \A x \in Names : Norm[x] \in Names /\ Norm[Norm[x]] = Norm[x]
    /\ \A x \in Names : Tokens[Norm[x]] = Tokens[x]
    /\ \A x, y \in Names : Likeness[x][y] \in Nat /\ Likeness[x][y] = Likeness[y][x]
    /\ MaxNames \in Nat /\ MaxIngests \in Nat

VARIABLES
    nodes,       \* name of an :Entity node -> its aliases
    embedded,    \* nodes that have an embedding
    resolving,   \* "idle", "resolve", "committed" or "discarded"
    names,       \* the names the document mentions
    results,     \* what each of the names so far resolved to
    created,     \* SessionRegistry.entities
    aliasOf,     \* SessionRegistry.aliases: normal form -> entity
    nodesBefore, \* history: the graph when the run started
    ingests

session == <<names, results, created, aliasOf>>
resolverVars == <<nodes, embedded, resolving, session, nodesBefore, ingests>>

Result == [name : Names, outcome : {"auto", "create", "queue"},
           entity : Names, newAlias : SUBSET Names]

ResolverTypeOK ==
    /\ DOMAIN nodes \subseteq Names /\ \A n \in DOMAIN nodes : nodes[n] \subseteq Names
    /\ embedded \subseteq DOMAIN nodes
    /\ resolving \in {"idle", "resolve", "committed", "discarded"}
    /\ results \in Seq(Result) /\ Len(results) <= Len(names)
    /\ created \subseteq Names
    /\ \A f \in DOMAIN aliasOf : aliasOf[f] \in created \cup DOMAIN nodes

-----------------------------------------------------------------------------
(* The comparisons *)

Similar(x, y) == Norm[x] = Norm[y] \/ {x, y} \in Fuzzy

\* containment_matches: the candidate's tokens against those of an entity and
\* its aliases together.
Contained(x, n, aliases) ==
    LET tokens == Tokens[n] \cup UNION {Tokens[a] : a \in aliases}
    IN  /\ tokens # Tokens[x]
        /\ Tokens[x] \subseteq tokens \/ tokens \subseteq Tokens[x]

\* containment_candidates of the store looks for a shared token of the name
\* first, or an alias that is spelled like one of the candidate's tokens.
Prefiltered(x, n, aliases) ==
    \E token \in Tokens[x] :
        token \in Tokens[n] \/ \E a \in aliases : a = Norm[a] /\ Tokens[a] = {token}

\* The best of the entities alike to x, when it is alone or leads by a margin.
Leading(x, set) ==
    {n \in set : \A m \in set \ {n} : Likeness[x][n] > Likeness[x][m]}

Alike(x, set) == {n \in set : Likeness[x][n] > 0}

-----------------------------------------------------------------------------
(* EntityResolver.resolve: the layers in their order *)

AutoMerge(x, n, newAlias) ==
    [name |-> x, outcome |-> "auto", entity |-> n, newAlias |-> newAlias]

\* The queued name becomes an entity of that name (_ensure_create_new).
Queue(x) == [name |-> x, outcome |-> "queue", entity |-> x, newAlias |-> {}]

Create(x) == [name |-> x, outcome |-> "create", entity |-> x, newAlias |-> {}]

\* _store_add_alias: a form the entity already answers to is not an alias.
Merged(x, n, aliases) ==
    AutoMerge(x, n, IF \E a \in {n} \cup aliases : Norm[a] = Norm[x] THEN {} ELSE {x})

\* SessionRegistry.lookup
InSession(x) ==
    {n \in created : Norm[n] = Norm[x]}
        \cup IF Norm[x] \in DOMAIN aliasOf THEN {aliasOf[Norm[x]]} ELSE {}

Lookup(x) ==
    IF \E n \in created : Norm[n] = Norm[x]
    THEN CHOOSE n \in created : Norm[n] = Norm[x]
    ELSE aliasOf[Norm[x]]

Single(set) == \E n \in set : set = {n}

One(set) == CHOOSE n \in set : TRUE

\* The store finds a node by its name or an alias as they are spelled; a
\* fuzzy comparison with those adds nothing.
Exact(x) == {n \in DOMAIN nodes : x = n \/ x \in nodes[n]}

StoreContained(x) ==
    {n \in DOMAIN nodes : Prefiltered(x, n, nodes[n]) /\ Contained(x, n, nodes[n])}

\* Layers that read the graph, and the session's containment layer.
ResolveInGraph(x) ==
    LET contained == StoreContained(x)
        corroborated == Alike(x, contained \cap embedded)
        inSession == {n \in created : Contained(x, n, {})}
        semantic  == Alike(x, embedded)
    IN  CASE Single(Exact(x)) -> AutoMerge(x, One(Exact(x)), {})
          [] Exact(x) # {} /\ ~Single(Exact(x)) -> Queue(x)
          [] Exact(x) = {} /\ contained # {} ->
                IF Single(corroborated)
                THEN Merged(x, One(corroborated), nodes[One(corroborated)])
                ELSE Queue(x)
          [] Exact(x) = {} /\ contained = {} /\ inSession # {} ->
                IF Single(Alike(x, inSession))
                THEN Merged(x, One(Alike(x, inSession)), {}) ELSE Queue(x)
          [] OTHER ->
                IF semantic = {} THEN Create(x)
                ELSE IF Leading(x, semantic) # {}
                THEN AutoMerge(x, One(Leading(x, semantic)), {})
                ELSE Queue(x)

Resolve(x) ==
    LET fuzzy == {n \in created : Similar(x, n)}
        alike == Alike(x, created)
    IN  CASE InSession(x) # {} -> AutoMerge(x, Lookup(x), {})
          [] InSession(x) = {} /\ fuzzy # {} ->
                IF Single(fuzzy) THEN Merged(x, One(fuzzy), {}) ELSE Queue(x)
          [] InSession(x) = {} /\ fuzzy = {} /\ alike # {} ->
                IF Leading(x, alike) # {} THEN Merged(x, One(Leading(x, alike)), {})
                ELSE Queue(x)
          [] OTHER -> ResolveInGraph(x)

-----------------------------------------------------------------------------

ResolverInit ==
    /\ nodes = <<>> /\ embedded = {}
    /\ resolving = "idle"
    /\ names = <<>> /\ results = <<>>
    /\ created = {} /\ aliasOf = <<>>
    /\ nodesBefore = <<>>
    /\ ingests = 0

\* A document reaches _resolve with a registry of its own.
StartRun(doc) ==
    /\ resolving # "resolve" /\ ingests < MaxIngests
    /\ resolving' = "resolve" /\ ingests' = ingests + 1
    /\ names' = doc /\ results' = <<>>
    /\ created' = {} /\ aliasOf' = <<>>
    /\ nodesBefore' = nodes
    /\ UNCHANGED <<nodes, embedded>>

\* SessionRegistry.add_alias
Remembered_Never(x, r) == aliasOf
Remembered(x, r) ==
    IF r.newAlias = {} THEN aliasOf
    ELSE [f \in DOMAIN aliasOf \cup {Norm[x]} |->
             IF f = Norm[x] THEN r.entity ELSE aliasOf[f]]

\* One name.  A merge writes its alias to the node, if there is one, at once.
ResolveNext ==
    LET x == names[Len(results) + 1]
        r == Resolve(x)
    IN  /\ resolving = "resolve" /\ Len(results) < Len(names)
        /\ results' = Append(results, r)
        /\ created' = IF r.outcome = "create" THEN created \cup {x} ELSE created
        /\ aliasOf' = Remembered(x, r)
        /\ nodes' = [n \in DOMAIN nodes |->
                        IF n = r.entity THEN nodes[n] \cup r.newAlias ELSE nodes[n]]
        /\ UNCHANGED <<embedded, resolving, names, nodesBefore, ingests>>

\* _assemble: the entities of the delta with the aliases gathered for them.
Gathered_LastOnly(n) ==
    LET mine == {i \in DOMAIN results : results[i].entity = n}
    IN  results[CHOOSE i \in mine : \A j \in mine : j <= i].newAlias

Gathered(n) ==
    UNION {results[i].newAlias : i \in {j \in DOMAIN results : results[j].entity = n}}

DeltaEntities == {results[i].entity : i \in DOMAIN results}

\* upsert_entity for each of them: aliases are added, an embedding is set when
\* the entity has one -- those made from a queued name have none.
Upserted ==
    [n \in DOMAIN nodes \cup DeltaEntities |->
        (IF n \in DOMAIN nodes THEN nodes[n] ELSE {})
            \cup (IF n \in DeltaEntities THEN Gathered(n) ELSE {})]

ApproveEntities ==
    /\ resolving = "resolve" /\ Len(results) = Len(names)
    /\ nodes' = Upserted
    /\ embedded' = embedded \cup (created \cap DeltaEntities)
    /\ resolving' = "committed"
    /\ UNCHANGED <<session, nodesBefore, ingests>>

\* The reviewer rejects, or an outage aborts the run.
Discard ==
    /\ resolving = "resolve"
    /\ resolving' = "discarded"
    /\ UNCHANGED <<nodes, embedded, session, nodesBefore, ingests>>

Documents == UNION {[1 .. n -> Names] : n \in 1 .. MaxNames}

ResolverNext ==
    \/ \E doc \in Documents : StartRun(doc)
    \/ ResolveNext
    \/ ApproveEntities
    \/ Discard

ResolverSpec == ResolverInit /\ [][ResolverNext]_resolverVars

-----------------------------------------------------------------------------
(* Properties *)

\* A surface form merged into an entity is an alias of its node once the
\* review approved, also when the entity was created in the same run or other
\* names resolved to it later.
MergedFormsLand ==
    resolving = "committed" =>
        \A i \in DOMAIN results :
            /\ results[i].entity \in DOMAIN nodes
            /\ results[i].newAlias \subseteq nodes[results[i].entity]

\* A name an entity was created for, or that was merged into one, means that
\* entity for the rest of the document.
DecisionSticks ==
    \A i, j \in DOMAIN results :
        (/\ i < j
         /\ results[i].outcome = "create" \/ results[i].newAlias # {}
         /\ Norm[results[i].name] = Norm[results[j].name])
            => results[j].entity = results[i].entity

\* A run that is rejected or aborts leaves the graph as it found it.
DiscardLeavesGraph == resolving = "discarded" => nodes = nodesBefore
=============================================================================
