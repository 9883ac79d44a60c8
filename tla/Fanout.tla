-------------------------------- MODULE Fanout --------------------------------
(***************************************************************************)
(* query_directions of fanout.py: a query is matched to seed entities, the *)
(* arrows around each seed become candidate directions, one per (seed,     *)
(* relation, neighbour), and the best of all are returned.  A state is one *)
(* input of the function; a step adds an arrow to the graph.  A graph      *)
(* lists its arrows in any order, not by confidence: here, in the order    *)
(* they were added.                                                        *)
(*                                                                         *)
(* Ids and names are numbers, so that they sort.  Entities of different    *)
(* types may share a name, and then a pair of names may have an arrow      *)
(* twice.  The cosine of a query and an entity is read off `similarity`.   *)
(***************************************************************************)
EXTENDS Integers, SequencesExt, Subsequences

CONSTANTS
    Entities,      \* ids
    NameOf,        \* NameOf[e]: the name of an entity
    Relations,
    Grades,        \* confidences of arrows
    Scores,        \* similarities of a query and an entity
    Threshold,     \* QUERY_SEED_SIMILARITY
    NoVector,      \* the entity has no embedding
    MaxArrows,     \* bound: arrows of the graph
    MaxEdges,      \* max_edges_per_seed
    TopK           \* top_k

ASSUME FanoutAssumption ==
    /\ Entities \subseteq Nat /\ NameOf \in [Entities -> Nat] /\ IsFiniteSet(Entities)
    /\ Grades \subseteq Nat /\ Scores \subseteq Nat /\ Threshold \in Nat
    /\ NoVector \notin Scores /\ IsFiniteSet(Scores)
    /\ MaxArrows \in Nat /\ MaxEdges \in Nat \ {0} /\ TopK \in Nat \ {0}

VARIABLES
    graph,         \* the arrows, as edges_for lists them
    exact,         \* entities whose name or an alias is the query
    similarity,    \* of the query, by entity
    embedded       \* the embedder gave the query a vector

Names == {NameOf[e] : e \in Entities}

GraphEdge ==
    [subject : Names, relation : Relations, object : Names, confidence : Grades]

\* The score of an exact match, 1.0.
ExactScore == Max({Threshold} \cup Scores)

QueryInit ==
    /\ graph = <<>>
    /\ exact \in SUBSET Entities
    /\ similarity \in [Entities -> Scores \cup {NoVector}]
    /\ embedded \in BOOLEAN

NoQuery ==
    /\ graph = <<>> /\ exact = {} /\ embedded = FALSE
    /\ similarity = [e \in Entities |-> NoVector]

AddArrow(edge) ==
    /\ Len(graph) < MaxArrows
    /\ graph' = Append(graph, edge)
    /\ UNCHANGED <<exact, similarity, embedded>>

-----------------------------------------------------------------------------

\* sorted: the members of S so that none comes after one it is before; members
\* of which neither is before the other come in any order.
Ranking(S, before) ==
    LET first(T) == CHOOSE c \in T : \A d \in T : <<d, c>> \notin before
        upTo[n \in 0 .. Cardinality(S)] ==
            IF n = 0 THEN <<>> ELSE Append(upTo[n - 1], first(S \ ToSet(upTo[n - 1])))
    IN  upTo[Cardinality(S)]

\* match_seeds: exact matches silence the semantic ones, and only these need
\* the embedder.
Seeds ==
    LET near == {e \in Entities : similarity[e] # NoVector /\ similarity[e] >= Threshold}
    IN  IF exact # {} THEN {[entity |-> e, score |-> ExactScore] : e \in exact}
        ELSE IF embedded THEN {[entity |-> e, score |-> similarity[e]] : e \in near}
        ELSE {}

Sooner(a, b) == a.score > b.score \/ (a.score = b.score /\ a.entity < b.entity)

MatchSeeds == Ranking(Seeds, {p \in Seeds \X Seeds : Sooner(p[1], p[2])})

\* The arrows of a seed that are looked at: the first MaxEdges of those that
\* touch its name.
Inspected(seed) ==
    LET name == NameOf[seed.entity]
        touching == Picked(graph, {i \in DOMAIN graph :
                                      name \in {graph[i].subject, graph[i].object}})
    IN  SubSeq(touching, 1, Min({MaxEdges, Len(touching)}))

\* An arrow is a direction whichever way it points.
DirectionOf(seed, edge) ==
    [seed |-> seed.entity, relation |-> edge.relation,
     neighbor |-> IF edge.subject = NameOf[seed.entity] THEN edge.object ELSE edge.subject,
     confidence |-> edge.confidence, score |-> seed.score]

Key(d) == <<d.seed, d.relation, d.neighbor>>

Better(c, d) ==
    c.confidence > d.confidence \/ (c.confidence = d.confidence /\ c.score > d.score)

\* The candidate a key keeps: the latest of the best.
Offer_Replaces(candidates, d) == {c \in candidates : Key(c) # Key(d)} \cup {d}

\* The candidate a key keeps: the first of the best.
Offer(candidates, d) ==
    LET prior == {c \in candidates : Key(c) = Key(d)}
    IN  IF \A c \in prior : Better(d, c) THEN (candidates \ prior) \cup {d} ELSE candidates

\* The inner loop: the arrows of one seed are offered one by one.
Explore(candidates, seed) ==
    LET edges == Inspected(seed)
        upTo[n \in 0 .. Len(edges)] ==
            IF n = 0 THEN candidates
            ELSE Offer(upTo[n - 1], DirectionOf(seed, edges[n]))
    IN  upTo[Len(edges)]

Candidates ==
    LET seeds == MatchSeeds
        upTo[n \in 0 .. Len(seeds)] ==
            IF n = 0 THEN {} ELSE Explore(upTo[n - 1], seeds[n])
    IN  upTo[Len(seeds)]

\* The order of an answer; equals come in any order.
Above(c, d) ==
    \/ Better(c, d)
    \/ c.confidence = d.confidence /\ c.score = d.score /\ c.neighbor < d.neighbor

QueryDirections ==
    LET ranked == Ranking(Candidates,
                          {p \in Candidates \X Candidates : Above(p[1], p[2])})
    IN  SubSeq(ranked, 1, Min({TopK, Len(ranked)}))

-----------------------------------------------------------------------------
(* Properties *)

\* docs/fanout-query.md, of the loop that fills one slot per key in passing: an
\* answer is ranked, repeats no (seed, relation, neighbour), and passes over an
\* inspected arrow only for one of the same key that is at least as confident, or
\* for TopK directions that are none of them below it, whatever order the graph
\* lists its arrows in and however many of them point back.
AnswersAreBest ==
    LET answer == QueryDirections
        seeds  == ToSet(MatchSeeds)
        offers == UNION {{DirectionOf(s, edge) : edge \in ToSet(Inspected(s))} : s \in seeds}
    IN  /\ ToSet(answer) \subseteq offers
        /\ \A i, j \in DOMAIN answer : i < j =>
              Key(answer[i]) # Key(answer[j]) /\ ~Above(answer[j], answer[i])
        /\ \A o \in offers :
              \/ \E i \in DOMAIN answer : Key(answer[i]) = Key(o)
                                          /\ answer[i].confidence >= o.confidence
              \/ Len(answer) = TopK /\ \A i \in DOMAIN answer : ~Above(o, answer[i])
=============================================================================
