----------------------------- MODULE StateLedger -----------------------------
(***************************************************************************)
(* The state ledger of ADR-0007: append-only :StateEvent rows, identified  *)
(* by (entity, state_key, source_ref), and on every :Entity a denormalized *)
(* map with the current state of each key.  upsert_state_event of neo4j.py *)
(* loads an entity's rows, creates at most one, and replaces the whole map *)
(* -- three transactions, between which a process can die or another run.  *)
(***************************************************************************)
EXTENDS Naturals, Sequences, FiniteSets

CONSTANTS
    Writers,      \* pg processes committing states
    Entities,     \* (name, registry-canonical type) identities
    Keys,         \* state keys as extracted
    CanonKey,     \* the state registry: what canonical_for makes of a key
    Sources,
    AsOfs,        \* as_of texts, as ranks in string order
    DateOf,       \* the point in time an as_of text denotes
    Confs, Values,
    Batches,      \* sequences of states one ingest commits
    NoRow, NoEntry,
    MaxCrashes    \* bound: processes that die between two statements

Row   == [asof : AsOfs, conf : Confs, value : Values]
Entry == [source : Sources, row : Row]
State == [entity : Entities, key : Keys, source : Sources, row : Row]

ASSUME StateAssumption ==
    /\ NoRow \notin Row /\ NoEntry \notin Entry
    /\ CanonKey \in [Keys -> Keys]
    /\ AsOfs \subseteq Nat /\ Confs \subseteq Nat
    /\ DateOf \in [AsOfs -> Nat]
    /\ Batches \subseteq Seq(State)
    /\ MaxCrashes \in Nat

VARIABLES
    rows,      \* rows[e][k][s]: the :StateEvent rows of entity e
    map,       \* map[e][k]: e.state
    phase,     \* phase[w]: the statement process w runs next
    batch, at, \* the states w commits, and the one in hand
    plan,      \* plan[w]: the row to create and the map to set
    torn,      \* history: entities with a row created and no map set since
    overtaken, \* history: writers with loaded rows another has added to since
    raced,     \* history: entities whose map was last set by such a writer
    crashes

storeVars == <<rows, map>>
history == <<torn, overtaken, raced>>
vars == <<rows, map, phase, batch, at, plan, history, crashes>>

EntityRows == [Keys -> [Sources -> Row \cup {NoRow}]]
EntityMap  == [Keys -> Entry \cup {NoEntry}]

NoRows == [k \in Keys |-> [s \in Sources |-> NoRow]]
NoMap  == [k \in Keys |-> NoEntry]
NoPlan == [create |-> FALSE, map |-> NoMap]

TypeOK ==
    /\ rows \in [Entities -> EntityRows]
    /\ map \in [Entities -> EntityMap]
    /\ phase \in [Writers -> {"idle", "load", "row", "map"}]
    /\ \A w \in Writers : phase[w] # "idle" => at[w] \in DOMAIN batch[w]
    /\ plan \in [Writers -> [create : BOOLEAN, map : EntityMap]]
    /\ torn \subseteq Entities /\ raced \subseteq Entities
    /\ overtaken \subseteq Writers
    /\ crashes \in 0 .. MaxCrashes

-----------------------------------------------------------------------------
(* plan_state_writes and _current_state_for *)

\* Latest as_of by text comparison, then confidence.
Beats(a, b) == a.asof > b.asof \/ (a.asof = b.asof /\ a.conf > b.conf)

\* The rows of one key none of the others beats.
Best(keyRows) ==
    {s \in Sources : keyRows[s] # NoRow /\
        \A r \in Sources : keyRows[r] # NoRow => ~Beats(keyRows[r], keyRows[s])}

\* max takes the first of equals, and the load query states no order: which of
\* the rows that tie comes first may differ from load to load.
Entries(keyRows) ==
    IF Best(keyRows) = {} THEN {NoEntry}
    ELSE {[source |-> s, row |-> keyRows[s]] : s \in Best(keyRows)}

\* The candidate is listed after the loaded rows: it wins only over all of them.
EntriesWith(keyRows, x) ==
    IF \A s \in Sources : keyRows[s] # NoRow => Beats(x.row, keyRows[s])
    THEN {[source |-> x.source, row |-> x.row]}
    ELSE Entries(keyRows)

\* Every map the recomputation may come to for candidate x.
Maps_OneKey(loaded, x, new) ==
    {[NoMap EXCEPT ![CanonKey[x.key]] = entry] :
        entry \in IF new THEN EntriesWith(loaded[CanonKey[x.key]], x)
                  ELSE Entries(loaded[CanonKey[x.key]])}

Maps_CountsSkipped(loaded, x, new) ==
    LET choices == [k \in Keys |->
            IF k = CanonKey[x.key] THEN EntriesWith(loaded[k], x)
            ELSE Entries(loaded[k])]
    IN  {m \in [Keys -> UNION {choices[k] : k \in Keys}] :
            \A k \in Keys : m[k] \in choices[k]}

\* The choices are bound by a set so that TLC works them out once.
Maps(loaded, x, new) ==
    UNION {{m \in [Keys -> UNION {choices[k] : k \in Keys}] :
               \A k \in Keys : m[k] \in choices[k]} :
           choices \in {[k \in Keys |->
               IF new /\ k = CanonKey[x.key] THEN EntriesWith(loaded[k], x)
               ELSE Entries(loaded[k])]}}

-----------------------------------------------------------------------------

Current(w) == batch[w][at[w]]

Idle(w) ==
    /\ phase' = [phase EXCEPT ![w] = "idle"]
    /\ batch' = [batch EXCEPT ![w] = <<>>]
    /\ at' = [at EXCEPT ![w] = 1]

Init ==
    /\ rows  = [e \in Entities |-> NoRows]
    /\ map   = [e \in Entities |-> NoMap]
    /\ phase = [w \in Writers |-> "idle"]
    /\ batch = [w \in Writers |-> <<>>]
    /\ at    = [w \in Writers |-> 1]
    /\ plan  = [w \in Writers |-> NoPlan]
    /\ torn  = {} /\ raced = {} /\ overtaken = {}
    /\ crashes = 0

\* _commit_states, once the review approved.
Begin(w, b) ==
    /\ phase[w] = "idle" /\ b # <<>>
    /\ phase' = [phase EXCEPT ![w] = "load"]
    /\ batch' = [batch EXCEPT ![w] = b]
    /\ at' = [at EXCEPT ![w] = 1]
    /\ UNCHANGED <<storeVars, plan, history, crashes>>

\* All rows of the entity are loaded, whatever their key.
Load(w) ==
    LET x == Current(w)
        new == rows[x.entity][CanonKey[x.key]][x.source] = NoRow
    IN  /\ phase[w] = "load"
        /\ \E m \in Maps(rows[x.entity], x, new) :
              plan' = [plan EXCEPT ![w] = [create |-> new, map |-> m]]
        /\ phase' = [phase EXCEPT ![w] = "row"]
        /\ UNCHANGED <<storeVars, batch, at, history, crashes>>

\* History: w's row is new to whoever has loaded the entity's rows before.
Recorded(w) ==
    LET e == Current(w).entity
    IN  /\ torn' = torn \cup {e}
        /\ overtaken' = overtaken \cup
              {v \in Writers \ {w} : phase[v] \in {"row", "map"}
                                        /\ Current(v).entity = e}

\* The MERGE that creates the entity and the row, or finds them.
CreateRow(w) ==
    LET x == Current(w) k == CanonKey[x.key]
    IN  /\ phase[w] = "row"
        /\ IF plan[w].create /\ rows[x.entity][k][x.source] = NoRow
           THEN /\ rows' = [rows EXCEPT ![x.entity][k][x.source] = x.row]
                /\ Recorded(w)
           ELSE UNCHANGED <<rows, torn, overtaken>>
        /\ phase' = [phase EXCEPT ![w] = "map"]
        /\ UNCHANGED <<map, batch, at, plan, raced, crashes>>

\* History: the map w has set.
Derived(w) ==
    LET e == Current(w).entity
    IN  /\ torn' = torn \ {e}
        /\ raced' = IF w \in overtaken THEN raced \cup {e} ELSE raced \ {e}
        /\ overtaken' = overtaken \ {w}

\* SET e.state, for a skipped candidate as well.
SetMap_CreatedOnly(w) ==
    LET x == Current(w)
    IN  /\ phase[w] = "map"
        /\ IF plan[w].create
           THEN /\ map' = [map EXCEPT ![x.entity] = plan[w].map]
                /\ Derived(w)
           ELSE UNCHANGED <<map, history>>
        /\ IF at[w] < Len(batch[w])
           THEN /\ at' = [at EXCEPT ![w] = @ + 1]
                /\ phase' = [phase EXCEPT ![w] = "load"]
                /\ UNCHANGED batch
           ELSE Idle(w)
        /\ plan' = [plan EXCEPT ![w] = NoPlan]
        /\ UNCHANGED <<rows, crashes>>

SetMap(w) ==
    LET x == Current(w)
    IN  /\ phase[w] = "map"
        /\ map' = [map EXCEPT ![x.entity] = plan[w].map]
        /\ Derived(w)
        /\ IF at[w] < Len(batch[w])
           THEN /\ at' = [at EXCEPT ![w] = @ + 1]
                /\ phase' = [phase EXCEPT ![w] = "load"]
                /\ UNCHANGED batch
           ELSE Idle(w)
        /\ plan' = [plan EXCEPT ![w] = NoPlan]
        /\ UNCHANGED <<rows, crashes>>

\* The process dies, or a statement raises.
Crash(w) ==
    /\ phase[w] # "idle" /\ crashes < MaxCrashes
    /\ crashes' = crashes + 1
    /\ Idle(w)
    /\ plan' = [plan EXCEPT ![w] = NoPlan]
    /\ overtaken' = overtaken \ {w}
    /\ UNCHANGED <<storeVars, torn, raced>>

Work(w) == Load(w) \/ CreateRow(w) \/ SetMap(w)

Next ==
    \E w \in Writers :
        \/ \E b \in Batches : Begin(w, b)
        \/ Work(w)
        \/ Crash(w)

Spec == Init /\ [][Next]_vars

\* A commit that does not die keeps running, and every document is ingested
\* again, by whichever process, however often it takes.
LiveSpec ==
    /\ Spec
    /\ \A w \in Writers : WF_vars(Work(w))
    /\ \A b \in Batches : SF_vars(\E w \in Writers : Begin(w, b))

-----------------------------------------------------------------------------
(* Properties *)

\* A map says of every key what a latest row of that key says, where latest
\* is by the dates the as_of texts denote, then by confidence.
Later(a, b) ==
    \/ DateOf[a.asof] > DateOf[b.asof]
    \/ DateOf[a.asof] = DateOf[b.asof] /\ a.conf > b.conf

CurrentMap(e) ==
    \A k \in Keys :
        IF \A s \in Sources : rows[e][k][s] = NoRow THEN map[e][k] = NoEntry
        ELSE /\ map[e][k] # NoEntry
             /\ rows[e][k][map[e][k].source] = map[e][k].row
             /\ \A s \in Sources : rows[e][k][s] # NoRow =>
                    ~Later(rows[e][k][s], map[e][k].row)

\* ADR-0007: the map is derived from the rows, sibling keys included.  Behind
\* them is at most the map of an entity whose row a process has created without
\* setting the map, or whose map was set from rows another has since added to.
MapsDerived ==
    \A e \in Entities : CurrentMap(e) \/ e \in torn \cup raced

\* A map only advances.  Whatever dies between a row and its map, an entry gives
\* way only to a row that is as late and as sure at least, and never goes away;
\* while the map is current, as in a re-ingest, only to a row it ties with --
\* which it may, as the rows are loaded in no order.  Excepted is the entity
\* whose map is, or has just been, set from rows another process has added to.
MapOnlyAdvances ==
    [][\A e \in Entities \ (raced \cup raced'), k \in Keys :
          LET old == map[e][k]
              new == map'[e][k]
          IN  old \notin {NoEntry, new} =>
                /\ new # NoEntry /\ ~Later(old.row, new.row)
                /\ CurrentMap(e) => ~Later(new.row, old.row)]_vars

\* Whatever died, and whatever two processes did to each other's maps, another
\* ingest about the entity repairs it, although no row is left to create.
MapsConverge == <>[](\A e \in Entities : CurrentMap(e))
=============================================================================
