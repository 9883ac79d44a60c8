----------------------------- MODULE LedgerWriter -----------------------------
(***************************************************************************)
(* The commit path of neo4j.py and reduction.py: an approved delta is      *)
(* written entity by entity, then claim by claim.  Every session.run is a  *)
(* transaction of its own, so one claim is three steps -- load the rows of *)
(* its triple, write its row, set its arrow -- and a process can die, or   *)
(* another pg process can run, between any two of them.                    *)
(*                                                                         *)
(* Entity names are taken to be unique here (the row queries match an      *)
(* endpoint by name alone).                                                *)
(***************************************************************************)
EXTENDS LedgerStore, Sequences, FiniteSets

CONSTANTS
    Writers,       \* pg processes
    Entities,
    Ends,          \* Ends[t]: the two endpoint entities of triple t
    Canonical,     \* Canonical[t]: t after registry canonicalization
    Batches,       \* deltas: sequences of claims approved together
    Modes,         \* repeat modes the operator may run with
    MaxCrashes,    \* bound: processes that die in the middle of a commit
    MaxResets,     \* bound: runs of pg reset
    MaxUpsets      \* bound: deaths and resets together

Claim == [triple : Triples, source : Sources, row : Row]

ASSUME WriterAssumption ==
    /\ Ends \in [Triples -> SUBSET Entities]
    /\ Canonical \in [Triples -> Triples]
    /\ \A t \in Triples : Ends[Canonical[t]] = Ends[t]
    /\ Batches \subseteq Seq(Claim)
    /\ Modes \subseteq {"keep-first", "refresh"}
    /\ MaxCrashes \in Nat /\ MaxResets \in Nat /\ MaxUpsets \in Nat

VARIABLES
    rows,       \* the row layer
    arrows,     \* the arrow layer
    entities,   \* :Entity nodes
    phase,      \* phase[w]: the statement process w runs next
    mode,       \* mode[w]: its repeat mode
    batch,      \* batch[w]: the delta it commits
    at,         \* at[w]: index in it of the claim in hand
    fresh,      \* fresh[w]: the delta's new_entities not written yet
    plan,       \* plan[w]: the LedgerWritePlan of the claim in hand
    torn,       \* history: triples whose row was written and arrow was not
    newest,     \* history: newest[t], last scope a row of t was written with
    lost,       \* history: triples whose newest scope died with its process
    wiped,      \* history: processes somebody has reset the ledger under
    crashes, resets

storeVars == <<rows, arrows, entities>>
procVars  == <<phase, mode, batch, at, fresh, plan>>
history   == <<torn, newest, lost, wiped>>
bounds    == <<crashes, resets>>
vars      == <<storeVars, procVars, history, bounds>>

Phases == {"idle", "entities", "load", "row", "arrow", "done"}

NoPlan == [write |-> "none", row |-> NoRow, conf |-> Aggregate(NoRows),
           scope |-> NoScope]

Plan == [write : {"none", "create", "refresh"}, row : Row \cup {NoRow},
         conf : Confidences, scope : Scopes]

TypeOK ==
    /\ rows \in [Triples -> TripleRows]
    /\ arrows \in [Triples -> Arrow \cup {NoArrow}]
    /\ entities \subseteq Entities
    /\ phase \in [Writers -> Phases]
    /\ mode \in [Writers -> {"keep-first", "refresh"}]
    /\ batch \in [Writers -> Seq(Claim)]
    /\ at \in [Writers -> Nat]
    /\ fresh \in [Writers -> SUBSET Entities]
    /\ plan \in [Writers -> Plan]
    /\ torn \subseteq Triples
    /\ newest \in [Triples -> Scopes]
    /\ lost \subseteq Triples /\ wiped \subseteq Writers
    /\ crashes \in 0..MaxCrashes /\ resets \in 0..MaxResets

-----------------------------------------------------------------------------

\* The claim process w works on and the triple it is written under.
Current(w) == batch[w][at[w]]
Target(w)  == Canonical[Current(w).triple]

\* A MATCH on both endpoints finds them.
Present(t) == Ends[t] \subseteq entities

Step(w, from, to) == phase[w] = from /\ phase' = [phase EXCEPT ![w] = to]

\* The phase that follows a finished claim.
AfterClaim(w) == IF at[w] = Len(batch[w]) THEN "done" ELSE "load"

-----------------------------------------------------------------------------
(* plan_ledger_writes for the one candidate upsert_extraction passes it.    *)
(* A definition named D_X is definition D with a plausible bug, there to    *)
(* show that the properties notice.                                         *)

\* A repeat under keep-first: no row write, and an idempotent arrow update
\* that carries no scope.
SkipPlan_MovesScope(existing, claim) ==
    [write |-> "none", row |-> NoRow, conf |-> Aggregate(existing),
     scope |-> claim.row.scope]

SkipPlan(existing, claim) ==
    [write |-> "none", row |-> NoRow, conf |-> Aggregate(existing),
     scope |-> NoScope]

\* A new identity, or a refresh of a recorded one: the arrow is recomputed
\* from the loaded rows with the candidate in place.
RowPlan_OldRows(existing, claim) ==
    [write |-> IF existing[claim.source] = NoRow THEN "create" ELSE "refresh",
     row |-> claim.row, conf |-> Aggregate(existing), scope |-> claim.row.scope]

RowPlan(existing, claim) ==
    [write |-> IF existing[claim.source] = NoRow THEN "create" ELSE "refresh",
     row   |-> claim.row,
     conf  |-> Aggregate([existing EXCEPT ![claim.source] = claim.row]),
     scope |-> claim.row.scope]

PlanWrite(existing, claim, repeat) ==
    IF existing[claim.source] # NoRow /\ repeat = "keep-first"
    THEN SkipPlan(existing, claim)
    ELSE RowPlan(existing, claim)

-----------------------------------------------------------------------------

Init ==
    /\ rows     = [t \in Triples |-> NoRows]
    /\ arrows   = [t \in Triples |-> NoArrow]
    /\ entities = {}
    /\ phase    = [w \in Writers |-> "idle"]
    /\ mode     = [w \in Writers |-> "keep-first"]
    /\ batch    = [w \in Writers |-> <<>>]
    /\ at       = [w \in Writers |-> 1]
    /\ fresh    = [w \in Writers |-> {}]
    /\ plan     = [w \in Writers |-> NoPlan]
    /\ torn     = {}
    /\ newest   = [t \in Triples |-> NoScope]
    /\ lost     = {} /\ wiped = {}
    /\ crashes  = 0
    /\ resets   = 0

BatchEntities(b) == UNION {Ends[b[i].triple] : i \in DOMAIN b}

\* An approved delta reaches commit_delta.  Its new_entities are the endpoints
\* of all its claims, those the graph already holds included.
Begin(w, b, m) ==
    /\ phase[w] \in {"idle", "done"}
    /\ b # <<>>
    /\ phase' = [phase EXCEPT ![w] = "entities"]
    /\ mode'  = [mode EXCEPT ![w] = m]
    /\ batch' = [batch EXCEPT ![w] = b]
    /\ at'    = [at EXCEPT ![w] = 1]
    /\ fresh' = [fresh EXCEPT ![w] = BatchEntities(b)]
    /\ wiped' = wiped \ {w}
    /\ UNCHANGED <<storeVars, plan, torn, newest, lost, bounds>>

\* upsert_entity, one MERGE per entity of the delta.
UpsertEntity(w, e) ==
    /\ phase[w] = "entities"
    /\ e \in fresh[w]
    /\ entities' = entities \cup {e}
    /\ fresh' = [fresh EXCEPT ![w] = @ \ {e}]
    /\ UNCHANGED <<rows, arrows, phase, mode, batch, at, plan, history, bounds>>

EntitiesDone_Early(w) ==
    /\ Step(w, "entities", "load")
    /\ UNCHANGED <<storeVars, mode, batch, at, fresh, plan, history, bounds>>

EntitiesDone(w) ==
    /\ fresh[w] = {}
    /\ Step(w, "entities", "load")
    /\ UNCHANGED <<storeVars, mode, batch, at, fresh, plan, history, bounds>>

\* upsert_extraction: canonicalize, load the triple's rows, plan.
LoadRows(w) ==
    /\ Step(w, "load", "row")
    /\ plan' = [plan EXCEPT ![w] = PlanWrite(rows[Target(w)], Current(w), mode[w])]
    /\ UNCHANGED <<storeVars, mode, batch, at, fresh, history, bounds>>

\* ON MATCH SET would let a stale plan overwrite a row recorded since.
Writes_OnMatch(w) == Present(Target(w)) /\ plan[w].write # "none"

\* The row statement takes effect.  A create is a MERGE that sets nothing ON
\* MATCH; a refresh is a MATCH ... SET; both need the two endpoints.
Writes(w) ==
    LET old == rows[Target(w)][Current(w).source]
    IN  /\ Present(Target(w))
        /\ \/ plan[w].write = "create"  /\ old = NoRow
           \/ plan[w].write = "refresh" /\ old # NoRow

\* _write_row, when the plan has a row to write.
WriteRow(w) ==
    LET t == Target(w)
        s == Current(w).source
    IN  /\ Step(w, "row", "arrow")
        /\ IF Writes(w)
           THEN /\ rows' = [rows EXCEPT ![t] = [@ EXCEPT ![s] = plan[w].row]]
                /\ newest' = IF plan[w].scope = NoScope THEN newest
                             ELSE [newest EXCEPT ![t] = plan[w].scope]
                /\ torn' = torn \cup {t}
           ELSE UNCHANGED <<rows, newest, torn>>
        /\ UNCHANGED <<arrows, entities, mode, batch, at, fresh, plan, lost, wiped, bounds>>

\* Arrows updated once per delta, after its last claim.
WriteArrow_LastClaim(w) ==
    LET t == Target(w)
    IN  /\ Step(w, "arrow", AfterClaim(w))
        /\ IF at[w] = Len(batch[w])
           THEN /\ arrows' = [u \in Triples |-> IF Support(rows[u]) = {} THEN NoArrow
                              ELSE SetArrow(arrows[u], Aggregate(rows[u]), NoScope)]
                /\ torn' = {}
           ELSE UNCHANGED <<arrows, torn>>
        /\ at' = [at EXCEPT ![w] = @ + 1]
        /\ plan' = [plan EXCEPT ![w] = NoPlan]
        /\ UNCHANGED <<rows, entities, mode, batch, fresh, newest, lost, wiped, bounds>>

\* No arrow update for a skipped claim.
WriteArrow_SkipsSkipped(w) ==
    LET t == Target(w)
    IN  /\ Step(w, "arrow", AfterClaim(w))
        /\ IF plan[w].write # "none" /\ Present(t)
           THEN /\ arrows' = [arrows EXCEPT
                                 ![t] = SetArrow(@, plan[w].conf, plan[w].scope)]
                /\ torn' = torn \ {t}
                /\ lost' = IF plan[w].scope = NoScope THEN lost ELSE lost \ {t}
           ELSE UNCHANGED <<arrows, torn, lost>>
        /\ at' = [at EXCEPT ![w] = @ + 1]
        /\ plan' = [plan EXCEPT ![w] = NoPlan]
        /\ UNCHANGED <<rows, entities, mode, batch, fresh, newest, wiped, bounds>>

\* The arrow update of the plan: MATCH both ends, MERGE, SET.
WriteArrow(w) ==
    LET t == Target(w)
    IN  /\ Step(w, "arrow", AfterClaim(w))
        /\ IF Present(t)
           THEN /\ arrows' = [arrows EXCEPT
                                 ![t] = SetArrow(@, plan[w].conf, plan[w].scope)]
                /\ torn' = torn \ {t}
                /\ lost' = IF plan[w].scope = NoScope THEN lost ELSE lost \ {t}
           ELSE UNCHANGED <<arrows, torn, lost>>
        /\ at' = [at EXCEPT ![w] = @ + 1]
        /\ plan' = [plan EXCEPT ![w] = NoPlan]
        /\ UNCHANGED <<rows, entities, mode, batch, fresh, newest, wiped, bounds>>

\* The process dies, or a statement raises: nothing is rolled back and
\* nothing of the commit survives in memory.
Crash(w) ==
    /\ crashes < MaxCrashes /\ crashes + resets < MaxUpsets
    /\ phase[w] \notin {"idle", "done"}
    /\ crashes' = crashes + 1
    /\ phase' = [phase EXCEPT ![w] = "idle"]
    /\ batch' = [batch EXCEPT ![w] = <<>>]
    /\ at'    = [at EXCEPT ![w] = 1]
    /\ fresh' = [fresh EXCEPT ![w] = {}]
    /\ plan'  = [plan EXCEPT ![w] = NoPlan]
    /\ lost'  = IF phase[w] = "arrow" /\ plan[w].scope # NoScope
                THEN lost \cup {Target(w)} ELSE lost
    /\ wiped' = wiped \ {w}
    /\ UNCHANGED <<storeVars, mode, torn, newest, resets>>

\* pg reset --yes, run by a process that is not committing.
Reset(w) ==
    /\ resets < MaxResets /\ crashes + resets < MaxUpsets
    /\ phase[w] \in {"idle", "done"}
    /\ resets'   = resets + 1
    /\ rows'     = [t \in Triples |-> NoRows]
    /\ arrows'   = [t \in Triples |-> NoArrow]
    /\ entities' = {}
    /\ torn'     = {}
    /\ newest'   = [t \in Triples |-> NoScope]
    /\ lost'     = {}
    /\ wiped'    = {v \in Writers \ {w} : phase[v] # "idle"}
    /\ phase'    = [phase EXCEPT ![w] = "idle"]
    /\ batch'    = [batch EXCEPT ![w] = <<>>]
    /\ at'       = [at EXCEPT ![w] = 1]
    /\ UNCHANGED <<mode, fresh, plan, crashes>>

Commit(w) ==
    \/ \E e \in Entities : UpsertEntity(w, e)
    \/ EntitiesDone(w)
    \/ LoadRows(w)
    \/ WriteRow(w)
    \/ WriteArrow(w)

Next ==
    \E w \in Writers :
        \/ \E b \in Batches, m \in Modes : Begin(w, b, m)
        \/ Commit(w)
        \/ Crash(w)
        \/ Reset(w)

Spec == Init /\ [][Next]_vars

\* A started commit keeps running unless it dies, and the operator re-runs
\* every document, in whichever process, as often as it takes (README
\* "Repeat-extraction").
Fairness ==
    /\ \A w \in Writers : WF_vars(Commit(w))
    /\ \A b \in Batches, m \in Modes : SF_vars(\E w \in Writers : Begin(w, b, m))

LiveSpec == Spec /\ Fairness

-----------------------------------------------------------------------------
(* The inductive invariant behind the safety properties of one process: what  *)
(* it loaded is still what the ledger holds when it writes.                   *)

SingleWriter == \A v, w \in Writers : v = w

Active(w) == phase[w] \in {"entities", "load", "row", "arrow"}

\* Claim i of w's delta is in the ledger.
Recorded(w, i) == rows[Canonical[batch[w][i].triple]][batch[w][i].source] # NoRow

PlanFresh(w) ==
    /\ phase[w] = "row" => plan[w] = PlanWrite(rows[Target(w)], Current(w), mode[w])
    /\ phase[w] = "arrow" =>
          /\ Recorded(w, at[w])
          /\ plan[w].conf = Aggregate(rows[Target(w)])
          /\ Target(w) \in torn \/ plan[w].scope = NoScope

ClaimsInOrder(w) ==
    /\ Active(w) => at[w] \in DOMAIN batch[w] /\ mode[w] \in Modes
    /\ phase[w] = "done" => at[w] = Len(batch[w]) + 1
    /\ \A i \in DOMAIN batch[w] : i < at[w] => Recorded(w, i)

EntitiesFirst(w) ==
    \A i \in DOMAIN batch[w] :
        /\ phase[w] = "entities" => Ends[batch[w][i].triple] \subseteq entities \cup fresh[w]
        /\ phase[w] \in {"load", "row", "arrow"} => Ends[batch[w][i].triple] \subseteq entities

-----------------------------------------------------------------------------
(* Properties *)

\* No process holds a plan for triple t.
Quiet(t) == \A w \in Writers : phase[w] \in {"row", "arrow"} => Target(w) # t

\* ADR-0002: an arrow is the complement aggregate of its triple's rows, and
\* there is no arrow without rows.  Only a triple whose row write was not
\* followed by its arrow write may be stale.
ArrowsDerived ==
    \A t \in Triples : Derived(arrows[t], rows[t]) \/ t \in torn

IInv ==
    /\ TypeOK
    /\ ArrowsDerived
    /\ \A w \in Writers : PlanFresh(w) /\ ClaimsInOrder(w) /\ EntitiesFirst(w)

\* A process that dies mid-commit, wherever it dies, leaves at most the one
\* arrow of the claim it held out of step with the ledger.
OneTearPerCrash ==
    Cardinality({t \in Triples : ~Derived(arrows[t], rows[t])})
        <= crashes + Cardinality({w \in Writers : phase[w] = "arrow"})

\* A commit_delta that returns has recorded every claim of its delta under the
\* claim's canonical identity: none is lost to a MATCH that found no endpoint
\* (it writes nothing and raises nothing) or to the keep-first rule.  Excepted
\* is the process under which another has reset the ledger, and no other.
CommitRecorded ==
    \A w \in Writers \ wiped : phase[w] = "done" =>
        \A i \in DOMAIN batch[w] :
            Recorded(w, i)

\* The denormalized scope of an arrow no process is writing is that of the last
\* row written with one, after deaths and repeats too.  Excepted is the triple
\* whose newest scope died with its process between the row and the arrow: under
\* keep-first a repeat carries no scope, and only the next row with one mends it.
ScopeFollowsRows ==
    \A t \in Triples \ lost :
        Quiet(t) /\ arrows[t] # NoArrow => arrows[t].scope = newest[t]

\* keep-first: once recorded, a row is never overwritten, whatever stale plan
\* another process acts on; only a refresh of that very row, or a reset, may.
KeepFirst ==
    [][\A t \in Triples, s \in Sources :
          rows[t][s] # NoRow /\ rows'[t][s] # rows[t][s] =>
              \/ resets' # resets
              \/ \E w \in Writers : /\ phase[w] = "row" /\ mode[w] = "refresh"
                                    /\ Target(w) = t /\ Current(w).source = s]_vars

\* README "re-ingest can never wobble the graph": an arrow that agrees with
\* its rows, none of which is being written, does not move in any field.
NoWobble ==
    [][\A t \in Triples :
          Derived(arrows[t], rows[t]) /\ t \notin torn /\ resets' = resets
              => arrows'[t] = arrows[t]]_vars

\* Whatever crashes and lost updates of concurrent processes did to the arrows,
\* re-ingesting brings every one of them back to its rows for good.
Converges == <>[](\A t \in Triples : Derived(arrows[t], rows[t]))

\* The commit path implements the two-layer ledger of ADR-0002.
Abs == INSTANCE Ledger WITH Overwrite <- "refresh" \in Modes
ImplementsLedger == Abs!Spec
=============================================================================
