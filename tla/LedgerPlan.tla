------------------------------ MODULE LedgerPlan ------------------------------
(***************************************************************************)
(* plan_ledger_writes of ledger.py on a whole batch of candidates.  The    *)
(* module walks every ledger content `existing` and every batch up to      *)
(* MaxBatch candidates: a state is one input of the function, a step makes *)
(* the batch one candidate longer.                                         *)
(***************************************************************************)
EXTENDS LedgerStore, Sequences

CONSTANTS
    MaxBatch,    \* bound: candidates in one batch
    Modes        \* repeat modes explored

Candidate == [triple : Triples, source : Sources, row : Row]

ASSUME PlanAssumption ==
    /\ MaxBatch \in Nat
    /\ Modes \subseteq {"keep-first", "refresh"}

VARIABLES existing, mode, batch

-----------------------------------------------------------------------------

Id(c) == <<c.triple, c.source>>

\* The plan being accumulated: creates and updates map an identity to the row
\* to write, skips collects skipped identities, scope maps a touched triple to
\* the scope its arrow update carries.
EmptyPlan == [creates |-> <<>>, updates |-> <<>>, skips |-> {}, scope |-> <<>>]

With(f, x, v) == [y \in DOMAIN f \cup {x} |-> IF y = x THEN v ELSE f[y]]

Seen(rs, plan, c) ==
    \/ rs[c.triple][c.source] # NoRow
    \/ Id(c) \in DOMAIN plan.creates \cup DOMAIN plan.updates

\* A new identity is appended; the triple's newest scope becomes the row's.
PlanCreate(plan, c) ==
    [plan EXCEPT !.creates = With(@, Id(c), c.row),
                 !.scope   = With(@, c.triple, c.row.scope)]

\* keep-first: the repeat is skipped and never moves the scope.
PlanSkip_NoArrow(plan, c) == [plan EXCEPT !.skips = @ \cup {Id(c)}]

PlanSkip(plan, c) ==
    [plan EXCEPT !.skips = @ \cup {Id(c)},
                 !.scope = IF c.triple \in DOMAIN @ THEN @
                           ELSE With(@, c.triple, NoScope)]

\* refresh: the repeat replaces a row update, or a create pending in this
\* batch, which leaves the creates.
PlanRefresh(plan, c) ==
    [plan EXCEPT !.creates = Restrict(@, DOMAIN @ \ {Id(c)}),
                 !.updates = With(@, Id(c), c.row),
                 !.scope   = With(@, c.triple, c.row.scope)]

PlanOne_IgnoresBatch(rs, plan, c) ==
    IF rs[c.triple][c.source] = NoRow THEN PlanCreate(plan, c)
    ELSE IF mode = "refresh" THEN PlanRefresh(plan, c)
    ELSE PlanSkip(plan, c)

PlanOne(rs, plan, c) ==
    IF ~Seen(rs, plan, c) THEN PlanCreate(plan, c)
    ELSE IF mode = "refresh" THEN PlanRefresh(plan, c)
    ELSE PlanSkip(plan, c)

PlanWrites(rs, cands) ==
    LET upTo[n \in 0 .. Len(cands)] ==
            IF n = 0 THEN EmptyPlan ELSE PlanOne(rs, upTo[n - 1], cands[n])
    IN  upTo[Len(cands)]

\* The rows of t that the arrow update aggregates: loaded rows with refreshed
\* values substituted, then the creates, then refreshed rows that replaced a
\* create of this very batch.
PlannedRows(rs, plan, t) ==
    [s \in Sources |->
        IF <<t, s>> \in DOMAIN plan.updates THEN plan.updates[<<t, s>>]
        ELSE IF rs[t][s] # NoRow THEN rs[t][s]
        ELSE IF <<t, s>> \in DOMAIN plan.creates THEN plan.creates[<<t, s>>]
        ELSE NoRow]

ArrowConf(rs, plan, t) == Aggregate(PlannedRows(rs, plan, t))

-----------------------------------------------------------------------------

\* What the writer's statements make of a plan: a create is a MERGE that keeps
\* a row it finds, a refresh is a MATCH ... SET that creates none.
Executed(rs, plan) ==
    [t \in Triples |-> [s \in Sources |->
        IF <<t, s>> \in DOMAIN plan.updates /\ rs[t][s] # NoRow
        THEN plan.updates[<<t, s>>]
        ELSE IF <<t, s>> \in DOMAIN plan.creates /\ rs[t][s] = NoRow
        THEN plan.creates[<<t, s>>]
        ELSE rs[t][s]]]

\* The batch executed one candidate at a time, a plan for each, as
\* upsert_extraction does.
OneByOne(rs, cands) ==
    LET Alone(acc, c) == Executed(acc, PlanWrites(acc, <<c>>))
        upTo[n \in 0 .. Len(cands)] ==
            IF n = 0 THEN rs ELSE Alone(upTo[n - 1], cands[n])
    IN  upTo[Len(cands)]

-----------------------------------------------------------------------------

PlanInit ==
    /\ existing \in [Triples -> TripleRows]
    /\ mode \in Modes
    /\ batch = <<>>

NoBatch ==
    /\ existing = [t \in Triples |-> NoRows]
    /\ mode = "keep-first"
    /\ batch = <<>>

Grow(c) ==
    /\ Len(batch) < MaxBatch
    /\ batch' = Append(batch, c)
    /\ UNCHANGED <<existing, mode>>

-----------------------------------------------------------------------------
(* Properties *)

ThePlan == PlanWrites(existing, batch)
Touched == {batch[i].triple : i \in DOMAIN batch}

\* refresh only: some row update replaced a create pending in the same batch,
\* so it updates a row that the ledger does not hold.
PendingRefresh ==
    \E id \in DOMAIN ThePlan.updates : existing[id[1]][id[2]] = NoRow

\* Every touched arrow, and no other, is recomputed, from exactly the rows the
\* ledger holds once the plan has been executed ("never set independently").
ArrowsMatchExecution ==
    LET after == Executed(existing, ThePlan)
    IN  ~PendingRefresh =>
            /\ DOMAIN ThePlan.scope = Touched
            /\ \A t \in Touched :
                  ArrowConf(existing, ThePlan, t) = Aggregate(after[t])

\* The ledger a batch leaves does not depend on how it was cut: planning it
\* whole and planning it claim by claim write the same rows.
BatchIsSequential ==
    ~PendingRefresh => Executed(existing, ThePlan) = OneByOne(existing, batch)
=============================================================================
