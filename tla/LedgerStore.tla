----------------------------- MODULE LedgerStore -----------------------------
(***************************************************************************)
(* The data every ledger module shares: the row layer (:ExtractionEvent    *)
(* nodes, one per (triple, source_ref)), the Arrow layer (typed            *)
(* relationships carrying one derived confidence), and the pure rules of   *)
(* ledger.py that turn rows into arrows.                                   *)
(*                                                                         *)
(* Confidences are kept in the log domain.  A confidence c = 1 - 2^-w is   *)
(* its weight w, so the complement aggregate 1 - \prod (1 - c_i) of        *)
(* ledger.py is the sum of the weights; confidence 1.0 is Certain, which   *)
(* absorbs.  Module Aggregation checks that reading against the arithmetic *)
(* the code performs.                                                      *)
(***************************************************************************)
EXTENDS Naturals, Functions

CONSTANTS
    Triples,     \* (subject, RELATION, object) identities an arrow can have
    Sources,     \* source_ref strings, "<source-id>:<chunk>"
    Weights,     \* weights of the confidences an extractor may report
    Certain,     \* the weight that stands for confidence 1.0
    Scopes,      \* scope_conditions strings
    NoScope,     \* the empty scope_conditions string
    NoRow,       \* no row has this identity
    NoArrow      \* no relationship has this triple

ASSUME StoreAssumption ==
    /\ Weights \subseteq Nat
    /\ NoScope \in Scopes

\* LedgerRow's values; its identity is the pair of indexes it is stored under.
Row == [conf : Weights, scope : Scopes]

\* The rows of one triple, by source_ref.
TripleRows == [Sources -> Row \cup {NoRow}]
NoRows == [s \in Sources |-> NoRow]

Support(rs) == {s \in DOMAIN rs : rs[s] # NoRow}

\* complement_aggregate over the rows of one triple.
Aggregate(rs) ==
    IF \E s \in Support(rs) : rs[s].conf = Certain
    THEN Certain
    ELSE SumFunction([s \in Support(rs) |-> rs[s].conf])

\* Every aggregate some set of rows can have.
Confidences == {Aggregate(rs) : rs \in TripleRows}

Arrow == [conf : Confidences, scope : Scopes]

ASSUME SentinelAssumption == NoRow \notin Row /\ NoArrow \notin Arrow

\* The MERGE ... SET of an arrow update: created when absent, the derived
\* confidence always replaced, the scope kept when the update carries none.
SetArrow_TakesEmptyScope(arrow, conf, scope) == [conf |-> conf, scope |-> scope]

SetArrow(arrow, conf, scope) ==
    [conf  |-> conf,
     scope |-> IF scope # NoScope \/ arrow = NoArrow THEN scope ELSE arrow.scope]

\* An arrow says exactly what the rows of its triple say.
Derived(arrow, rs) ==
    IF Support(rs) = {} THEN arrow = NoArrow
    ELSE arrow # NoArrow /\ arrow.conf = Aggregate(rs)
=============================================================================
