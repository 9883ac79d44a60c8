-------------------------------- MODULE Ledger --------------------------------
(***************************************************************************)
(* What the two-layer graph promises (docs/adr/0002): an append-only       *)
(* ledger of rows, and arrows that are a materialised view of it.  A row   *)
(* is recorded in one step; the arrow of its triple is then derived from   *)
(* the rows the ledger holds, all of them and nothing else.  No other      *)
(* step sets an arrow.                                                     *)
(***************************************************************************)
EXTENDS LedgerStore

CONSTANT Overwrite   \* TRUE when refresh mode may replace a recorded row

VARIABLES rows, arrows

vars == <<rows, arrows>>

Init ==
    /\ rows   = [t \in Triples |-> NoRows]
    /\ arrows = [t \in Triples |-> NoArrow]

\* A row enters the ledger, or, when overwriting is allowed, is replaced.
Record(t, s, row) ==
    /\ rows[t][s] = NoRow \/ Overwrite
    /\ rows' = [rows EXCEPT ![t] = [@ EXCEPT ![s] = row]]
    /\ UNCHANGED arrows

\* The arrow of a triple with at least one row is brought up to date.
Derive(t, scope) ==
    /\ Support(rows[t]) # {}
    /\ arrows' = [arrows EXCEPT ![t] = SetArrow(@, Aggregate(rows[t]), scope)]
    /\ UNCHANGED rows

\* pg reset.
Clear ==
    /\ rows'   = [t \in Triples |-> NoRows]
    /\ arrows' = [t \in Triples |-> NoArrow]

Next ==
    \/ \E t \in Triples, s \in Sources, row \in Row : Record(t, s, row)
    \/ \E t \in Triples, scope \in Scopes : Derive(t, scope)
    \/ Clear

Spec == Init /\ [][Next]_vars
=============================================================================
