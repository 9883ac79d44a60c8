------------------------------ MODULE FactCheck ------------------------------
(***************************************************************************)
(* pg fact-check over a ledger that documents, registry edits and          *)
(* normalization passes keep changing.  A run reads the rows of a domain   *)
(* or of a source, judges every one of them (one search and one model call *)
(* each, nothing shared is touched), and only then writes the receipts,    *)
(* one CREATE at a time.  The store is Normalization's: this module adds   *)
(* the :Verdict nodes and their CHECKS edges to it.                        *)
(***************************************************************************)
EXTENDS Normalization

CONSTANTS
    Domains,     \* the domain tags
    DomainOf,    \* DomainOf[t]: the tag, if any, of a claim spelled t
    SourceId,    \* SourceId[s]: source_id_of(s), for the refs that have one
    MaxChecks    \* bound: runs of pg fact-check

ASSUME FactCheckAssumption ==
    /\ DOMAIN DomainOf = Triples
    /\ DOMAIN SourceId = Sources \ Unprefixed
    /\ NoRow \notin Identities
    /\ MaxChecks \in Nat

VARIABLES
    checks,      \* runs begun; numbers them
    stage,       \* what the current run does next
    receipts,    \* the identities it has read and not yet written a verdict for
    verdicts,    \* the :Verdict nodes; on is the row at the end of CHECKS, if any
    failed       \* history: runs that raised while judging

checkVars == <<checks, stage, receipts, verdicts, failed>>
allVars == <<vars, checkVars>>

Verdict == [run : 1 .. MaxChecks, about : Identities, on : Identities \cup {NoRow}]

CheckTypeOK ==
    /\ checks \in 0 .. MaxChecks
    /\ stage \in {"idle", "judging", "saving"}
    /\ receipts \subseteq Identities
    /\ verdicts \subseteq Verdict
    /\ failed \subseteq 1 .. MaxChecks

CheckInit ==
    /\ Init
    /\ checks = 0
    /\ stage = "idle"
    /\ receipts = {}
    /\ verdicts = {}
    /\ failed = {}

-----------------------------------------------------------------------------

\* rows_for_domain.  A migrated row has no domain.
RowsForDomain(d) ==
    {id \in StoredRows : id[2] \notin Unprefixed /\ DomainOf[At(id).raw] = d}

\* provenance_for_source: the rows with a FROM_SOURCE edge to the source.
ProvenanceForSource(i) ==
    {id \in StoredRows : id[2] \notin Unprefixed /\ SourceId[id[2]] = i}

Selections ==
    {RowsForDomain(d) : d \in Domains}
        \cup {ProvenanceForSource(SourceId[s]) : s \in DOMAIN SourceId}

Fetch(ids) ==
    /\ stage = "idle" /\ checks < MaxChecks
    /\ stage' = "judging"
    /\ checks' = checks + 1
    /\ receipts' = ids
    /\ UNCHANGED <<vars, verdicts, failed>>

\* fact_check_rows, all rows judged.
Judge ==
    /\ stage = "judging"
    /\ stage' = "saving"
    /\ UNCHANGED <<vars, checks, receipts, verdicts, failed>>

\* The receipts judged so far are written when a later row raises.
Raise_SavesPart ==
    /\ stage = "judging" /\ receipts # {}
    /\ failed' = failed \cup {checks}
    /\ stage' = "saving"
    /\ \E done \in SUBSET receipts : receipts' = done
    /\ UNCHANGED <<vars, checks, verdicts>>

\* fact_check_rows: a failed search, a model that calls no tool, an unknown
\* verdict or a confidence out of range raises at some row, and the receipts of
\* the rows before it die with the list that held them.
Raise ==
    /\ stage = "judging" /\ receipts # {}
    /\ failed' = failed \cup {checks}
    /\ stage' = "idle"
    /\ receipts' = {}
    /\ UNCHANGED <<vars, checks, verdicts>>

\* One verdict per row, the latest.
SaveVerdict_Merges(id) ==
    /\ stage = "saving" /\ id \in receipts
    /\ verdicts' = IF id \in StoredRows
                   THEN {v \in verdicts : v.on # id}
                            \cup {[run |-> checks, about |-> id, on |-> id]}
                   ELSE verdicts
    /\ receipts' = receipts \ {id}
    /\ UNCHANGED <<vars, checks, stage, failed>>

\* save_verdicts: MATCH the row by its identity, CREATE the verdict and its
\* edge.  A row that is no longer there is counted, and nothing is written.
SaveVerdict(id) ==
    /\ stage = "saving" /\ id \in receipts
    /\ verdicts' = IF id \in StoredRows
                   THEN verdicts \cup {[run |-> checks, about |-> id, on |-> id]}
                   ELSE verdicts
    /\ receipts' = receipts \ {id}
    /\ UNCHANGED <<vars, checks, stage, failed>>

\* All receipts are written, or the run dies before the rest of them.
End ==
    /\ stage = "saving"
    /\ stage' = "idle"
    /\ receipts' = {}
    /\ UNCHANGED <<vars, checks, verdicts, failed>>

\* A row that is DETACH DELETEd takes the CHECKS edges of its verdicts along.
Detached(v) ==
    IF v.on # NoRow /\ v.on \notin StoredRows' THEN [v EXCEPT !.on = NoRow] ELSE v

LedgerStep ==
    /\ Next
    /\ verdicts' = {Detached(v) : v \in verdicts}
    /\ UNCHANGED <<checks, stage, receipts, failed>>

CheckStep ==
    \/ \E ids \in Selections : Fetch(ids)
    \/ Judge
    \/ Raise
    \/ \E id \in Identities : SaveVerdict(id)
    \/ End

CheckSpec == CheckInit /\ [][LedgerStep \/ CheckStep]_allVars

-----------------------------------------------------------------------------
(* Properties *)

\* A verdict that was malformed is never written (factcheck.py), and neither is
\* any other verdict of its run.
OnlyWholeRuns == \A v \in verdicts : v.run \notin failed

\* Receipts are append-only: none is ever changed or removed by another run, and
\* the row it checks is taken from it only by a pass that moves that row; a
\* canonical row keeps its verdicts through every pass, even one planned earlier.
VerdictsStay ==
    [][\A v \in verdicts :
          \/ v \in verdicts'
          \/ running /\ v.on \in Rewritten /\ [v EXCEPT !.on = NoRow] \in verdicts']_allVars
=============================================================================
