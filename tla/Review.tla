-------------------------------- MODULE Review --------------------------------
(***************************************************************************)
(* One ingest from its extracted candidates to the ledger: reduction.py    *)
(* merges the candidates into the delta a person sees, review.py lets them *)
(* edit, approve or reject it, and commit_delta writes the candidates - not *)
(* the merged edges - through the ledger writer.  What is shown and what   *)
(* is written are therefore computed twice, by different code, possibly    *)
(* with another ingest committing in between.                              *)
(*                                                                         *)
(* A commit is one step here; its own steps are those of LedgerWriter.     *)
(* Scopes are left out, and a candidate's evidence is named by its source. *)
(***************************************************************************)
EXTENDS LedgerStore, Subsequences

CONSTANTS
    Procs,       \* processes running `pg ingest` on one graph
    Canon,       \* what the write boundary makes of a triple's verb
    MaxBatch,    \* bound: candidates one source yields
    MaxEdits,    \* bound: confidence edits in one review
    MaxRuns      \* bound: ingests

Edge == [triple : Triples, conf : Weights, source : Sources]
Batches == UNION {[1 .. n -> Edge] : n \in 1 .. MaxBatch}

ASSUME ReviewAssumption ==
    /\ Canon \in [Triples -> Triples]
    /\ \A t \in Triples : Canon[Canon[t]] = Canon[t]
    /\ MaxBatch \in Nat /\ MaxEdits \in Nat /\ MaxRuns \in Nat

\* reduction.py goes on from a merged confidence where the ledger starts over
\* from the rows: only rows of confidence 1.0 aggregate to it.
ASSUME CertainAssumption ==
    \A rs \in TripleRows : IsFiniteSet(Support(rs)) /\ Aggregate(rs) = Certain =>
        \E s \in Support(rs) : rs[s].conf = Certain

VARIABLES
    rows,        \* the ledger
    newest,      \* per triple, the source of the row created last
    arrows,      \* the arrows
    session,     \* per process, the review it is in or has last ended; its
                 \* history alone: no other has committed since it began
    rejected,    \* the rejected log
    runs         \* ingests started

vars == <<rows, newest, arrows, session, rejected, runs>>

-----------------------------------------------------------------------------
(* reduction.py *)

Plus(c, d) == IF Certain \in {c, d} THEN Certain ELSE c + d

TriplesOf(batch) == {batch[i].triple : i \in DOMAIN batch}

\* reduce_edges on one more edge of a triple: a source already seen adds its
\* evidence and no confidence.
Merge_CountsRepeats(prior, edge) ==
    [conf |-> Plus(prior.conf, edge.conf), source |-> edge.source,
     seen |-> prior.seen \cup {edge.source}]

Merge(prior, edge) ==
    [conf   |-> IF edge.source \in prior.seen THEN prior.conf
                ELSE Plus(prior.conf, edge.conf),
     source |-> edge.source,
     seen   |-> prior.seen \cup {edge.source}]

\* reduce_edges: the one edge a batch reduces to, per triple.
Reduced(batch, t) ==
    LET mine  == Picked(batch, {i \in DOMAIN batch : batch[i].triple = t})
        first == [conf |-> mine[1].conf, source |-> mine[1].source,
                  seen |-> {mine[1].source}]
        upTo[n \in 1 .. Len(mine)] ==
            IF n = 1 THEN first ELSE Merge(upTo[n - 1], mine[n])
    IN  upTo[Len(mine)]

\* get_edge, by the verb as extracted: the arrow's confidence, the newest
\* row's source and the evidence of all rows.
Existing(t) ==
    [conf |-> arrows[t].conf, source |-> newest[t], seen |-> Support(rows[t])]

\* The confidence reduce_edges([old, edge]) gives: only the newest source of
\* the old edge counts as seen.
Changed(old, edge) ==
    IF edge.source = old.source THEN old.conf ELSE Plus(old.conf, edge.conf)

\* assemble_delta: the triples shown as new edges and the confidence changes
\* shown for existing arrows, with the confidences rendered.
Assemble(batch) ==
    LET new == {t \in TriplesOf(batch) : arrows[t] = NoArrow}
        changed == {t \in TriplesOf(batch) \ new :
            LET old == Existing(t) edge == Reduced(batch, t)
            IN  \/ Changed(old, edge) # old.conf
                \/ ~(edge.seen \subseteq old.seen)}
    IN  [new        |-> [t \in new |-> Reduced(batch, t).conf],
         changes    |-> [t \in changed |->
                            Changed(Existing(t), Reduced(batch, t))],
         candidates |-> batch]

-----------------------------------------------------------------------------
(* review.py and commit_delta *)

\* The first new edge of the delta, the one an edit changes.
Editable(delta) ==
    LET i == CHOOSE i \in DOMAIN delta.candidates :
                /\ delta.candidates[i].triple \in DOMAIN delta.new
                /\ \A j \in 1 .. i - 1 :
                      delta.candidates[j].triple \notin DOMAIN delta.new
    IN  delta.candidates[i].triple

\* _propagate_edit_to_candidates: the triple's candidates collapse into the
\* first of them, at the edited confidence.
Propagate_DropsAll(batch, t, conf) ==
    Picked(batch, {i \in DOMAIN batch : batch[i].triple # t})

Propagate(batch, t, conf) ==
    LET first == CHOOSE i \in DOMAIN batch :
                    /\ batch[i].triple = t
                    /\ \A j \in 1 .. i - 1 : batch[j].triple # t
        kept  == {i \in DOMAIN batch : i = first \/ batch[i].triple # t}
    IN  Picked([batch EXCEPT ![first].conf = conf], kept)

Edited(delta, conf) ==
    LET t == Editable(delta)
    IN  [delta EXCEPT !.new[t] = conf, !.candidates = Propagate(@, t, conf)]

\* upsert_extraction under keep-first: the verb becomes canonical, then the
\* row is created unless its identity has one.
Upsert_ByTriple(store, e) ==
    LET t == Canon[e.triple]
    IN  IF Support(store.rows[t]) # {} THEN store
        ELSE [rows   |-> [store.rows EXCEPT ![t][e.source] =
                            [conf |-> e.conf, scope |-> NoScope]],
              newest |-> [store.newest EXCEPT ![t] = e.source]]

Upsert(store, e) ==
    LET t == Canon[e.triple]
    IN  IF store.rows[t][e.source] # NoRow THEN store
        ELSE [rows   |-> [store.rows EXCEPT ![t][e.source] =
                            [conf |-> e.conf, scope |-> NoScope]],
              newest |-> [store.newest EXCEPT ![t] = e.source]]

\* The ledger when the candidates are through, in their order.
Stored(batch) ==
    LET upTo[n \in 0 .. Len(batch)] ==
            IF n = 0 THEN [rows |-> rows, newest |-> newest]
            ELSE Upsert(upTo[n - 1], batch[n])
    IN  upTo[Len(batch)]

Commit(batch) ==
    LET store == Stored(batch)
    IN  /\ rows'   = store.rows
        /\ newest' = store.newest
        /\ arrows' = [t \in Triples |->
              IF t \in {Canon[u] : u \in TriplesOf(batch)}
              THEN SetArrow(arrows[t], Aggregate(store.rows[t]), NoScope)
              ELSE arrows[t]]

\* _rejection_records: one record per new edge, each with the whole delta; a
\* delta without new edges leaves one record.
Records(delta) ==
    {[edge |-> t, delta |-> delta] :
        t \in IF DOMAIN delta.new = {} THEN {NoArrow} ELSE DOMAIN delta.new}

-----------------------------------------------------------------------------

NoDelta == [new |-> <<>>, changes |-> <<>>, candidates |-> <<>>]

Idle == [phase |-> "idle", delta |-> NoDelta, extracted |-> <<>>, edits |-> 0,
         alone |-> TRUE]

Init ==
    /\ rows = [t \in Triples |-> NoRows]
    /\ newest = [t \in Triples |-> NoRow]
    /\ arrows = [t \in Triples |-> NoArrow]
    /\ session = [p \in Procs |-> Idle]
    /\ rejected = {}
    /\ runs = 0

\* IngestOrchestrator.run up to the prompt: the graph is read here.
Extract(p) ==
    /\ session[p].phase # "review"
    /\ runs < MaxRuns
    /\ \E batch \in Batches :
          session' = [session EXCEPT ![p] =
              [phase |-> "review", delta |-> Assemble(batch),
               extracted |-> batch, edits |-> 0, alone |-> TRUE]]
    /\ runs' = runs + 1
    /\ UNCHANGED <<rows, newest, arrows, rejected>>

\* [e]: refused while the delta has no new edge.
Edit(p) ==
    /\ session[p].phase = "review"
    /\ session[p].edits < MaxEdits
    /\ DOMAIN session[p].delta.new # {}
    /\ \E conf \in Weights :
          session' = [session EXCEPT ![p].delta = Edited(@, conf),
                                     ![p].edits = @ + 1]
    /\ UNCHANGED <<rows, newest, arrows, rejected, runs>>

\* [r]
Reject(p) ==
    /\ session[p].phase = "review"
    /\ rejected' = rejected \cup Records(session[p].delta)
    /\ session' = [session EXCEPT ![p].phase = "rejected"]
    /\ UNCHANGED <<rows, newest, arrows, runs>>

\* [a]: the candidates are committed against the graph as it is now.
Approve(p) ==
    /\ session[p].phase = "review"
    /\ Commit(session[p].delta.candidates)
    /\ session' = [q \in Procs |->
          IF q = p THEN [session[p] EXCEPT !.phase = "committed"]
          ELSE [session[q] EXCEPT !.alone = FALSE]]
    /\ UNCHANGED <<rejected, runs>>

Next == \E p \in Procs : Extract(p) \/ Edit(p) \/ Reject(p) \/ Approve(p)

Spec == Init /\ [][Next]_vars

-----------------------------------------------------------------------------
(* Properties *)

\* The state keeps its shape: a delta under review has at least one candidate,
\* and every confidence it shows is one the ledger can reach.
TypeOK ==
    /\ rows \in [Triples -> TripleRows]
    /\ newest \in [Triples -> Sources \cup {NoRow}]
    /\ arrows \in [Triples -> Arrow \cup {NoArrow}]
    /\ runs \in 0 .. MaxRuns
    /\ \A p \in Procs :
          /\ session[p].phase \in {"idle", "review", "committed", "rejected"}
          /\ session[p].alone \in BOOLEAN
          /\ session[p].phase # "idle" =>
                /\ session[p].extracted \in Batches
                /\ session[p].edits \in 0 .. MaxEdits
                /\ session[p].delta.candidates \in Batches
                /\ \A t \in DOMAIN session[p].delta.new :
                      session[p].delta.new[t] \in Confidences
                /\ DOMAIN session[p].delta.changes \subseteq Triples

\* What the reviewer approved is what the graph says: a new edge lands at
\* exactly the confidence the prompt showed for it, edits included, although
\* the ledger computes it from the candidates and never sees the merged edge;
\* unless another ingest has committed since it was shown, or the document
\* spells the relation otherwise (the delta goes by spelling).
NewEdgesLandAsShown ==
    \A p \in Procs : session[p].phase = "committed" /\ session[p].alone =>
        \A t \in DOMAIN session[p].delta.new :
            {u \in TriplesOf(session[p].extracted) : Canon[u] = t} = {t} =>
                /\ arrows[t] # NoArrow
                /\ arrows[t].conf = session[p].delta.new[t]

\* Approval loses no claim, whatever another ingest committed while the
\* prompt was open: every triple extracted is an arrow, every candidate of
\* the approved delta has its row, and every arrow is derived from its rows.
ApprovedIsRecorded ==
    /\ \A p \in Procs : session[p].phase = "committed" =>
          /\ \A t \in TriplesOf(session[p].extracted) : arrows[Canon[t]] # NoArrow
          /\ \A i \in DOMAIN session[p].delta.candidates :
                LET e == session[p].delta.candidates[i]
                IN  rows[Canon[e.triple]][e.source] # NoRow
    /\ \A t \in Triples : Derived(arrows[t], rows[t])

\* Every triple a rejected run extracted can be found in the rejected log,
\* also when the reviewer edited the delta before turning it away.
RejectedTriplesLogged ==
    \A p \in Procs : session[p].phase = "rejected" =>
        \A t \in TriplesOf(session[p].extracted) :
            \E r \in rejected : t \in TriplesOf(r.delta.candidates)
=============================================================================
