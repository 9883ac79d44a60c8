---------------------------- MODULE IngestPipeline ----------------------------
(***************************************************************************)
(* One ingest, IngestOrchestrator.run: extraction fills a scratch run, the *)
(* dispatcher repairs or drops the mis-shaped triples (ADR-0008), the      *)
(* novelty gate filters what is left (ADR-0006), a person approves the     *)
(* triples, then the triples are written and after them the states.  The   *)
(* graph and the rejected log survive a run; everything else is memory.    *)
(*                                                                         *)
(* Three services answer as they like and may be out: the extraction       *)
(* model, Jev in both its roles, and the reviewer.  Resolution, the delta's *)
(* own arithmetic and the statements of a write are in Resolution, Review, *)
(* LedgerWriter and StateLedger.                                           *)
(***************************************************************************)
EXTENDS Subsequences, SequencesExt

CONSTANTS
    Claims,      \* casefolded raw triples
    Facts,       \* (entity, state_key, value) assertions
    ClassOf,     \* a claim's first guard class, or WellFormed
    Measure,     \* the (entity, state_key) of a fact
    NumChunks,   \* chunks of the source, numbered in order
    WellFormed,
    Repairs,     \* bound: the claims a repair may say instead
    MaxCalls,    \* bound: tool calls of each run
    MaxMembers,  \* bound: members of a list payload
    MaxRuns      \* bound: ingests of the source

\* CATEGORY_MENUS: the steps the dispatcher may pick from, per guard class.
Menus ==
    [numeric_endpoint     |-> {"to_state", "pass_flagged", "drop_noise"},
     qualitative_endpoint |-> {"to_state", "to_scope", "drop_noise"},
     clause               |-> {"decompose", "to_state", "drop_noise"},
     list                 |-> {"decompose_per_member", "joint_with_scope",
                               "drop_noise"},
     compound_actor       |-> {"pairwise_joint_edge", "named_group",
                               "decompose", "drop_noise"},
     deictic              |-> {"to_source", "pass_flagged", "drop_noise"},
     self_loop            |-> {"missing_endpoint", "reflexive_state",
                               "drop_noise"},
     description_in_name  |-> {"normalize_name", "pass_flagged"}]

ASSUME PipelineAssumption ==
    /\ Claims \cap Facts = {}
    /\ Repairs \subseteq Claims
    /\ ClassOf \in [Claims -> DOMAIN Menus \cup {WellFormed}]
    /\ DOMAIN Measure = Facts
    /\ NumChunks \in Nat
    /\ MaxMembers \in Nat /\ MaxRuns \in Nat
    /\ MaxCalls \in [1 .. MaxRuns -> Nat]

\* What one executor each of dispatch() carries out.
StateSteps   == {"to_state", "reflexive_state"}
RenameSteps  == {"named_group", "normalize_name", "missing_endpoint"}
ListSteps    == {"decompose", "decompose_per_member", "pairwise_joint_edge",
                 "joint_with_scope"}
FlagSteps    == {"to_source", "pass_flagged"}
PayloadSteps == StateSteps \cup RenameSteps \cup ListSteps
                    \cup {"to_scope", "to_source"}

Chunks == 1 .. NumChunks

\* A candidate: what it says, where, and the proposal whose evidence it
\* carries -- its own, or the one it was repaired from.
Items(S) == [claim : S, chunk : Chunks, from : Claims \cup Facts]
TripleItems == Items(Claims)
StateItems  == Items(Facts)
AllItems    == TripleItems \cup StateItems
Reasons     == {"drop_noise", "invalid_payload", "reviewer"}

VARIABLES
    phase, run,
    chunk,        \* the chunk extraction is at
    candidates,   \* triples still to be classified
    kept,         \* triples that go on
    states,       \* states that go on
    flagged,      \* notes the reviewer is shown
    verdict,      \* of the review of this run
    at,           \* the write the commit is at
    rows, events, \* graph: triple rows and state rows
    log,          \* the rejected log
    proposed, filtered, base   \* history of the run: what was extracted, what
                               \* the gate dropped, the graph it started from

scratch == <<chunk, candidates, kept, states, flagged, at>>
history == <<proposed, filtered, base>>
graph   == <<rows, events>>
vars    == <<phase, run, scratch, verdict, graph, log, history>>

Init ==
    /\ phase = "idle" /\ run = 0
    /\ chunk = 1 /\ candidates = <<>> /\ kept = <<>> /\ states = <<>>
    /\ flagged = {} /\ at = 1 /\ verdict = "none"
    /\ rows = {} /\ events = {} /\ log = {}
    /\ proposed = {} /\ filtered = {} /\ base = <<rows, events>>

-----------------------------------------------------------------------------
(* Extraction *)

\* What a run holds in memory, when it starts and after it died.
Fresh ==
    /\ chunk' = 1 /\ candidates' = <<>> /\ kept' = <<>> /\ states' = <<>>
    /\ flagged' = {} /\ at' = 1 /\ proposed' = {} /\ filtered' = {}

Start ==
    /\ phase \in {"idle", "done"} /\ run < MaxRuns
    /\ phase' = "extract" /\ run' = run + 1
    /\ Fresh /\ verdict' = "none" /\ base' = graph
    /\ UNCHANGED <<graph, log>>

\* The valid tool calls of a chunk.  A malformed one only reaches
\* scratch.rejected, which nothing reads: it is the same as no call.
Calls ==
    UNION {[1 .. n -> Claims \cup Facts] :
              n \in 0 .. MaxCalls[run] - Len(candidates) - Len(states)}

Proposals(calls, S) ==
    LET mine == Picked(calls, {n \in DOMAIN calls : calls[n] \in S})
    IN  [n \in 1 .. Len(mine) |->
            [claim |-> mine[n], chunk |-> chunk, from |-> mine[n]]]

ExtractChunk ==
    /\ phase = "extract" /\ chunk \in Chunks
    /\ chunk' = chunk + 1
    /\ \E calls \in Calls :
        /\ candidates' = candidates \o Proposals(calls, Claims)
        /\ states' = states \o Proposals(calls, Facts)
        /\ proposed' = proposed \cup
              {[claim |-> calls[n], chunk |-> chunk] : n \in DOMAIN calls}
    /\ UNCHANGED <<phase, run, kept, flagged, at, verdict, graph, log,
                   filtered, base>>

ExtractDone ==
    /\ phase = "extract" /\ chunk \notin Chunks /\ phase' = "dispatch"
    /\ UNCHANGED <<run, scratch, verdict, graph, log, history>>

-----------------------------------------------------------------------------
(* Dispatch *)

Item       == Head(candidates)
GuardClass == ClassOf[Item.claim]
Menu       == Menus[GuardClass]

Record_NoiseOnly(items, why) ==
    IF why = "invalid_payload" THEN {}
    ELSE {[item |-> i, why |-> why, run |-> run] : i \in items}

\* What is written to the rejected log, by the dispatcher or by a review.
Record(items, why) == {[item |-> i, why |-> why, run |-> run] : i \in items}

Dispatching ==
    /\ phase = "dispatch" /\ candidates # <<>>
    /\ candidates' = Tail(candidates)
    /\ UNCHANGED <<phase, run, chunk, at, verdict, graph, history>>

\* Well-formed triples go on without a call.
Bypass ==
    /\ Dispatching /\ GuardClass = WellFormed
    /\ kept' = Append(kept, Item)
    /\ UNCHANGED <<states, flagged, log>>

\* The claim leaves the triples for the state path.
RouteToState ==
    /\ Dispatching /\ GuardClass # WellFormed
    /\ StateSteps \cap Menu # {}
    /\ \E f \in Facts : states' = Append(states, [Item EXCEPT !.claim = f])
    /\ UNCHANGED <<kept, flagged, log>>

\* to_scope keeps the claim, the other rewrites name another endpoint.  What
\* they give is not classified again.
Rewrite_Reenters ==
    /\ phase = "dispatch" /\ candidates # <<>>
    /\ GuardClass # WellFormed /\ RenameSteps \cap Menu # {}
    /\ \E c \in Repairs :
          candidates' = Append(Tail(candidates), [Item EXCEPT !.claim = c])
    /\ UNCHANGED <<phase, run, chunk, kept, states, flagged, at, verdict,
                   graph, log, history>>

Rewrite ==
    /\ Dispatching /\ GuardClass # WellFormed
    /\ \/ "to_scope" \in Menu /\ kept' = Append(kept, Item)
       \/ /\ RenameSteps \cap Menu # {}
          /\ \E c \in Repairs : kept' = Append(kept, [Item EXCEPT !.claim = c])
    /\ UNCHANGED <<states, flagged, log>>

\* _member_triples: the valid members go on with the proposal's evidence, each
\* other one leaves a record; at least one is valid.
Split ==
    /\ Dispatching /\ GuardClass # WellFormed
    /\ ListSteps \cap Menu # {}
    /\ \E n \in 1 .. MaxMembers, skipped \in BOOLEAN :
       \E members \in [1 .. n -> Repairs] :
          /\ kept' = kept \o
                [m \in 1 .. n |-> [Item EXCEPT !.claim = members[m]]]
          /\ log' = IF skipped THEN log \cup Record({Item}, "invalid_payload")
                    ELSE log
    /\ UNCHANGED <<states, flagged>>

Flag ==
    /\ Dispatching /\ GuardClass # WellFormed
    /\ FlagSteps \cap Menu # {}
    /\ flagged' = flagged \cup {Item}
    /\ UNCHANGED <<kept, states, log>>

\* Dropped: as noise, or because the payload lacks a field or what it repairs
\* to breaks the contract.  The record is all that is left of the proposal:
\* Dropped.flagged is never read.
Drop ==
    /\ Dispatching /\ GuardClass # WellFormed
    /\ \/ /\ "drop_noise" \in Menu
          /\ log' = log \cup Record({Item}, "drop_noise")
       \/ /\ PayloadSteps \cap Menu # {}
          /\ log' = log \cup Record({Item}, "invalid_payload")
    /\ UNCHANGED <<kept, states, flagged>>

\* A list step whose payload list is empty, or is no list: ContractError,
\* which nothing between _member_triples and the command catches.
EmptyMembers ==
    /\ phase = "dispatch" /\ candidates # <<>>
    /\ GuardClass # WellFormed /\ ListSteps \cap Menu # {}
    /\ phase' = "idle" /\ Fresh
    /\ UNCHANGED <<run, verdict, graph, log, base>>

DispatchDone ==
    /\ phase = "dispatch" /\ candidates = <<>> /\ phase' = "gate"
    /\ UNCHANGED <<run, scratch, verdict, graph, log, history>>

-----------------------------------------------------------------------------
(* Novelty gate: one verdict per claim, shared by its duplicates *)

ClaimsOf(items) == {items[n].claim : n \in DOMAIN items}

Admit_FirstOnly(items, novel) ==
    LET Repeats(n) == \E m \in 1 .. n - 1 : items[m].claim = items[n].claim
        in == {n \in DOMAIN items : Repeats(n) \/ items[n].claim \in novel}
    IN  Picked(items, in)

Admit(items, novel) ==
    Picked(items, {n \in DOMAIN items : items[n].claim \in novel})

Refused(items, novel) ==
    {items[n] : n \in {m \in DOMAIN items : items[m].claim \notin novel}}

GateTriples ==
    /\ phase = "gate" /\ phase' = "gate_states"
    /\ \E novel \in SUBSET ClaimsOf(kept) :
        /\ kept' = Admit(kept, novel)
        /\ filtered' = filtered \cup Refused(kept, novel)
    /\ UNCHANGED <<run, chunk, candidates, states, flagged, at, verdict,
                   graph, log, proposed, base>>

GateStates ==
    /\ phase = "gate_states" /\ phase' = "review"
    /\ \E novel \in SUBSET ClaimsOf(states) :
        /\ states' = Admit(states, novel)
        /\ filtered' = filtered \cup Refused(states, novel)
    /\ UNCHANGED <<run, chunk, candidates, kept, flagged, at, verdict,
                   graph, log, proposed, base>>

-----------------------------------------------------------------------------
(* Review and commit *)

Approve ==
    /\ phase = "review" /\ phase' = "commit" /\ verdict' = "approved"
    /\ UNCHANGED <<run, scratch, graph, log, history>>

\* Every record of a rejection holds the delta: all triples, and no state.
Reject_CommitsStates ==
    /\ phase = "review" /\ phase' = "commit_states" /\ verdict' = "rejected"
    /\ log' = log \cup Record(ToSet(kept), "reviewer")
    /\ UNCHANGED <<run, scratch, graph, history>>

Reject ==
    /\ phase = "review" /\ phase' = "done" /\ verdict' = "rejected"
    /\ log' = log \cup Record(ToSet(kept), "reviewer")
    /\ UNCHANGED <<run, scratch, graph, history>>

\* commit_delta: one row per (triple, source), kept if it is there.
CommitRow ==
    /\ phase = "commit"
    /\ IF at <= Len(kept)
       THEN /\ rows' = rows \cup {<<kept[at].claim, kept[at].chunk>>}
            /\ at' = at + 1 /\ UNCHANGED phase
       ELSE rows' = rows /\ at' = 1 /\ phase' = "commit_states"
    /\ UNCHANGED <<run, chunk, candidates, kept, states, flagged, verdict,
                   events, log, history>>

\* A state row is identified by (entity, state_key, source), kept if there.
Recorded(item) ==
    \E e \in events : Measure[e[1]] = Measure[item.claim] /\ e[2] = item.chunk

\* _commit_states.
CommitState ==
    /\ phase = "commit_states"
    /\ IF at <= Len(states)
       THEN /\ events' = IF Recorded(states[at]) THEN events
                         ELSE events \cup {<<states[at].claim, states[at].chunk>>}
            /\ at' = at + 1 /\ UNCHANGED phase
       ELSE events' = events /\ at' = 1 /\ phase' = "done"
    /\ UNCHANGED <<run, chunk, candidates, kept, states, flagged, verdict,
                   rows, log, history>>

-----------------------------------------------------------------------------
(* Failure: a service is out, the prompt is interrupted, the process dies. *)

Outage ==
    /\ phase \notin {"idle", "done"}
    /\ phase' = "idle" /\ Fresh
    /\ UNCHANGED <<run, verdict, graph, log, base>>

Dispatch == \/ Bypass \/ RouteToState \/ Rewrite \/ Split \/ Flag \/ Drop
            \/ EmptyMembers \/ DispatchDone

Step ==
    \/ ExtractChunk \/ ExtractDone \/ Dispatch
    \/ GateTriples \/ GateStates
    \/ Approve \/ Reject \/ CommitRow \/ CommitState

Next == Start \/ Step \/ Outage

Spec == Init /\ [][Next]_vars

\* A run is one sequential program whose calls time out and whose reviewer
\* answers: it goes on.  Whether another run starts is up to the user.
LiveSpec == Spec /\ WF_vars(Step)

-----------------------------------------------------------------------------
(* Properties *)

\* Each variable has its type, the triples are all dispatched before the gate
\* sees one (ADR-0008: shaping before admission), and only an approved run
\* is committing.
TypeOK ==
    /\ phase \in {"idle", "extract", "dispatch", "gate", "gate_states",
                  "review", "commit", "commit_states", "done"}
    /\ run \in 0 .. MaxRuns /\ chunk \in 1 .. NumChunks + 1
    /\ candidates \in Seq(TripleItems) /\ kept \in Seq(TripleItems)
    /\ states \in Seq(StateItems) /\ flagged \subseteq TripleItems
    /\ verdict \in {"none", "approved", "rejected"} /\ at \in Nat \ {0}
    /\ rows \subseteq Claims \X Chunks /\ events \subseteq Facts \X Chunks
    /\ log \subseteq [item : AllItems, why : Reasons, run : 1 .. MaxRuns]
    /\ phase \in {"gate", "gate_states", "review", "commit", "commit_states"}
          => candidates = <<>>
    /\ phase \in {"commit", "commit_states"} => verdict = "approved"

LoggedNow == {r.item : r \in {q \in log : q.run = run}}

Landed(item) ==
    IF item.claim \in Claims THEN <<item.claim, item.chunk>> \in rows
    ELSE Recorded(item)

\* "Nothing is silently lost" (ADR-0008): when an approved run ends, every
\* proposal that extraction accepted has left something behind -- itself or a
\* repair of it in the graph, a count at the gate, a note to the reviewer or a
\* record in the log -- and everything the gate let through is in the graph,
\* also when an earlier run died after some of its writes.  When a rejected
\* run ends, the log has every triple that was up for review.
NothingLost ==
    phase = "done" =>
        IF verdict = "approved"
        THEN /\ \A i \in ToSet(kept) \cup ToSet(states) : Landed(i)
             /\ \A p \in proposed :
                  \E i \in ToSet(kept) \cup ToSet(states) \cup filtered
                              \cup flagged \cup LoggedNow :
                      i.from = p.claim /\ i.chunk = p.chunk
        ELSE ToSet(kept) \subseteq LoggedNow

\* The rows and states of the graph are as the run found them until its delta is
\* approved: an outage of the extraction model, of the dispatcher or of the novelty
\* gate, and a rejection, leave none (orchestrator.py: "no partial state").
\* Aliases are Resolution's, and written earlier.
GraphWaitsForApproval == graph # base => verdict = "approved"

\* What the gate called noise or common sense is not written by that run, in
\* whichever chunk it was said again.
FilteredStaysOut ==
    \A i \in filtered :
        LET row == <<i.claim, i.chunk>>
        IN  /\ row \in rows => row \in base[1]
            /\ row \in events => row \in base[2]

\* A run that has started ends: a repair is not dispatched again, so the
\* dispatcher cannot keep a run going by repairing one mis-shape to another.
RunEnds == phase = "extract" ~> phase \in {"idle", "done"}
=============================================================================
