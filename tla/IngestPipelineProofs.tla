------------------------- MODULE IngestPipelineProofs -------------------------
(***************************************************************************)
(* For every source, every answer of the services and every number of      *)
(* runs: the graph of a run is the one it started from until its delta is  *)
(* approved, nothing extracted is lost, and nothing refused is written.    *)
(* And of the resolver a run uses: it does not change its mind within a    *)
(* document, and an approved run leaves every alias it found.              *)
(***************************************************************************)
EXTENDS IngestPipeline, Resolution, DataLemmas, TLAPS

\* GraphWaitsForApproval is not inductive: that a commit step runs under an
\* approval has to be remembered from the review on, and a review that rejects
\* has to start without the verdict of an earlier one.
CommitIsApproved ==
    phase \in {"commit", "commit_states"} => verdict = "approved"

ReviewIsOpen ==
    phase \in {"extract", "dispatch", "gate", "gate_states", "review"}
        => verdict = "none"

WaitInv == GraphWaitsForApproval /\ CommitIsApproved /\ ReviewIsOpen

LEMMA WaitInit == Init => WaitInv
  BY DEF Init, WaitInv, GraphWaitsForApproval, CommitIsApproved, ReviewIsOpen,
        graph

\* Every step but those of a commit leaves the graph, the one it is compared
\* with, and the verdict alone -- or starts a run or ends a review.
LEMMA WaitStep == WaitInv /\ [Next]_vars => WaitInv'
<1> SUFFICES ASSUME WaitInv, [Next]_vars
             PROVE  WaitInv'
  OBVIOUS
<1> USE DEF WaitInv, GraphWaitsForApproval, CommitIsApproved, ReviewIsOpen
<1>1. CASE Start
  BY <1>1 DEF Start, graph
<1>2. CASE ExtractChunk \/ ExtractDone
  BY <1>2 DEF ExtractChunk, ExtractDone, graph, history
<1>3. CASE Dispatch
  <2>1. CASE \/ Bypass \/ RouteToState \/ Rewrite \/ Split \/ Flag \/ Drop
    <3>1. Dispatching
      BY <2>1 DEF Bypass, RouteToState, Rewrite, Split, Flag, Drop
    <3> QED  BY <3>1 DEF Dispatching, graph, history
  <2>2. CASE EmptyMembers
    BY <2>2 DEF EmptyMembers, graph, history
  <2>3. CASE DispatchDone
    BY <2>3 DEF DispatchDone, graph, history
  <2> QED  BY <1>3, <2>1, <2>2, <2>3 DEF Dispatch
<1>4. CASE GateTriples \/ GateStates
  BY <1>4 DEF GateTriples, GateStates, graph
<1>5. CASE Approve
  BY <1>5 DEF Approve
<1>6. CASE Reject
  \* A review precedes every commit, so the graph is still the base.
  BY <1>6 DEF Reject, graph, history
<1>7. CASE CommitRow \/ CommitState
  <2>1. /\ verdict = "approved" /\ verdict' = verdict
        /\ phase' \in {"commit", "commit_states", "done"}
    BY <1>7 DEF CommitRow, CommitState
  <2> QED  BY <2>1
<1>8. CASE Outage
  BY <1>8 DEF Outage, graph, history
<1>9. CASE UNCHANGED vars
  BY <1>9 DEF vars, graph, history
<1> QED
  BY <1>1, <1>2, <1>3, <1>4, <1>5, <1>6, <1>7, <1>8, <1>9 DEF Next, Step

\* No row and no state is written before the reviewer approved the run's
\* delta, and none by a run that is rejected or that an outage ends first.
THEOREM NothingBeforeApproval == Spec => []GraphWaitsForApproval
<1>1. WaitInv => GraphWaitsForApproval
  BY DEF WaitInv
<1> QED  BY WaitInit, WaitStep, <1>1, PTL DEF Spec

-----------------------------------------------------------------------------
(* Types *)

Phases == {"idle", "extract", "dispatch", "gate", "gate_states", "review",
           "commit", "commit_states", "done"}

MemoryTypes ==
    /\ candidates \in Seq(TripleItems) /\ kept \in Seq(TripleItems)
    /\ states \in Seq(StateItems) /\ flagged \subseteq TripleItems
    /\ filtered \subseteq AllItems
    /\ proposed \subseteq [claim : Claims \cup Facts, chunk : Chunks]
    /\ chunk \in 1 .. NumChunks + 1 /\ at \in Nat \ {0}

StoreTypes ==
    /\ rows \subseteq Claims \X Chunks /\ events \subseteq Facts \X Chunks
    /\ log \subseteq [item : AllItems, why : Reasons, run : 1 .. MaxRuns]

ControlTypes ==
    /\ phase \in Phases
    /\ run \in 0 .. MaxRuns /\ (phase # "idle" => run \in 1 .. MaxRuns)
    /\ verdict \in {"none", "approved", "rejected"}

\* Extraction and dispatch come to an end before the gate, and a commit starts
\* at the first write.
InOrder ==
    /\ phase \notin {"idle", "extract", "dispatch"} => candidates = <<>>
    /\ phase \notin {"commit", "commit_states"} => at = 1

PTypes == MemoryTypes /\ StoreTypes /\ ControlTypes /\ InOrder

\* An item repaired to say something else is still an item, of its chunk and
\* from the same proposal.
LEMMA RepairedItem ==
    ASSUME NEW i \in TripleItems, NEW c
    PROVE  /\ c \in Claims => [i EXCEPT !.claim = c] \in TripleItems
           /\ c \in Facts => [i EXCEPT !.claim = c] \in StateItems
           /\ [i EXCEPT !.claim = c].from = i.from
           /\ [i EXCEPT !.claim = c].chunk = i.chunk
           /\ [i EXCEPT !.claim = c].claim = c
  BY DEF TripleItems, StateItems, Items

LEMMA ProposalsAreItems ==
    ASSUME NEW S \in SUBSET (Claims \cup Facts),
           NEW calls \in Seq(Claims \cup Facts), chunk \in Chunks
    PROVE  /\ Proposals(calls, S) \in Seq(Items(S))
           /\ \A n \in DOMAIN calls : calls[n] \in S =>
                 \E i \in ToSet(Proposals(calls, S)) : i.from = calls[n] /\ i.chunk = chunk
  <1> DEFINE in == {n \in DOMAIN calls : calls[n] \in S}
             mine == Picked(calls, in)
             item(c) == [claim |-> c, chunk |-> chunk, from |-> c]
             out == [n \in 1 .. Len(mine) |-> item(mine[n])]
  <1>1. in \in SUBSET DOMAIN calls
    OBVIOUS
  <1>2. mine \in Seq(Claims \cup Facts) /\ ToSet(mine) = {calls[n] : n \in in}
    BY <1>1, PickedMembers, PickedSet
  <1> HIDE DEF mine
  <1>3. /\ Len(mine) \in Nat /\ DOMAIN mine = 1 .. Len(mine)
        /\ \A n \in 1 .. Len(mine) : mine[n] \in S
    BY <1>2 DEF ToSet
  <1>4. out \in Seq(Items(S))
    BY <1>3 DEF Items
  <1>5. ASSUME NEW n \in DOMAIN calls, calls[n] \in S
        PROVE  \E i \in ToSet(out) : i.from = calls[n] /\ i.chunk = chunk
    <2>1. PICK m \in 1 .. Len(mine) : mine[m] = calls[n]
      BY <1>2, <1>3, <1>5 DEF ToSet
    <2>2. out[m] \in ToSet(out) /\ out[m] = item(calls[n])
      BY <1>3, <2>1 DEF ToSet
    <2> QED BY <2>2
  <1>6. Proposals(calls, S) = out
    BY DEF Proposals, mine
  <1> QED BY <1>4, <1>5, <1>6

LEMMA AdmitSplits ==
    ASSUME NEW T, NEW items \in Seq(T), NEW novel
    PROVE  /\ Admit(items, novel) \in Seq(T)
           /\ ToSet(Admit(items, novel)) = {i \in ToSet(items) : i.claim \in novel}
           /\ Refused(items, novel) = {i \in ToSet(items) : i.claim \notin novel}
  <1> DEFINE in == {n \in DOMAIN items : items[n].claim \in novel}
  <1>1. in \in SUBSET DOMAIN items
    OBVIOUS
  <1>2. /\ Admit(items, novel) \in Seq(T)
        /\ ToSet(Admit(items, novel)) = {items[n] : n \in in}
    BY <1>1, PickedMembers, PickedSet DEF Admit
  <1> QED BY <1>2 DEF Refused, ToSet

LEMMA CallsAreCalls ==
    ASSUME PTypes, phase = "extract", NEW calls \in Calls
    PROVE  calls \in Seq(Claims \cup Facts)
  <1>1. MaxCalls[run] - Len(candidates) - Len(states) \in Int
    BY PipelineAssumption DEF PTypes, ControlTypes, MemoryTypes
  <1>2. PICK n \in 0 .. MaxCalls[run] - Len(candidates) - Len(states) :
           calls \in [1 .. n -> Claims \cup Facts]
    BY DEF Calls
  <1> QED BY <1>1, <1>2

LEMMA FreshTypes ==
    ASSUME Fresh PROVE MemoryTypes' /\ at' = 1 /\ candidates' = <<>>
  BY PipelineAssumption DEF Fresh, MemoryTypes

LEMMA TypesInit == Init => PTypes
  BY PipelineAssumption DEF Init, PTypes, MemoryTypes, StoreTypes, ControlTypes, InOrder, Phases

LEMMA DispatchTypes ==
    ASSUME PTypes, Dispatching,
           kept' \in Seq(TripleItems), states' \in Seq(StateItems), flagged' \subseteq TripleItems,
           log' \subseteq [item : AllItems, why : Reasons, run : 1 .. MaxRuns]
    PROVE  PTypes'
  <1>1. candidates' \in Seq(TripleItems)
    BY DEF Dispatching, PTypes, MemoryTypes
  <1> QED BY <1>1 DEF Dispatching, graph, history, PTypes, MemoryTypes, StoreTypes,
                      ControlTypes, InOrder

LEMMA RecordTypes ==
    ASSUME NEW items \in SUBSET AllItems, NEW why \in Reasons, run \in 1 .. MaxRuns
    PROVE  Record(items, why) \subseteq [item : AllItems, why : Reasons, run : 1 .. MaxRuns]
  BY DEF Record

LEMMA TypesStep == PTypes /\ [Next]_vars => PTypes'
<1> SUFFICES ASSUME PTypes, [Next]_vars PROVE PTypes'
  OBVIOUS
<1>1. CASE Start
  <2>1. MemoryTypes' /\ at' = 1 /\ candidates' = <<>>
    BY <1>1, FreshTypes DEF Start
  <2>2. run' \in 1 .. MaxRuns
    BY <1>1, PipelineAssumption DEF Start, PTypes, ControlTypes
  <2> QED BY <1>1, <2>1, <2>2 DEF Start, graph, PTypes, StoreTypes, ControlTypes, InOrder, Phases
<1>2. CASE ExtractChunk
  <2>1. PICK calls \in Calls :
          /\ candidates' = candidates \o Proposals(calls, Claims)
          /\ states' = states \o Proposals(calls, Facts)
          /\ proposed' = proposed \cup
                {[claim |-> calls[n], chunk |-> chunk] : n \in DOMAIN calls}
    BY <1>2 DEF ExtractChunk
  <2>2. calls \in Seq(Claims \cup Facts) /\ chunk \in Chunks
    BY <1>2, CallsAreCalls DEF ExtractChunk
  <2>3. /\ Proposals(calls, Claims) \in Seq(TripleItems)
        /\ Proposals(calls, Facts) \in Seq(StateItems)
    BY <2>2, ProposalsAreItems DEF TripleItems, StateItems
  <2>4. candidates' \in Seq(TripleItems) /\ states' \in Seq(StateItems)
    BY <2>1, <2>3 DEF PTypes, MemoryTypes
  <2>5. proposed' \subseteq [claim : Claims \cup Facts, chunk : Chunks]
    <3>1. \A n \in DOMAIN calls : calls[n] \in Claims \cup Facts
      BY <2>2
    <3> QED BY <2>1, <2>2, <3>1 DEF PTypes, MemoryTypes
  <2>6. chunk' \in 1 .. NumChunks + 1
    BY <1>2, PipelineAssumption DEF ExtractChunk, Chunks
  <2> QED BY <1>2, <2>4, <2>5, <2>6 DEF ExtractChunk, graph, PTypes, MemoryTypes, StoreTypes,
                                      ControlTypes, InOrder
<1>3. CASE ExtractDone \/ DispatchDone
  BY <1>3 DEF ExtractDone, DispatchDone, scratch, graph, history, PTypes, MemoryTypes,
             StoreTypes, ControlTypes, InOrder, Phases
<1>4. CASE \/ Bypass \/ RouteToState \/ Rewrite \/ Split \/ Flag \/ Drop
  <2>1. Dispatching /\ run \in 1 .. MaxRuns
    BY <1>4 DEF Bypass, RouteToState, Rewrite, Split, Flag, Drop, Dispatching,
                PTypes, ControlTypes
  <2>2. Item \in TripleItems /\ {Item} \in SUBSET AllItems
    BY <2>1 DEF Dispatching, Item, PTypes, MemoryTypes, AllItems
  <2>3. kept' \in Seq(TripleItems)
    <3>1. CASE UNCHANGED kept
      BY <3>1 DEF PTypes, MemoryTypes
    <3>2. CASE Bypass
      BY <2>2, <3>2 DEF Bypass, PTypes, MemoryTypes
    <3>3. CASE Rewrite
      <4>1. \A c \in Repairs : [Item EXCEPT !.claim = c] \in TripleItems
        BY <2>2, RepairedItem, PipelineAssumption
      <4>2. \E i \in TripleItems : kept' = Append(kept, i)
        BY <2>2, <3>3, <4>1 DEF Rewrite
      <4> QED BY <4>2 DEF PTypes, MemoryTypes
    <3>4. CASE Split
      <4>0. PICK n \in 1 .. MaxMembers : \E members \in [1 .. n -> Repairs] :
              kept' = kept \o [m \in 1 .. n |-> [Item EXCEPT !.claim = members[m]]]
        BY <3>4 DEF Split
      <4>1. PICK members \in [1 .. n -> Repairs] :
              kept' = kept \o [m \in 1 .. n |-> [Item EXCEPT !.claim = members[m]]]
        BY <4>0
      <4>2. n \in Nat /\ \A m \in 1 .. n : [Item EXCEPT !.claim = members[m]] \in TripleItems
        BY <2>2, RepairedItem, PipelineAssumption
      <4>3. [m \in 1 .. n |-> [Item EXCEPT !.claim = members[m]]] \in Seq(TripleItems)
        BY <4>2
      <4> QED BY <4>1, <4>3 DEF PTypes, MemoryTypes
    <3> QED BY <1>4, <3>1, <3>2, <3>3, <3>4 DEF RouteToState, Flag, Drop
  <2>4. states' \in Seq(StateItems)
    <3>1. CASE UNCHANGED states
      BY <3>1 DEF PTypes, MemoryTypes
    <3>2. CASE RouteToState
      <4>1. \A f \in Facts : [Item EXCEPT !.claim = f] \in StateItems
        BY <2>2, RepairedItem
      <4> QED BY <3>2, <4>1 DEF RouteToState, PTypes, MemoryTypes
    <3> QED BY <1>4, <3>1, <3>2 DEF Bypass, Rewrite, Split, Flag, Drop
  <2>5. flagged' \subseteq TripleItems
    BY <1>4, <2>2 DEF Bypass, RouteToState, Rewrite, Split, Flag, Drop, PTypes, MemoryTypes
  <2>6. log' \subseteq [item : AllItems, why : Reasons, run : 1 .. MaxRuns]
    <3>1. /\ Record({Item}, "invalid_payload")
                \subseteq [item : AllItems, why : Reasons, run : 1 .. MaxRuns]
          /\ Record({Item}, "drop_noise")
                \subseteq [item : AllItems, why : Reasons, run : 1 .. MaxRuns]
      BY <2>1, <2>2, RecordTypes DEF Reasons
    <3> HIDE DEF Record
    <3>2. \/ log' = log \/ log' = log \cup Record({Item}, "invalid_payload")
          \/ log' = log \cup Record({Item}, "drop_noise")
      BY <1>4 DEF Bypass, RouteToState, Rewrite, Split, Flag, Drop
    <3> QED BY <3>1, <3>2 DEF PTypes, StoreTypes
  <2> QED BY <2>1, <2>3, <2>4, <2>5, <2>6, DispatchTypes
<1>5. CASE EmptyMembers \/ Outage
  <2>1. MemoryTypes' /\ at' = 1 /\ candidates' = <<>>
    BY <1>5, FreshTypes DEF EmptyMembers, Outage
  <2> QED BY <1>5, <2>1 DEF EmptyMembers, Outage, graph, PTypes, StoreTypes, ControlTypes,
                          InOrder, Phases
<1>6. CASE GateTriples
  <2>1. PICK novel \in SUBSET ClaimsOf(kept) :
          /\ kept' = Admit(kept, novel)
          /\ filtered' = filtered \cup Refused(kept, novel)
    BY <1>6 DEF GateTriples
  <2>2. kept' \in Seq(TripleItems) /\ Refused(kept, novel) \subseteq TripleItems
    BY <2>1, AdmitSplits, ToSetFinite DEF PTypes, MemoryTypes
  <2> QED BY <1>6, <2>1, <2>2 DEF GateTriples, graph, AllItems, PTypes, MemoryTypes,
                                 StoreTypes, ControlTypes, InOrder, Phases
<1>7. CASE GateStates
  <2>1. PICK novel \in SUBSET ClaimsOf(states) :
          /\ states' = Admit(states, novel)
          /\ filtered' = filtered \cup Refused(states, novel)
    BY <1>7 DEF GateStates
  <2>2. states' \in Seq(StateItems) /\ Refused(states, novel) \subseteq StateItems
    BY <2>1, AdmitSplits, ToSetFinite DEF PTypes, MemoryTypes
  <2> QED BY <1>7, <2>1, <2>2 DEF GateStates, graph, AllItems, PTypes, MemoryTypes,
                                 StoreTypes, ControlTypes, InOrder, Phases
<1>8. CASE Approve
  BY <1>8 DEF Approve, scratch, graph, history, PTypes, MemoryTypes, StoreTypes, ControlTypes,
             InOrder, Phases
<1>9. CASE Reject
  <2>1. ToSet(kept) \in SUBSET AllItems /\ run \in 1 .. MaxRuns
    BY <1>9, ToSetFinite DEF Reject, PTypes, MemoryTypes, ControlTypes, AllItems
  <2>2. Record(ToSet(kept), "reviewer")
            \subseteq [item : AllItems, why : Reasons, run : 1 .. MaxRuns]
    BY <2>1, RecordTypes DEF Reasons
  <2> HIDE DEF Record
  <2> QED BY <1>9, <2>2 DEF Reject, scratch, graph, history, PTypes, MemoryTypes, StoreTypes,
                          ControlTypes, InOrder, Phases
<1>10. CASE CommitRow
  <2>1. rows' \subseteq Claims \X Chunks
    <3>1. CASE at <= Len(kept)
      <4>1. kept[at] \in TripleItems
        BY <3>1 DEF PTypes, MemoryTypes
      <4>2. <<kept[at].claim, kept[at].chunk>> \in Claims \X Chunks
        BY <4>1 DEF TripleItems, Items
      <4> QED BY <1>10, <3>1, <4>2 DEF CommitRow, PTypes, StoreTypes
    <3> QED BY <1>10, <3>1 DEF CommitRow, PTypes, StoreTypes
  <2>2. at' \in Nat \ {0}
    BY <1>10 DEF CommitRow, PTypes, MemoryTypes
  <2> QED BY <1>10, <2>1, <2>2 DEF CommitRow, history, PTypes, MemoryTypes, StoreTypes,
                                  ControlTypes, InOrder, Phases
<1>11. CASE CommitState
  <2>1. events' \subseteq Facts \X Chunks
    <3>1. CASE at <= Len(states)
      <4>1. states[at] \in StateItems
        BY <3>1 DEF PTypes, MemoryTypes
      <4>2. <<states[at].claim, states[at].chunk>> \in Facts \X Chunks
        BY <4>1 DEF StateItems, Items
      <4> QED BY <1>11, <3>1, <4>2 DEF CommitState, PTypes, StoreTypes
    <3> QED BY <1>11, <3>1 DEF CommitState, PTypes, StoreTypes
  <2>2. at' \in Nat \ {0}
    BY <1>11 DEF CommitState, PTypes, MemoryTypes
  <2> QED BY <1>11, <2>1, <2>2 DEF CommitState, history, PTypes, MemoryTypes, StoreTypes,
                                  ControlTypes, InOrder, Phases
<1>12. CASE UNCHANGED vars
  BY <1>12 DEF vars, scratch, graph, history, PTypes, MemoryTypes, StoreTypes, ControlTypes,
              InOrder
<1> QED
  BY <1>1, <1>2, <1>3, <1>4, <1>5, <1>6, <1>7, <1>8, <1>9, <1>10, <1>11, <1>12
  DEF Next, Step, Dispatch

LEMMA TypesReach == PTypes /\ CommitIsApproved => TypeOK
  BY DEF PTypes, MemoryTypes, StoreTypes, ControlTypes, InOrder, Phases, TypeOK,
         CommitIsApproved

\* Every candidate was dispatched before the gate sees one, whatever the
\* dispatcher answers, and no write runs without an approval.
THEOREM DispatchPrecedesGate == Spec => []TypeOK
<1>1. PTypes /\ WaitInv => TypeOK
  BY TypesReach DEF WaitInv
<1> QED  BY TypesInit, TypesStep, WaitInit, WaitStep, <1>1, PTL DEF Spec

-----------------------------------------------------------------------------
(* What the gate refused *)

\* A refused claim is said by nothing that goes on.
FilterInv ==
    /\ phase \in {"extract", "dispatch", "gate"} => filtered = {}
    /\ phase = "gate_states" =>
          /\ filtered \subseteq TripleItems
          /\ \A i \in filtered, k \in ToSet(kept) : i.claim # k.claim
    /\ phase \in {"review", "commit", "commit_states"} =>
          \A i \in filtered, k \in ToSet(kept) \cup ToSet(states) : i.claim # k.claim
    /\ FilteredStaysOut

LEMMA FilterInit == Init => FilterInv
  BY DEF Init, FilterInv, FilteredStaysOut

\* Until a write, the graph is the one the run started from.
LEMMA BaseStaysOut ==
    ASSUME rows = base[1], events = base[2] PROVE FilteredStaysOut
  BY DEF FilteredStaysOut

LEMMA FilterStep == PTypes /\ WaitInv /\ FilterInv /\ [Next]_vars => FilterInv'
<1> SUFFICES ASSUME PTypes, WaitInv, FilterInv, [Next]_vars PROVE FilterInv'
  OBVIOUS
<1>1. CASE Start \/ EmptyMembers \/ Outage
  <2>1. filtered' = {}
    BY <1>1 DEF Start, EmptyMembers, Outage, Fresh
  <2> QED BY <2>1 DEF FilterInv, FilteredStaysOut
<1>2. CASE ExtractChunk
  BY <1>2 DEF ExtractChunk, graph, FilterInv, FilteredStaysOut
<1>3. CASE ExtractDone \/ DispatchDone
  BY <1>3 DEF ExtractDone, DispatchDone, graph, history, FilterInv, FilteredStaysOut
<1>4. CASE \/ Bypass \/ RouteToState \/ Rewrite \/ Split \/ Flag \/ Drop
  <2>1. Dispatching
    BY <1>4 DEF Bypass, RouteToState, Rewrite, Split, Flag, Drop
  <2> QED BY <2>1 DEF Dispatching, graph, history, FilterInv, FilteredStaysOut
<1>5. CASE GateTriples
  <2>1. PICK novel \in SUBSET ClaimsOf(kept) :
          /\ kept' = Admit(kept, novel)
          /\ filtered' = filtered \cup Refused(kept, novel)
    BY <1>5 DEF GateTriples
  <2>2. /\ ToSet(kept') = {i \in ToSet(kept) : i.claim \in novel}
        /\ filtered' = {i \in ToSet(kept) : i.claim \notin novel}
        /\ ToSet(kept) \subseteq TripleItems
    <3>1. kept \in Seq(TripleItems) /\ filtered = {}
      BY <1>5 DEF GateTriples, PTypes, MemoryTypes, FilterInv
    <3> QED BY <2>1, <3>1, AdmitSplits, ToSetFinite
  <2>3. FilteredStaysOut'
    <3>1. rows' = base'[1] /\ events' = base'[2]
      BY <1>5 DEF GateTriples, graph, WaitInv, ReviewIsOpen, GraphWaitsForApproval
    <3> QED BY <3>1 DEF FilteredStaysOut
  <2> QED BY <1>5, <2>2, <2>3 DEF GateTriples, FilterInv
<1>6. CASE GateStates
  <2>1. PICK novel \in SUBSET ClaimsOf(states) :
          /\ states' = Admit(states, novel)
          /\ filtered' = filtered \cup Refused(states, novel)
    BY <1>6 DEF GateStates
  <2>2. /\ ToSet(states') = {i \in ToSet(states) : i.claim \in novel}
        /\ filtered' = filtered \cup {i \in ToSet(states) : i.claim \notin novel}
        /\ ToSet(states) \subseteq StateItems /\ ToSet(kept) \subseteq TripleItems
    <3>1. states \in Seq(StateItems) /\ kept \in Seq(TripleItems)
      BY DEF PTypes, MemoryTypes
    <3> QED BY <2>1, <3>1, AdmitSplits, ToSetFinite
  <2>3. \A i \in TripleItems, j \in StateItems : i.claim # j.claim
    BY PipelineAssumption DEF TripleItems, StateItems, Items
  <2>4. \A i \in filtered', k \in ToSet(kept') \cup ToSet(states') : i.claim # k.claim
    BY <1>6, <2>2, <2>3 DEF GateStates, FilterInv
  <2>5. FilteredStaysOut'
    <3>1. rows' = base'[1] /\ events' = base'[2]
      BY <1>6 DEF GateStates, graph, WaitInv, ReviewIsOpen, GraphWaitsForApproval
    <3> QED BY <3>1 DEF FilteredStaysOut
  <2> QED BY <1>6, <2>4, <2>5 DEF GateStates, FilterInv
<1>7. CASE Approve
  BY <1>7 DEF Approve, scratch, graph, history, FilterInv, FilteredStaysOut
<1>8. CASE Reject
  BY <1>8 DEF Reject, scratch, graph, history, FilterInv, FilteredStaysOut
<1>9. CASE CommitRow
  <2>1. CASE at <= Len(kept)
    <3>1. kept[at] \in ToSet(kept)
      BY <2>1 DEF ToSet, PTypes, MemoryTypes
    <3>2. \A i \in filtered : i.claim # kept[at].claim
      BY <1>9, <3>1 DEF CommitRow, FilterInv
    <3>3. /\ rows' = rows \cup {<<kept[at].claim, kept[at].chunk>>}
          /\ UNCHANGED <<events, base, filtered, kept, states, phase>>
      BY <1>9, <2>1 DEF CommitRow, history
    <3> QED BY <3>2, <3>3 DEF FilterInv, FilteredStaysOut
  <2>2. CASE ~(at <= Len(kept))
    BY <1>9, <2>2 DEF CommitRow, history, FilterInv, FilteredStaysOut
  <2> QED BY <2>1, <2>2
<1>10. CASE CommitState
  <2>1. CASE at <= Len(states)
    <3>1. states[at] \in ToSet(states)
      BY <2>1 DEF ToSet, PTypes, MemoryTypes
    <3>2. \A i \in filtered : i.claim # states[at].claim
      BY <1>10, <3>1 DEF CommitState, FilterInv
    <3>3. /\ events' \subseteq events \cup {<<states[at].claim, states[at].chunk>>}
          /\ UNCHANGED <<rows, base, filtered, kept, states, phase>>
      BY <1>10, <2>1 DEF CommitState, history
    <3> QED BY <3>2, <3>3 DEF FilterInv, FilteredStaysOut
  <2>2. CASE ~(at <= Len(states))
    BY <1>10, <2>2 DEF CommitState, history, FilterInv, FilteredStaysOut
  <2> QED BY <2>1, <2>2
<1>11. CASE UNCHANGED vars
  BY <1>11 DEF vars, scratch, graph, history, FilterInv, FilteredStaysOut
<1> QED
  BY <1>1, <1>2, <1>3, <1>4, <1>5, <1>6, <1>7, <1>8, <1>9, <1>10, <1>11
  DEF Next, Step, Dispatch

\* What the gate refused is not written by that run, in whichever chunk it was
\* said again, and in whatever order the dispatcher's repairs bring it back.
THEOREM RefusedStaysOut == Spec => []FilteredStaysOut
<1>1. FilterInv => FilteredStaysOut
  BY DEF FilterInv
<1> QED
  BY TypesInit, TypesStep, WaitInit, WaitStep, FilterInit, FilterStep, <1>1, PTL DEF Spec

-----------------------------------------------------------------------------
(* Nothing is lost *)

\* All that is left of the proposals while the run goes on.
Trail == ToSet(candidates) \cup ToSet(kept) \cup ToSet(states) \cup filtered
            \cup flagged \cup LoggedNow

Stems(i, p) == i.from = p.claim /\ i.chunk = p.chunk

\* Every proposal is somewhere, under its own claim or a repair of it, from
\* the call of the extraction model to the last write.
AllTraced == \A p \in proposed : \E i \in Trail : Stems(i, p)

\* A commit has written what lies behind it; a rejection has logged the delta.
Progress ==
    /\ phase = "commit" =>
          \A n \in DOMAIN kept : n < at => Landed(kept[n])
    /\ phase = "commit_states" =>
          /\ \A n \in DOMAIN kept : Landed(kept[n])
          /\ \A n \in DOMAIN states : n < at => Landed(states[n])
    /\ phase = "done" /\ verdict = "approved" =>
          /\ \A n \in DOMAIN kept : Landed(kept[n])
          /\ \A n \in DOMAIN states : Landed(states[n])
    /\ phase = "done" /\ verdict # "approved" => ToSet(kept) \subseteq LoggedNow

TraceInv == AllTraced /\ Progress

\* A step that leaves, for each trace, one of the same proposal in the same
\* chunk loses nothing.
LEMMA TracesCarry ==
    ASSUME AllTraced, proposed' = proposed,
           \A i \in Trail : \E j \in Trail' : j.from = i.from /\ j.chunk = i.chunk
    PROVE  AllTraced'
  BY DEF AllTraced, Stems

\* The dispatcher replaces the item in front, and only it.
LEMMA DispatchLeavesTrace ==
    ASSUME PTypes, \/ Bypass \/ RouteToState \/ Rewrite \/ Split \/ Flag \/ Drop
    PROVE  /\ ToSet(candidates) = {Item} \cup ToSet(candidates')
           /\ ToSet(kept) \subseteq ToSet(kept')
           /\ ToSet(states) \subseteq ToSet(states')
           /\ flagged \subseteq flagged' /\ LoggedNow \subseteq LoggedNow'
           /\ \E j \in ToSet(kept') \cup ToSet(states') \cup flagged' \cup LoggedNow' :
                 j.from = Item.from /\ j.chunk = Item.chunk
<1>1. Dispatching
  BY DEF Bypass, RouteToState, Rewrite, Split, Flag, Drop
<1>2. /\ candidates \in Seq(TripleItems) /\ kept \in Seq(TripleItems)
      /\ states \in Seq(StateItems)
  BY DEF PTypes, MemoryTypes
<1>3. Item \in TripleItems /\ ToSet(candidates) = {Item} \cup ToSet(candidates')
  BY <1>1, <1>2, ToSetHeadTail DEF Dispatching, Item
<1>4. run' = run
  BY <1>1 DEF Dispatching
<1>5. CASE Bypass
  <2>1. ToSet(kept') = ToSet(kept) \cup {Item}
    BY <1>2, <1>3, <1>5, ToSetAppend DEF Bypass
  <2> QED BY <1>3, <1>4, <1>5, <2>1 DEF Bypass, LoggedNow
<1>6. CASE RouteToState
  <2>1. \E j \in StateItems : states' = Append(states, j) /\ j.from = Item.from
                                 /\ j.chunk = Item.chunk
    <3>1. \A f \in Facts : /\ [Item EXCEPT !.claim = f] \in StateItems
                           /\ [Item EXCEPT !.claim = f].from = Item.from
                           /\ [Item EXCEPT !.claim = f].chunk = Item.chunk
      BY <1>3, RepairedItem
    <3> QED BY <1>6, <3>1 DEF RouteToState
  <2>2. PICK j \in StateItems : states' = Append(states, j) /\ j.from = Item.from
                                   /\ j.chunk = Item.chunk
    BY <2>1
  <2>3. ToSet(states') = ToSet(states) \cup {j}
    BY <1>2, <2>2, ToSetAppend
  <2> QED BY <1>3, <1>4, <1>6, <2>2, <2>3 DEF RouteToState, LoggedNow
<1>7. CASE Rewrite
  <2>1. \E j \in TripleItems : kept' = Append(kept, j) /\ j.from = Item.from
                                  /\ j.chunk = Item.chunk
    <3>1. \A c \in Repairs : /\ [Item EXCEPT !.claim = c] \in TripleItems
                             /\ [Item EXCEPT !.claim = c].from = Item.from
                             /\ [Item EXCEPT !.claim = c].chunk = Item.chunk
      BY <1>3, RepairedItem, PipelineAssumption
    <3> QED BY <1>3, <1>7, <3>1 DEF Rewrite
  <2>2. PICK j \in TripleItems : kept' = Append(kept, j) /\ j.from = Item.from
                                    /\ j.chunk = Item.chunk
    BY <2>1
  <2>3. ToSet(kept') = ToSet(kept) \cup {j}
    BY <1>2, <2>2, ToSetAppend
  <2> QED BY <1>3, <1>4, <1>7, <2>2, <2>3 DEF Rewrite, LoggedNow
<1>8. CASE Split
  <2>1. PICK n \in 1 .. MaxMembers, skipped \in BOOLEAN :
          \E members \in [1 .. n -> Repairs] :
            /\ kept' = kept \o [m \in 1 .. n |-> [Item EXCEPT !.claim = members[m]]]
            /\ log' = IF skipped THEN log \cup Record({Item}, "invalid_payload")
                      ELSE log
    BY <1>8 DEF Split
  <2>2. PICK members \in [1 .. n -> Repairs] :
          /\ kept' = kept \o [m \in 1 .. n |-> [Item EXCEPT !.claim = members[m]]]
          /\ log \subseteq log'
    BY <2>1
  <2>3. PICK more : /\ more = [m \in 1 .. n |-> [Item EXCEPT !.claim = members[m]]]
                    /\ kept' = kept \o more
    BY <2>2
  <2>4. /\ n \in Nat /\ 1 \in 1 .. n
        /\ \A m \in 1 .. n : /\ more[m] \in TripleItems
                             /\ more[m].from = Item.from /\ more[m].chunk = Item.chunk
    <3>1. n \in Nat /\ 1 \in 1 .. n
      BY PipelineAssumption
    <3>2. ASSUME NEW m \in 1 .. n
          PROVE  /\ more[m] \in TripleItems
                 /\ more[m].from = Item.from /\ more[m].chunk = Item.chunk
      <4>1. members[m] \in Claims /\ more[m] = [Item EXCEPT !.claim = members[m]]
        BY <2>3, PipelineAssumption
      <4> QED BY <1>3, <4>1, RepairedItem
    <3> QED BY <3>1, <3>2
  <2>5. more \in Seq(TripleItems) /\ more[1] \in ToSet(more)
    <3>1. DOMAIN more = 1 .. n /\ more \in [1 .. n -> TripleItems]
      BY <2>3, <2>4
    <3> QED BY <2>4, <3>1 DEF ToSet
  <2>6. ToSet(kept') = ToSet(kept) \cup ToSet(more)
    BY <1>2, <2>3, <2>5, ToSetConcat
  <2>7. LoggedNow \subseteq LoggedNow'
    BY <1>4, <2>2 DEF LoggedNow
  <2> QED BY <1>3, <1>8, <2>4, <2>5, <2>6, <2>7 DEF Split
<1>9. CASE Flag
  BY <1>3, <1>4, <1>9 DEF Flag, LoggedNow
<1>10. CASE Drop
  <2>1. PICK why \in {"drop_noise", "invalid_payload"} : log' = log \cup Record({Item}, why)
    BY <1>10 DEF Drop
  <2>2. [item |-> Item, why |-> why, run |-> run] \in log' /\ log \subseteq log'
    BY <2>1 DEF Record
  <2>3. Item \in LoggedNow' /\ LoggedNow \subseteq LoggedNow'
    BY <1>4, <2>2 DEF LoggedNow
  <2> QED BY <1>3, <1>10, <2>3 DEF Drop
<1> QED BY <1>5, <1>6, <1>7, <1>8, <1>9, <1>10

LEMMA TraceInit == Init => TraceInv
  BY DEF Init, TraceInv, AllTraced, Progress

LEMMA TracesStep == PTypes /\ AllTraced /\ [Next]_vars => AllTraced'
<1> SUFFICES ASSUME PTypes, AllTraced, [Next]_vars PROVE AllTraced'
  OBVIOUS
<1>0. /\ candidates \in Seq(TripleItems) /\ kept \in Seq(TripleItems)
      /\ states \in Seq(StateItems)
  BY DEF PTypes, MemoryTypes
<1>1. CASE Start \/ EmptyMembers \/ Outage
  <2>1. proposed' = {}
    BY <1>1 DEF Start, EmptyMembers, Outage, Fresh
  <2> QED BY <2>1 DEF AllTraced
<1>2. CASE ExtractChunk
  <2>1. PICK calls \in Calls :
          /\ candidates' = candidates \o Proposals(calls, Claims)
          /\ states' = states \o Proposals(calls, Facts)
          /\ proposed' = proposed \cup
                {[claim |-> calls[n], chunk |-> chunk] : n \in DOMAIN calls}
    BY <1>2 DEF ExtractChunk
  <2>2. calls \in Seq(Claims \cup Facts) /\ chunk \in Chunks
    BY <1>2, CallsAreCalls DEF ExtractChunk
  <2>3. /\ Proposals(calls, Claims) \in Seq(TripleItems)
        /\ Proposals(calls, Facts) \in Seq(StateItems)
        /\ \A n \in DOMAIN calls :
              \E i \in ToSet(Proposals(calls, Claims)) \cup ToSet(Proposals(calls, Facts)) :
                 i.from = calls[n] /\ i.chunk = chunk
    <3>1. \A n \in DOMAIN calls : calls[n] \in Claims \/ calls[n] \in Facts
      BY <2>2
    <3>2. Claims \in SUBSET (Claims \cup Facts) /\ Facts \in SUBSET (Claims \cup Facts)
      OBVIOUS
    <3> HIDE DEF Proposals
    <3>3. /\ Proposals(calls, Claims) \in Seq(TripleItems)
          /\ \A n \in DOMAIN calls : calls[n] \in Claims =>
                \E i \in ToSet(Proposals(calls, Claims)) : i.from = calls[n] /\ i.chunk = chunk
      BY <2>2, <3>2, ProposalsAreItems DEF TripleItems
    <3>4. /\ Proposals(calls, Facts) \in Seq(StateItems)
          /\ \A n \in DOMAIN calls : calls[n] \in Facts =>
                \E i \in ToSet(Proposals(calls, Facts)) : i.from = calls[n] /\ i.chunk = chunk
      BY <2>2, <3>2, ProposalsAreItems DEF StateItems
    <3> QED BY <3>1, <3>3, <3>4
  <2>4. /\ ToSet(candidates') = ToSet(candidates) \cup ToSet(Proposals(calls, Claims))
        /\ ToSet(states') = ToSet(states) \cup ToSet(Proposals(calls, Facts))
    BY <1>0, <2>1, <2>3, ToSetConcat
  <2>5. /\ Trail \subseteq Trail'
        /\ ToSet(Proposals(calls, Claims)) \cup ToSet(Proposals(calls, Facts)) \subseteq Trail'
    BY <1>2, <2>4 DEF ExtractChunk, Trail, LoggedNow
  <2>6. \A n \in DOMAIN calls : \E i \in Trail' : i.from = calls[n] /\ i.chunk = chunk
    BY <2>3, <2>5
  <2>7. ASSUME NEW p \in proposed' PROVE \E i \in Trail' : Stems(i, p)
    <3>1. CASE p \in proposed
      BY <2>5, <3>1 DEF AllTraced
    <3>2. CASE p \notin proposed
      <4>1. PICK n \in DOMAIN calls : p = [claim |-> calls[n], chunk |-> chunk]
        BY <2>1, <2>7, <3>2
      <4> QED BY <2>6, <4>1 DEF Stems
    <3> QED BY <3>1, <3>2
  <2> QED BY <2>7 DEF AllTraced
<1>3. CASE ExtractDone \/ DispatchDone \/ Approve \/ CommitRow \/ CommitState
  <2>1. Trail' = Trail /\ proposed' = proposed
    BY <1>3 DEF ExtractDone, DispatchDone, Approve, CommitRow, CommitState, scratch,
                history, Trail, LoggedNow
  <2> QED BY <2>1 DEF AllTraced
<1>4. CASE \/ Bypass \/ RouteToState \/ Rewrite \/ Split \/ Flag \/ Drop
  <2>1. UNCHANGED <<proposed, filtered>>
    BY <1>4 DEF Bypass, RouteToState, Rewrite, Split, Flag, Drop, Dispatching, history
  <2>2. ASSUME NEW i \in Trail
        PROVE  \E j \in Trail' : j.from = i.from /\ j.chunk = i.chunk
    BY <1>4, <2>1, DispatchLeavesTrace DEF Trail
  <2> QED BY <2>1, <2>2, TracesCarry
<1>5. CASE GateTriples
  <2>1. PICK novel \in SUBSET ClaimsOf(kept) :
          /\ kept' = Admit(kept, novel)
          /\ filtered' = filtered \cup Refused(kept, novel)
    BY <1>5 DEF GateTriples
  <2>2. ToSet(kept) \cup filtered = ToSet(kept') \cup filtered'
    BY <1>0, <2>1, AdmitSplits
  <2>3. Trail' = Trail /\ proposed' = proposed
    BY <1>5, <2>2 DEF GateTriples, Trail, LoggedNow
  <2> QED BY <2>3 DEF AllTraced
<1>6. CASE GateStates
  <2>1. PICK novel \in SUBSET ClaimsOf(states) :
          /\ states' = Admit(states, novel)
          /\ filtered' = filtered \cup Refused(states, novel)
    BY <1>6 DEF GateStates
  <2>2. ToSet(states) \cup filtered = ToSet(states') \cup filtered'
    BY <1>0, <2>1, AdmitSplits
  <2>3. Trail' = Trail /\ proposed' = proposed
    BY <1>6, <2>2 DEF GateStates, Trail, LoggedNow
  <2> QED BY <2>3 DEF AllTraced
<1>7. CASE Reject
  <2>1. Trail \subseteq Trail' /\ proposed' = proposed
    BY <1>7 DEF Reject, scratch, history, Trail, LoggedNow
  <2> QED BY <2>1 DEF AllTraced
<1>8. CASE UNCHANGED vars
  <2>1. Trail' = Trail /\ proposed' = proposed
    BY <1>8 DEF vars, scratch, history, Trail, LoggedNow
  <2> QED BY <2>1 DEF AllTraced
<1> QED
  BY <1>1, <1>2, <1>3, <1>4, <1>5, <1>6, <1>7, <1>8 DEF Next, Step, Dispatch

LEMMA ProgressStep ==
    PTypes /\ WaitInv /\ Progress /\ [Next]_vars => Progress'
<1> SUFFICES ASSUME PTypes, WaitInv, Progress, [Next]_vars PROVE Progress'
  OBVIOUS
<1>0. /\ DOMAIN kept = 1 .. Len(kept) /\ Len(kept) \in Nat
      /\ DOMAIN states = 1 .. Len(states) /\ Len(states) \in Nat
      /\ at \in Nat \ {0}
      /\ \A n \in DOMAIN kept : kept[n].claim \in Claims
      /\ \A n \in DOMAIN states : states[n].claim \in Facts
  <2>1. kept \in Seq(TripleItems) /\ states \in Seq(StateItems) /\ at \in Nat \ {0}
    BY DEF PTypes, MemoryTypes
  <2>2. /\ \A n \in DOMAIN kept : kept[n] \in TripleItems
        /\ \A n \in DOMAIN states : states[n] \in StateItems
    BY <2>1
  <2> QED BY <2>1, <2>2 DEF TripleItems, StateItems, Items
<1>1. CASE \/ Start \/ ExtractChunk \/ ExtractDone \/ Dispatch \/ GateTriples
           \/ GateStates \/ Outage
  <2>1. phase' \notin {"commit", "commit_states", "done"}
    BY <1>1 DEF Start, ExtractChunk, ExtractDone, Dispatch, Bypass, RouteToState,
                Rewrite, Split, Flag, Drop, Dispatching, EmptyMembers, DispatchDone,
                GateTriples, GateStates, Outage
  <2> QED BY <2>1 DEF Progress
<1>2. CASE Approve
  <2>1. phase' = "commit" /\ at' = 1 /\ kept' = kept
    BY <1>2 DEF Approve, scratch, PTypes, InOrder
  <2> QED BY <1>0, <2>1 DEF Progress
<1>3. CASE Reject
  <2>1. /\ phase' = "done" /\ verdict' = "rejected" /\ kept' = kept /\ run' = run
        /\ log' = log \cup Record(ToSet(kept), "reviewer")
    BY <1>3 DEF Reject, scratch
  <2>2. \A i \in ToSet(kept) : [item |-> i, why |-> "reviewer", run |-> run] \in log'
    BY <2>1 DEF Record
  <2>3. ASSUME NEW i \in ToSet(kept) PROVE i \in LoggedNow'
    <3> DEFINE r == [item |-> i, why |-> "reviewer", run |-> run]
    <3>1. r \in log' /\ r.run = run' /\ r.item = i
      BY <2>1, <2>2
    <3> HIDE DEF r
    <3> QED BY <3>1 DEF LoggedNow
  <2> QED BY <2>1, <2>3 DEF Progress
<1>4. CASE CommitRow
  <2>1. /\ UNCHANGED <<kept, states, verdict, events>> /\ rows \subseteq rows'
        /\ phase = "commit"
    BY <1>4 DEF CommitRow
  <2>2. \A n \in DOMAIN kept : Landed(kept[n]) => Landed(kept[n])'
    BY <1>0, <2>1 DEF Landed
  <2>3. CASE at <= Len(kept)
    <3>1. \A n \in DOMAIN kept : n = at => Landed(kept[n])'
      BY <1>0, <1>4, <2>3 DEF CommitRow, Landed
    <3>2. phase' = "commit" /\ at' = at + 1
      BY <1>4, <2>3 DEF CommitRow
    <3>3. \A n \in DOMAIN kept : n < at + 1 => Landed(kept[n])'
      BY <1>0, <2>1, <2>2, <3>1 DEF Progress
    <3> QED BY <2>1, <3>2, <3>3 DEF Progress
  <2>4. CASE ~(at <= Len(kept))
    <3>1. phase' = "commit_states" /\ at' = 1
      BY <1>4, <2>4 DEF CommitRow
    <3>2. \A n \in DOMAIN kept : Landed(kept[n])'
      BY <1>0, <2>1, <2>2, <2>4 DEF Progress
    <3> QED BY <1>0, <2>1, <3>1, <3>2 DEF Progress
  <2> QED BY <2>3, <2>4
<1>5. CASE CommitState
  <2>1. /\ UNCHANGED <<kept, states, verdict, rows>> /\ events \subseteq events'
        /\ phase = "commit_states" /\ verdict = "approved"
    BY <1>5 DEF CommitState, WaitInv, CommitIsApproved
  <2>2. /\ \A n \in DOMAIN kept : Landed(kept[n]) => Landed(kept[n])'
        /\ \A n \in DOMAIN states : Landed(states[n]) => Landed(states[n])'
    BY <1>0, <2>1 DEF Landed, Recorded
  <2>3. CASE at <= Len(states)
    <3>1. \A n \in DOMAIN states : n = at => Recorded(states[n])'
      <4>1. CASE Recorded(states[at])
        BY <2>1, <4>1 DEF Recorded
      <4>2. CASE ~Recorded(states[at])
        <5> DEFINE e == <<states[at].claim, states[at].chunk>>
        <5>1. e \in events' /\ e[1] = states[at].claim /\ e[2] = states[at].chunk
          BY <1>5, <2>3, <4>2 DEF CommitState
        <5> HIDE DEF e
        <5>2. \E x \in events' : Measure[x[1]] = Measure[states[at].claim]
                                   /\ x[2] = states[at].chunk
          BY <5>1
        <5> QED BY <2>1, <5>2 DEF Recorded
      <4> QED BY <4>1, <4>2
    <3>2. \A n \in DOMAIN states : n = at => Landed(states[n])'
      BY <1>0, <2>1, <3>1, PipelineAssumption DEF Landed
    <3>3. phase' = "commit_states" /\ at' = at + 1
      BY <1>5, <2>1, <2>3 DEF CommitState
    <3>4. /\ \A n \in DOMAIN kept : Landed(kept[n])'
          /\ \A n \in DOMAIN states : n < at + 1 => Landed(states[n])'
      BY <1>0, <2>1, <2>2, <3>2 DEF Progress
    <3> QED BY <2>1, <3>3, <3>4 DEF Progress
  <2>4. CASE ~(at <= Len(states))
    <3>1. phase' = "done"
      BY <1>5, <2>4 DEF CommitState
    <3>2. /\ \A n \in DOMAIN kept : Landed(kept[n])'
          /\ \A n \in DOMAIN states : Landed(states[n])'
      BY <1>0, <2>1, <2>2, <2>4 DEF Progress
    <3> QED BY <2>1, <3>1, <3>2 DEF Progress
  <2> QED BY <2>3, <2>4
<1>6. CASE UNCHANGED vars
  BY <1>6 DEF vars, scratch, graph, Progress, Landed, Recorded, LoggedNow
<1> QED
  BY <1>1, <1>2, <1>3, <1>4, <1>5, <1>6 DEF Next, Step

LEMMA TraceReaches == PTypes /\ TraceInv => NothingLost
<1> SUFFICES ASSUME PTypes, TraceInv, phase = "done"
             PROVE  IF verdict = "approved"
                    THEN /\ \A i \in ToSet(kept) \cup ToSet(states) : Landed(i)
                         /\ \A p \in proposed :
                              \E i \in ToSet(kept) \cup ToSet(states) \cup filtered
                                          \cup flagged \cup LoggedNow :
                                  i.from = p.claim /\ i.chunk = p.chunk
                    ELSE ToSet(kept) \subseteq LoggedNow
  BY DEF NothingLost
<1>1. ToSet(candidates) = {}
  BY DEF PTypes, InOrder, ToSet
<1>2. \A p \in proposed :
        \E i \in ToSet(kept) \cup ToSet(states) \cup filtered \cup flagged \cup LoggedNow :
            i.from = p.claim /\ i.chunk = p.chunk
  BY <1>1 DEF TraceInv, AllTraced, Stems, Trail
<1>3. verdict = "approved" => \A i \in ToSet(kept) \cup ToSet(states) : Landed(i)
  BY DEF TraceInv, Progress, ToSet
<1> QED BY <1>2, <1>3 DEF TraceInv, Progress

\* No proposal that extraction accepted is silently lost, whatever Jev and the
\* reviewer answer and whichever earlier run died among its writes.
THEOREM NothingSilentlyLost == Spec => []NothingLost
<1> QED
  BY TypesInit, TypesStep, WaitInit, WaitStep, TraceInit, TracesStep, ProgressStep,
     TraceReaches, PTL DEF Spec, TraceInv

-----------------------------------------------------------------------------
(* The resolver, which runs between the gate and the review *)

\* What the session remembers of the names so far: the entities it created
\* differ in normal form, and a form is remembered as an alias only of a name
\* no entity was created for.
Memory ==
    /\ \A m, n \in created : Norm[m] = Norm[n] => m = n
    /\ \A i \in DOMAIN results : results[i].outcome = "create" =>
          results[i].entity = results[i].name /\ results[i].name \in created
    /\ \A i \in DOMAIN results : results[i].newAlias # {} =>
          /\ Norm[results[i].name] \in DOMAIN aliasOf
          /\ aliasOf[Norm[results[i].name]] = results[i].entity
          /\ \A n \in created : Norm[n] # Norm[results[i].name]

Shape == ResolverTypeOK /\ names \in Seq(Names)

\* DecisionSticks is not inductive: that a known name stays known has to follow
\* from what the session holds.
NInv == Shape /\ Memory /\ DecisionSticks

\* What a layer picks as the only one is one of its own.
LEMMA OneOf ==
    ASSUME NEW set, Single(set) PROVE One(set) \in set
  BY DEF Single, One

\* Every layer answers for the name it was asked, with a name the session or
\* the graph has an entity of, or with the name itself.
LEMMA GraphAnswers ==
    ASSUME ResolverTypeOK, NEW x \in Names
    PROVE  LET r == ResolveInGraph(x)
           IN  /\ r \in Result /\ r.name = x
               /\ r.outcome = "create" => r.entity = x /\ r.newAlias = {}
               /\ r.newAlias # {} => r.entity \in created \cup DOMAIN nodes
  <1> DEFINE contained == StoreContained(x)
             corroborated == Alike(x, contained \cap embedded)
             inSession == {n \in created : Contained(x, n, {})}
             semantic  == Alike(x, embedded)
             Fits(r) == /\ r \in Result /\ r.name = x
                        /\ r.outcome = "create" => r.entity = x /\ r.newAlias = {}
                        /\ r.newAlias # {} => r.entity \in created \cup DOMAIN nodes
  <1>1. Fits(Queue(x)) /\ Fits(Create(x))
    BY DEF Queue, Create, Result
  <1>2. \A n \in Names : Fits(AutoMerge(x, n, {}))
    BY DEF AutoMerge, Result
  <1>3. \A set : \A n \in created \cup DOMAIN nodes : Fits(Merged(x, n, set))
    BY DEF Merged, AutoMerge, Result, ResolverTypeOK
  <1>4. /\ Exact(x) \subseteq DOMAIN nodes /\ corroborated \subseteq DOMAIN nodes
        /\ inSession \subseteq created /\ semantic \subseteq Names
        /\ Alike(x, inSession) \subseteq created
        /\ Leading(x, semantic) \subseteq Names
    BY DEF Exact, StoreContained, Alike, Leading, ResolverTypeOK
  <1>5. DOMAIN nodes \subseteq Names /\ created \subseteq Names
    BY DEF ResolverTypeOK
  <1>6. Single(Exact(x)) => Fits(AutoMerge(x, One(Exact(x)), {}))
    BY <1>2, <1>4, <1>5, OneOf
  <1>7. Single(corroborated) =>
           Fits(Merged(x, One(corroborated), nodes[One(corroborated)]))
    BY <1>3, <1>4, OneOf
  <1>8. Single(Alike(x, inSession)) =>
           Fits(Merged(x, One(Alike(x, inSession)), {}))
    BY <1>3, <1>4, OneOf
  <1>9. Leading(x, semantic) # {} =>
           Fits(AutoMerge(x, One(Leading(x, semantic)), {}))
    BY <1>2, <1>4 DEF One
  <1>10. ResolveInGraph(x) \in
            {r \in {Queue(x), Create(x), AutoMerge(x, One(Exact(x)), {}),
              Merged(x, One(corroborated), nodes[One(corroborated)]),
              Merged(x, One(Alike(x, inSession)), {}),
              AutoMerge(x, One(Leading(x, semantic)), {})} : Fits(r)}
    <2> HIDE DEF contained, corroborated, inSession, semantic, Fits
    <2>1. ResolveInGraph(x) =
          CASE Single(Exact(x)) -> AutoMerge(x, One(Exact(x)), {})
            [] Exact(x) # {} /\ ~Single(Exact(x)) -> Queue(x)
            [] Exact(x) = {} /\ contained # {} ->
                IF Single(corroborated)
                THEN Merged(x, One(corroborated), nodes[One(corroborated)])
                ELSE Queue(x)
            [] Exact(x) = {} /\ contained = {} /\ inSession # {} ->
                IF Single(Alike(x, inSession))
                THEN Merged(x, One(Alike(x, inSession)), {})
                ELSE Queue(x)
            [] OTHER ->
                IF semantic = {} THEN Create(x)
                ELSE IF Leading(x, semantic) # {}
                THEN AutoMerge(x, One(Leading(x, semantic)), {})
                ELSE Queue(x)
      BY DEF ResolveInGraph, contained, corroborated, inSession, semantic
    <2> QED BY <2>1, <1>1, <1>6, <1>7, <1>8, <1>9
            DEF ResolveInGraph, contained, corroborated, inSession, semantic
  <1> HIDE DEF Fits, contained, corroborated, inSession, semantic
  <1>11. Fits(ResolveInGraph(x))
    BY <1>10
  <1> QED BY <1>11 DEF Fits

\* A name the session knows gets the entity the session has for it, and only a
\* name it does not know creates an entity or is remembered as an alias.
LEMMA Answers ==
    ASSUME ResolverTypeOK, NEW x \in Names
    PROVE  LET r == Resolve(x)
           IN  /\ r \in Result /\ r.name = x
               /\ InSession(x) # {} =>
                     r.outcome = "auto" /\ r.entity = Lookup(x) /\ r.newAlias = {}
               /\ r.outcome = "create" => r.entity = x /\ r.newAlias = {}
               /\ r.newAlias # {} => r.entity \in created \cup DOMAIN nodes
  <1> DEFINE fuzzy == {n \in created : Similar(x, n)}
             alike == Alike(x, created)
             Fits(r) == /\ r \in Result /\ r.name = x
                        /\ r.outcome = "create" => r.entity = x /\ r.newAlias = {}
                        /\ r.newAlias # {} => r.entity \in created \cup DOMAIN nodes
  <1>1. created \subseteq Names /\ DOMAIN nodes \subseteq Names
    BY DEF ResolverTypeOK
  <1>2. InSession(x) # {} => Lookup(x) \in Names
    <2>1. \A f \in DOMAIN aliasOf : aliasOf[f] \in Names
      BY <1>1 DEF ResolverTypeOK
    <2> QED BY <1>1, <2>1 DEF InSession, Lookup
  <1>3. Fits(Queue(x)) /\ (InSession(x) # {} => Fits(AutoMerge(x, Lookup(x), {})))
    BY <1>2 DEF Queue, AutoMerge, Result
  <1>4. \A set : \A n \in created : Fits(Merged(x, n, set))
    BY <1>1 DEF Merged, AutoMerge, Result
  <1>5. Single(fuzzy) => Fits(Merged(x, One(fuzzy), {}))
    BY <1>4, OneOf
  <1>6. Leading(x, alike) # {} => Fits(Merged(x, One(Leading(x, alike)), {}))
    BY <1>4 DEF One, Leading, Alike
  <1>7. Fits(ResolveInGraph(x))
    BY GraphAnswers
  <1>8. Fits(Resolve(x))
    <2> HIDE DEF Fits, fuzzy, alike
    <2> QED BY <1>3, <1>5, <1>6, <1>7 DEF Resolve, fuzzy, alike
  <1>9. InSession(x) # {} => Resolve(x) = AutoMerge(x, Lookup(x), {})
    BY DEF Resolve
  <1> QED BY <1>8, <1>9 DEF AutoMerge

-----------------------------------------------------------------------------

LEMMA NInvInit == ResolverInit => NInv
  BY DEF ResolverInit, NInv, Shape, ResolverTypeOK, Memory, DecisionSticks

LEMMA NextNameKeeps == NInv /\ ResolveNext => NInv'
  <1> SUFFICES ASSUME NInv, ResolveNext PROVE NInv'
    OBVIOUS
  <1> DEFINE x == names[Len(results) + 1]
             r == Resolve(x)
  <1>1. /\ results \in Seq(Result) /\ names \in Seq(Names) /\ ResolverTypeOK
        /\ Len(results) < Len(names) /\ Memory /\ DecisionSticks
    BY DEF NInv, Shape, ResolverTypeOK, ResolveNext
  <1>2. x \in Names
    BY <1>1
  <1>3. /\ r \in Result /\ r.name = x
        /\ InSession(x) # {} =>
              r.outcome = "auto" /\ r.entity = Lookup(x) /\ r.newAlias = {}
        /\ r.outcome = "create" => r.entity = x /\ r.newAlias = {}
        /\ r.newAlias # {} => r.entity \in created \cup DOMAIN nodes
    BY <1>1, <1>2, Answers
  <1>4. /\ results' = Append(results, r)
        /\ created' = IF r.outcome = "create" THEN created \cup {x} ELSE created
        /\ aliasOf' = Remembered(x, r)
        /\ nodes' = [n \in DOMAIN nodes |->
                        IF n = r.entity THEN nodes[n] \cup r.newAlias ELSE nodes[n]]
        /\ UNCHANGED <<embedded, resolving, names, nodesBefore, ingests>>
    BY DEF ResolveNext
  <1> HIDE DEF r, x
  <1>5. /\ results' \in Seq(Result) /\ Len(results') = Len(results) + 1
        /\ \A i \in DOMAIN results : results'[i] = results[i]
        /\ results'[Len(results) + 1] = r
        /\ DOMAIN results' = DOMAIN results \cup {Len(results) + 1}
        /\ DOMAIN results = 1 .. Len(results) /\ Len(results) \in Nat
    BY <1>1, <1>3, <1>4
  <1>6. /\ r.newAlias = {} => aliasOf' = aliasOf
        /\ r.newAlias # {} =>
              /\ DOMAIN aliasOf' = DOMAIN aliasOf \cup {Norm[x]}
              /\ aliasOf'[Norm[x]] = r.entity
              /\ \A f \in DOMAIN aliasOf : f # Norm[x] => aliasOf'[f] = aliasOf[f]
    BY <1>4 DEF Remembered
  <1>7. InSession(x) = {} =>
           /\ Norm[x] \notin DOMAIN aliasOf
           /\ \A n \in created : Norm[n] # Norm[x]
    BY DEF InSession
  <1>8. Shape'
    <2>1. /\ DOMAIN nodes' = DOMAIN nodes /\ \A n \in DOMAIN nodes' : nodes'[n] \subseteq Names
      BY <1>1, <1>3, <1>4 DEF ResolverTypeOK, Result
    <2>2. created' \subseteq Names /\ created \subseteq created'
      BY <1>1, <1>2, <1>4 DEF ResolverTypeOK
    <2>3. \A f \in DOMAIN aliasOf' : aliasOf'[f] \in created' \cup DOMAIN nodes'
      BY <1>1, <1>3, <1>6, <2>1, <2>2 DEF ResolverTypeOK
    <2> QED BY <1>1, <1>4, <1>5, <2>1, <2>2, <2>3 DEF Shape, ResolverTypeOK
  <1>9. Memory'
    <2>1. \A m, n \in created' : Norm[m] = Norm[n] => m = n
      BY <1>1, <1>3, <1>4, <1>7 DEF Memory
    <2>2. \A i \in DOMAIN results' : results'[i].outcome = "create" =>
             results'[i].entity = results'[i].name /\ results'[i].name \in created'
      BY <1>1, <1>3, <1>4, <1>5 DEF Memory
    <2>3. ASSUME NEW i \in DOMAIN results', results'[i].newAlias # {}
          PROVE  /\ Norm[results'[i].name] \in DOMAIN aliasOf'
                 /\ aliasOf'[Norm[results'[i].name]] = results'[i].entity
                 /\ \A n \in created' : Norm[n] # Norm[results'[i].name]
      <3>1. CASE i = Len(results) + 1
        BY <1>3, <1>4, <1>5, <1>6, <1>7, <2>3, <3>1
      <3>2. CASE i \in DOMAIN results
        <4>1. /\ Norm[results[i].name] \in DOMAIN aliasOf
              /\ aliasOf[Norm[results[i].name]] = results[i].entity
              /\ \A n \in created : Norm[n] # Norm[results[i].name]
          BY <1>1, <1>5, <2>3, <3>2 DEF Memory
        <4>2. r.newAlias # {} \/ r.outcome = "create" => Norm[x] # Norm[results[i].name]
          BY <1>3, <1>7, <4>1
        <4> QED BY <1>4, <1>5, <1>6, <3>2, <4>1, <4>2
      <3> QED BY <1>5, <3>1, <3>2
    <2> QED BY <2>1, <2>2, <2>3 DEF Memory
  <1>10. DecisionSticks'
    <2> SUFFICES ASSUME NEW i \in DOMAIN results', NEW j \in DOMAIN results', i < j,
                        results'[i].outcome = "create" \/ results'[i].newAlias # {},
                        Norm[results'[i].name] = Norm[results'[j].name]
                 PROVE  results'[j].entity = results'[i].entity
      BY DEF DecisionSticks
    <2>1. i \in DOMAIN results
      BY <1>5
    <2>2. CASE j \in DOMAIN results
      BY <1>1, <1>5, <2>1, <2>2 DEF DecisionSticks
    <2>3. CASE j = Len(results) + 1
      <3>1. results'[j] = r /\ Norm[results[i].name] = Norm[x]
        BY <1>3, <1>5, <2>1, <2>3
      <3>2. CASE results[i].outcome = "create"
        <4>1. results[i].name \in created /\ results[i].entity = results[i].name
          BY <1>1, <2>1, <3>2 DEF Memory
        <4>2. Lookup(x) = results[i].name
          BY <1>1, <3>1, <4>1 DEF Lookup, Memory
        <4>3. InSession(x) # {}
          BY <3>1, <4>1 DEF InSession
        <4> QED BY <1>3, <1>5, <2>1, <3>1, <4>1, <4>2, <4>3
      <3>3. CASE results[i].newAlias # {}
        <4>1. /\ Norm[x] \in DOMAIN aliasOf /\ aliasOf[Norm[x]] = results[i].entity
              /\ \A n \in created : Norm[n] # Norm[x]
          BY <1>1, <2>1, <3>1, <3>3 DEF Memory
        <4>2. InSession(x) # {} /\ Lookup(x) = results[i].entity
          BY <4>1 DEF InSession, Lookup
        <4> QED BY <1>3, <1>5, <2>1, <3>1, <4>2
      <3> QED BY <1>5, <2>1, <3>2, <3>3
    <2> QED BY <1>5, <2>2, <2>3
  <1> QED BY <1>8, <1>9, <1>10 DEF NInv

LEMMA NInvStep == NInv /\ [ResolverNext]_resolverVars => NInv'
  <1> SUFFICES ASSUME NInv, [ResolverNext]_resolverVars PROVE NInv'
    OBVIOUS
  <1>1. ASSUME NEW doc \in Documents, StartRun(doc) PROVE NInv'
    <2>1. doc \in Seq(Names)
      BY DEF Documents
    <2> QED BY <1>1, <2>1 DEF StartRun, NInv, Shape, ResolverTypeOK, Memory, DecisionSticks
  <1>2. ASSUME ApproveEntities PROVE NInv'
    <2>1. UNCHANGED session /\ nodes' = Upserted /\ resolving' = "committed"
          /\ embedded' = embedded \cup (created \cap DeltaEntities)
      BY <1>2 DEF ApproveEntities
    <2>2. \A i \in DOMAIN results : results[i] \in Result
      BY DEF NInv, Shape, ResolverTypeOK
    <2>3. DeltaEntities \subseteq Names /\ \A n : Gathered(n) \subseteq Names
      BY <2>2 DEF DeltaEntities, Gathered, Result
    <2>4. /\ DOMAIN nodes' \subseteq Names /\ DOMAIN nodes \subseteq DOMAIN nodes'
          /\ DeltaEntities \subseteq DOMAIN nodes'
          /\ \A n \in DOMAIN nodes' : nodes'[n] \subseteq Names
      BY <2>1, <2>3 DEF Upserted, NInv, Shape, ResolverTypeOK
    <2>5. Shape'
      BY <2>1, <2>4 DEF NInv, Shape, ResolverTypeOK, session
    <2> QED BY <2>1, <2>5 DEF NInv, Memory, DecisionSticks, session
  <1>3. ASSUME Discard \/ UNCHANGED resolverVars PROVE NInv'
    BY <1>3 DEF Discard, resolverVars, session, NInv, Shape, ResolverTypeOK, Memory,
                DecisionSticks
  <1> QED BY <1>1, <1>2, <1>3, NextNameKeeps DEF ResolverNext

\* A name that an entity was created for, or that was merged into one, means
\* that entity for the rest of its document.
THEOREM DecisionsStick == ResolverSpec => []DecisionSticks
  <1>1. NInv => DecisionSticks
    BY DEF NInv
  <1> QED BY <1>1, NInvInit, NInvStep, PTL DEF ResolverSpec

\* The surface forms of a run are aliases of their nodes once it committed.
THEOREM MergesLand == ResolverSpec => []MergedFormsLand
  <1>1. ResolverInit => MergedFormsLand
    BY DEF ResolverInit, MergedFormsLand
  <1>2. MergedFormsLand /\ [ResolverNext]_resolverVars => MergedFormsLand'
    <2> SUFFICES ASSUME MergedFormsLand, [ResolverNext]_resolverVars PROVE MergedFormsLand'
      OBVIOUS
    <2>1. ASSUME ApproveEntities PROVE MergedFormsLand'
      <3> SUFFICES ASSUME NEW i \in DOMAIN results
                   PROVE  /\ results[i].entity \in DOMAIN Upserted
                          /\ results[i].newAlias \subseteq Upserted[results[i].entity]
        BY <2>1 DEF ApproveEntities, MergedFormsLand, session
      <3>1. results[i].entity \in DeltaEntities
        BY DEF DeltaEntities
      <3>2. results[i].newAlias \subseteq Gathered(results[i].entity)
        BY DEF Gathered
      <3> QED BY <3>1, <3>2 DEF Upserted
    <2>2. ASSUME resolving' \in {"resolve", "discarded"} PROVE MergedFormsLand'
      BY <2>2 DEF MergedFormsLand
    <2>3. ASSUME UNCHANGED resolverVars PROVE MergedFormsLand'
      BY <2>3 DEF resolverVars, session, MergedFormsLand
    <2> QED BY <2>1, <2>2, <2>3 DEF ResolverNext, StartRun, ResolveNext, Discard
  <1> QED BY <1>1, <1>2, PTL DEF ResolverSpec
=============================================================================
