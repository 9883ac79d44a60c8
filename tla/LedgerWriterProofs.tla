-------------------------- MODULE LedgerWriterProofs --------------------------
(***************************************************************************)
(* Theorems about LedgerWriter for every set of triples, sources, deltas   *)
(* and (where it holds) processes.  Aggregate is never unfolded: what is   *)
(* proved holds of any function of a triple's rows.                        *)
(***************************************************************************)
EXTENDS LedgerWriter, SequenceTheorems, FiniteSetTheorems, TLAPS

\* Aggregating a triple's rows gives a confidence an arrow can carry.
LEMMA AggregateType ==
    ASSUME NEW rs \in TripleRows
    PROVE  Aggregate(rs) \in Confidences
BY DEF Confidences

\* An arrow update leaves an arrow, and one that carries the given confidence.
LEMMA SetArrowType ==
    ASSUME NEW arrow \in Arrow \cup {NoArrow}, NEW conf \in Confidences,
           NEW scope \in Scopes
    PROVE  /\ SetArrow(arrow, conf, scope) \in Arrow
           /\ SetArrow(arrow, conf, scope).conf = conf
<1>1. CASE scope # NoScope \/ arrow = NoArrow
  BY <1>1 DEF SetArrow, Arrow
<1>2. CASE ~(scope # NoScope \/ arrow = NoArrow)
  <2>1. arrow \in Arrow
    BY <1>2
  <2>2. arrow.scope \in Scopes
    BY <2>1 DEF Arrow
  <2> QED
    BY <1>2, <2>2 DEF SetArrow, Arrow
<1> QED
  BY <1>1, <1>2

\* The plan for one claim is a plan, whatever rows were loaded.
LEMMA PlanWriteType ==
    ASSUME NEW rs \in TripleRows, NEW c \in Claim, NEW m
    PROVE  PlanWrite(rs, c, m) \in Plan
<1>1. /\ c.source \in Sources /\ c.row \in Row /\ c.row.scope \in Scopes
  BY DEF Claim, Row
<1>2. [rs EXCEPT ![c.source] = c.row] \in TripleRows
  BY <1>1 DEF TripleRows
<1>3. Aggregate(rs) \in Confidences /\ Aggregate([rs EXCEPT ![c.source] = c.row]) \in Confidences
  BY <1>2, AggregateType
<1>4. NoScope \in Scopes
  BY StoreAssumption
<1> QED
  BY <1>1, <1>3, <1>4 DEF PlanWrite, SkipPlan, RowPlan, Plan

\* The empty plan is a plan.
LEMMA NoPlanType == NoPlan \in Plan
<1>1. NoRows \in TripleRows
  BY DEF NoRows, TripleRows
<1> QED
  BY <1>1, AggregateType, StoreAssumption DEF NoPlan, Plan

\* The claim in hand of an active process has a triple, a source and a row.
LEMMA CurrentType ==
    ASSUME TypeOK, NEW w \in Writers, at[w] \in DOMAIN batch[w]
    PROVE  /\ Current(w) \in Claim
           /\ Current(w).triple \in Triples /\ Target(w) \in Triples
           /\ Current(w).source \in Sources /\ Current(w).row \in Row
<1>1. batch[w] \in Seq(Claim)
  BY DEF TypeOK
<1>2. batch[w][at[w]] \in Claim
  BY <1>1, ElementOfSeq
<1> QED
  BY <1>2, WriterAssumption DEF Current, Target, Claim
-----------------------------------------------------------------------------

\* What holds of every number of processes: types, the bounds of the claim
\* index, that only a refresh-mode process plans to replace a row, that a plan
\* to write a row has one, and that an idle process holds no delta.
ModeOfPlan(w) ==
    /\ phase[w] = "idle" => batch[w] = <<>>
    /\ Active(w) => at[w] \in DOMAIN batch[w] /\ mode[w] \in Modes
    /\ phase[w] = "row" => plan[w].write = "none" \/ plan[w].row # NoRow
    /\ phase[w] \in {"row", "arrow"} /\ plan[w].write = "refresh" => mode[w] = "refresh"

TInv == TypeOK /\ \A w \in Writers : ModeOfPlan(w)

LEMMA InitTInv == Init => TInv
<1> SUFFICES ASSUME Init PROVE TInv
  OBVIOUS
<1>1. NoRows \in TripleRows /\ NoScope \in Scopes
  BY StoreAssumption DEF NoRows, TripleRows
<1>2. <<>> \in Seq(Claim)
  BY EmptySeq
<1>3. 0 \in 0..MaxCrashes /\ 0 \in 0..MaxResets
  BY WriterAssumption
<1>4. TypeOK
  BY <1>1, <1>2, <1>3, NoPlanType DEF Init, TypeOK, Phases
<1> QED
  BY <1>4 DEF Init, TInv, ModeOfPlan, Active

\* Begin takes a delta of the operator's and a mode the operator may choose.
LEMMA BeginTInv ==
    ASSUME TInv, NEW w \in Writers, NEW b \in Batches, NEW m \in Modes, Begin(w, b, m)
    PROVE  TInv'
<1> USE DEF TInv
<1>1. b \in Seq(Claim) /\ b # <<>> /\ m \in {"keep-first", "refresh"}
  BY WriterAssumption DEF Begin
<1>2. 1 \in DOMAIN b
  BY <1>1, EmptySeq, LenProperties
<1>3. BatchEntities(b) \subseteq Entities
  <2>1. \A i \in DOMAIN b : b[i] \in Claim
    BY <1>1, LenProperties, ElementOfSeq
  <2> QED
    BY <2>1, WriterAssumption DEF BatchEntities, Claim
<1>4. TypeOK'
  BY <1>1, <1>3 DEF Begin, TypeOK, Phases, storeVars, history, bounds
<1>5. ASSUME NEW v \in Writers PROVE ModeOfPlan(v)'
  <2>1. CASE v = w
    BY <1>2, <2>1 DEF Begin, TypeOK, ModeOfPlan, Active
  <2>2. CASE v # w
    <3>1. /\ phase'[v] = phase[v] /\ at'[v] = at[v] /\ batch'[v] = batch[v]
          /\ mode'[v] = mode[v] /\ plan'[v] = plan[v]
      BY <2>2 DEF Begin, TypeOK
    <3> QED
      BY <3>1 DEF ModeOfPlan, Active
  <2> QED
    BY <2>1, <2>2
<1> QED
  BY <1>4, <1>5

\* The steps of a commit.
LEMMA CommitTInv ==
    ASSUME TInv, NEW w \in Writers, Commit(w)
    PROVE  TInv'
<1> USE DEF TInv
<1>1. ASSUME NEW e \in Entities, UpsertEntity(w, e) PROVE TInv'
  <2>1. TypeOK'
    BY <1>1 DEF UpsertEntity, TypeOK, history, bounds
  <2>2. \A v \in Writers : ModeOfPlan(v)'
    BY <1>1 DEF UpsertEntity, ModeOfPlan, Active
  <2> QED
    BY <2>1, <2>2
<1>2. ASSUME EntitiesDone(w) PROVE TInv'
  <2>1. TypeOK'
    BY <1>2 DEF EntitiesDone, Step, TypeOK, Phases, storeVars, history, bounds
  <2>2. \A v \in Writers : ModeOfPlan(v)'
    BY <1>2 DEF EntitiesDone, Step, TypeOK, ModeOfPlan, Active
  <2> QED
    BY <2>1, <2>2
<1>3. ASSUME LoadRows(w) PROVE TInv'
  <2> DEFINE pl == PlanWrite(rows[Target(w)], Current(w), mode[w])
  <2>1. at[w] \in DOMAIN batch[w]
    BY <1>3 DEF LoadRows, Step, ModeOfPlan, Active
  <2>2. Target(w) \in Triples /\ Current(w) \in Claim
    BY <2>1, CurrentType
  <2>3. rows[Target(w)] \in TripleRows
    BY <2>2 DEF TypeOK
  <2>4. pl \in Plan
    BY <2>2, <2>3, PlanWriteType
  <2>5. plan' = [plan EXCEPT ![w] = pl]
    BY <1>3 DEF LoadRows
  <2>6. TypeOK'
    BY <1>3, <2>4, <2>5 DEF LoadRows, Step, TypeOK, Phases, storeVars, history, bounds
  <2>7. /\ pl.write = "refresh" => mode[w] = "refresh"
        /\ pl.write = "none" \/ pl.row # NoRow
    BY <2>1, CurrentType, SentinelAssumption DEF PlanWrite, SkipPlan, RowPlan, TypeOK
  <2>8. \A v \in Writers : ModeOfPlan(v)'
    BY <1>3, <2>5, <2>7 DEF LoadRows, Step, TypeOK, ModeOfPlan, Active
  <2> QED
    BY <2>6, <2>8
<1>4. ASSUME WriteRow(w) PROVE TInv'
  <2>1. at[w] \in DOMAIN batch[w]
    BY <1>4 DEF WriteRow, Step, ModeOfPlan, Active
  <2>2. Target(w) \in Triples /\ Current(w).source \in Sources
    BY <2>1, CurrentType
  <2>3. plan[w].row \in Row \cup {NoRow} /\ plan[w].scope \in Scopes
    BY DEF TypeOK, Plan
  <2>4. /\ rows' \in [Triples -> TripleRows]
        /\ newest' \in [Triples -> Scopes]
        /\ torn' \subseteq Triples
    <3>1. CASE Writes(w)
      <4>1. [rows[Target(w)] EXCEPT ![Current(w).source] = plan[w].row] \in TripleRows
        BY <2>2, <2>3 DEF TypeOK, TripleRows
      <4> QED
        BY <1>4, <3>1, <4>1, <2>2, <2>3 DEF WriteRow, TypeOK
    <3>2. CASE ~Writes(w)
      BY <1>4, <3>2 DEF WriteRow, TypeOK
    <3> QED
      BY <3>1, <3>2
  <2>5. TypeOK'
    BY <1>4, <2>4 DEF WriteRow, Step, TypeOK, Phases, bounds
  <2>6. \A v \in Writers : ModeOfPlan(v)'
    BY <1>4 DEF WriteRow, Step, TypeOK, ModeOfPlan, Active
  <2> QED
    BY <2>5, <2>6
<1>5. ASSUME WriteArrow(w) PROVE TInv'
  <2>1. at[w] \in DOMAIN batch[w] /\ batch[w] \in Seq(Claim)
    BY <1>5 DEF WriteArrow, Step, ModeOfPlan, Active, TypeOK
  <2>2. Target(w) \in Triples
    BY <2>1, CurrentType
  <2>3. plan[w].conf \in Confidences /\ plan[w].scope \in Scopes
    BY DEF TypeOK, Plan
  <2>4. SetArrow(arrows[Target(w)], plan[w].conf, plan[w].scope) \in Arrow
    BY <2>2, <2>3, SetArrowType DEF TypeOK
  <2>5. /\ arrows' \in [Triples -> Arrow \cup {NoArrow}]
        /\ torn' \subseteq Triples /\ lost' \subseteq Triples
    BY <1>5, <2>4 DEF WriteArrow, TypeOK
  <2>6. AfterClaim(w) \in {"done", "load"}
    BY DEF AfterClaim
  <2>7. at[w] + 1 \in Nat
    BY DEF TypeOK
  <2>8. TypeOK'
    BY <1>5, <2>5, <2>6, <2>7, NoPlanType DEF WriteArrow, Step, TypeOK, Phases, bounds
  <2>9. AfterClaim(w) # "done" => at[w] + 1 \in DOMAIN batch[w]
    BY <2>1, LenProperties DEF AfterClaim, TypeOK
  <2>10. \A v \in Writers : ModeOfPlan(v)'
    BY <1>5, <2>6, <2>9 DEF WriteArrow, Step, TypeOK, ModeOfPlan, Active
  <2> QED
    BY <2>8, <2>10
<1> QED
  BY <1>1, <1>2, <1>3, <1>4, <1>5 DEF Commit

\* A crash or a reset leaves the process with nothing in hand.
LEMMA StopTInv ==
    ASSUME TInv, NEW w \in Writers, Crash(w) \/ Reset(w)
    PROVE  TInv'
<1> USE DEF TInv
<1>1. <<>> \in Seq(Claim)
  BY EmptySeq
<1>2. CASE Crash(w)
  <2>1. crashes' \in 0..MaxCrashes
    BY <1>2, WriterAssumption DEF Crash, TypeOK
  <2>2. lost' \subseteq Triples
    BY <1>2, CurrentType DEF Crash, TypeOK, ModeOfPlan, Active
  <2>3. TypeOK'
    BY <1>1, <1>2, <2>1, <2>2, NoPlanType DEF Crash, TypeOK, Phases, storeVars
  <2>4. \A v \in Writers : ModeOfPlan(v)'
    BY <1>2 DEF Crash, TypeOK, ModeOfPlan, Active
  <2> QED
    BY <2>3, <2>4
<1>3. CASE Reset(w)
  <2>1. resets' \in 0..MaxResets
    BY <1>3, WriterAssumption DEF Reset, TypeOK
  <2>2. NoRows \in TripleRows /\ NoScope \in Scopes
    BY StoreAssumption DEF NoRows, TripleRows
  <2>3. TypeOK'
    BY <1>1, <1>3, <2>1, <2>2 DEF Reset, TypeOK, Phases
  <2>4. \A v \in Writers : ModeOfPlan(v)'
    BY <1>3 DEF Reset, TypeOK, ModeOfPlan, Active
  <2> QED
    BY <2>3, <2>4
<1> QED
  BY <1>2, <1>3

\* Every step, of any process.
LEMMA NextTInv == TInv /\ [Next]_vars => TInv'
<1> SUFFICES ASSUME TInv, [Next]_vars PROVE TInv'
  OBVIOUS
<1>1. CASE UNCHANGED vars
  BY <1>1 DEF vars, storeVars, procVars, history, bounds, TInv, TypeOK, ModeOfPlan, Active
<1>2. CASE Next
  BY <1>2, BeginTInv, CommitTInv, StopTInv DEF Next
<1> QED
  BY <1>1, <1>2

\* Every variable keeps its type, for any number of concurrent processes.
THEOREM TypeCorrect == Spec => []TypeOK
<1>1. TInv => TypeOK
  BY DEF TInv
<1> QED
  BY <1>1, InitTInv, NextTInv, PTL DEF Spec

\* keep-first, for any number of concurrent processes: a recorded row changes
\* only in a reset or when a refresh-mode process writes that very row.
THEOREM KeepFirstHolds == Spec => KeepFirst
<1>1. TInv /\ [Next]_vars =>
        [\A t \in Triples, s \in Sources :
          rows[t][s] # NoRow /\ rows'[t][s] # rows[t][s] =>
              \/ resets' # resets
              \/ \E w \in Writers : /\ phase[w] = "row" /\ mode[w] = "refresh"
                                    /\ Target(w) = t /\ Current(w).source = s]_vars
  <2> SUFFICES ASSUME TInv, Next, NEW t \in Triples, NEW s \in Sources,
                      rows[t][s] # NoRow, rows'[t][s] # rows[t][s], resets' = resets
               PROVE  \E w \in Writers : /\ phase[w] = "row" /\ mode[w] = "refresh"
                                         /\ Target(w) = t /\ Current(w).source = s
    OBVIOUS
  <2>1. PICK w \in Writers : \/ \E b \in Batches, m \in Modes : Begin(w, b, m)
                             \/ Commit(w) \/ Crash(w) \/ Reset(w)
    BY DEF Next
  <2>2. WriteRow(w)
    <3>1. resets \in Nat
      BY DEF TInv, TypeOK
    <3> QED
      BY <2>1, <3>1 DEF Begin, Commit, UpsertEntity, EntitiesDone, LoadRows, WriteArrow,
         Crash, Reset, storeVars
  <2>3. Writes(w) /\ phase[w] = "row"
    BY <2>2 DEF WriteRow, Step
  <2>4. rows' = [rows EXCEPT ![Target(w)] = [@ EXCEPT ![Current(w).source] = plan[w].row]]
    BY <2>2, <2>3 DEF WriteRow
  <2>5. Target(w) = t /\ Current(w).source = s
    BY <2>4 DEF TInv, TypeOK, TripleRows
  <2>6. plan[w].write = "refresh"
    BY <2>3, <2>5 DEF Writes
  <2> QED
    BY <2>3, <2>5, <2>6 DEF TInv, ModeOfPlan
<1> QED
  BY <1>1, InitTInv, NextTInv, PTL DEF Spec, KeepFirst
-----------------------------------------------------------------------------
(* One process: the rows it loaded are still the rows of the ledger when it   *)
(* writes, so the arrow it sets is the one its rows call for.                 *)

\* The claim in hand has its endpoints in the graph once entities are written.
LEMMA TargetPresent ==
    ASSUME IInv, NEW w \in Writers, phase[w] \in {"load", "row", "arrow"}
    PROVE  Present(Target(w)) /\ at[w] \in DOMAIN batch[w]
<1>1. at[w] \in DOMAIN batch[w]
  BY DEF IInv, ClaimsInOrder, Active
<1>2. Ends[batch[w][at[w]].triple] \subseteq entities
  BY <1>1 DEF IInv, EntitiesFirst
<1>3. Current(w).triple \in Triples
  BY <1>1, CurrentType DEF IInv
<1> QED
  BY <1>1, <1>2, <1>3, WriterAssumption DEF Present, Target, Current

\* What writing the planned row does: it is there, and the planned confidence
\* is that of the triple's rows; a plan without a row carries no scope.
LEMMA RowWritten ==
    ASSUME IInv, NEW w \in Writers, WriteRow(w)
    PROVE  LET t == Target(w)
           IN  /\ t \in Triples
               /\ rows'[t][Current(w).source] # NoRow
               /\ plan[w].conf = Aggregate(rows'[t])
               /\ t \in torn' \/ plan[w].scope = NoScope
               /\ Writes(w) \/ plan[w].scope = NoScope
               /\ \A u \in Triples \ {t} : rows'[u] = rows[u]
               /\ \A u \in Triples, s \in Sources : rows[u][s] # NoRow => rows'[u][s] # NoRow
               /\ \A u \in Triples : u \in torn' \/ rows'[u] = rows[u]
               /\ torn \subseteq torn'
<1> DEFINE t == Target(w)  s == Current(w).source
<1>1. phase[w] = "row"
  BY DEF WriteRow, Step
<1>2. Present(t) /\ at[w] \in DOMAIN batch[w]
  BY <1>1, TargetPresent
<1>3. t \in Triples /\ s \in Sources /\ Current(w).row \in Row
  BY <1>2, CurrentType DEF IInv
<1>4. plan[w] = PlanWrite(rows[t], Current(w), mode[w])
  BY <1>1 DEF IInv, PlanFresh
<1>5. rows[t] \in TripleRows /\ rows \in [Triples -> TripleRows]
  BY <1>3 DEF IInv, TypeOK
<1>6. CASE rows[t][s] # NoRow /\ mode[w] = "keep-first"
  <2>1. plan[w] = SkipPlan(rows[t], Current(w))
    BY <1>4, <1>6 DEF PlanWrite
  <2>2. ~Writes(w)
    BY <2>1 DEF Writes, SkipPlan
  <2>3. rows' = rows /\ torn' = torn
    BY <2>2 DEF WriteRow
  <2> QED
    BY <1>3, <1>6, <2>1, <2>3 DEF SkipPlan
<1>7. CASE ~(rows[t][s] # NoRow /\ mode[w] = "keep-first")
  <2>1. plan[w] = RowPlan(rows[t], Current(w))
    BY <1>4, <1>7 DEF PlanWrite
  <2>2. Writes(w)
    BY <1>2, <2>1 DEF Writes, RowPlan
  <2>3. /\ rows' = [rows EXCEPT ![t] = [@ EXCEPT ![s] = plan[w].row]]
        /\ torn' = torn \cup {t}
    BY <2>2 DEF WriteRow
  <2>4. plan[w].row = Current(w).row /\ plan[w].row # NoRow
    BY <1>3, <2>1, SentinelAssumption DEF RowPlan
  <2>5. rows'[t] = [rows[t] EXCEPT ![s] = Current(w).row]
    BY <1>3, <1>5, <2>3, <2>4
  <2>6. plan[w].conf = Aggregate(rows'[t])
    BY <2>1, <2>5 DEF RowPlan
  <2>7. rows'[t][s] # NoRow
    BY <1>3, <1>5, <2>4, <2>5 DEF TripleRows
  <2>8. \A u \in Triples \ {t} : rows'[u] = rows[u]
    BY <1>5, <2>3
  <2>9. \A u \in Triples, x \in Sources : rows[u][x] # NoRow => rows'[u][x] # NoRow
    BY <1>5, <2>4, <2>5, <2>7, <2>8 DEF TripleRows
  <2> QED
    BY <1>3, <2>2, <2>3, <2>6, <2>7, <2>8, <2>9
<1> QED
  BY <1>6, <1>7

\* What setting the planned arrow does: it agrees with the triple's rows.
LEMMA ArrowWritten ==
    ASSUME IInv, NEW w \in Writers, WriteArrow(w)
    PROVE  LET t == Target(w)
           IN  /\ t \in Triples /\ Support(rows[t]) # {}
               /\ arrows' = [arrows EXCEPT ![t] = SetArrow(@, Aggregate(rows[t]), plan[w].scope)]
               /\ torn' = torn \ {t}
               /\ lost' = IF plan[w].scope = NoScope THEN lost ELSE lost \ {t}
               /\ Derived(arrows'[t], rows[t])
<1> DEFINE t == Target(w)  s == Current(w).source
<1>1. phase[w] = "arrow"
  BY DEF WriteArrow, Step
<1>2. Present(t) /\ at[w] \in DOMAIN batch[w]
  BY <1>1, TargetPresent
<1>3. t \in Triples /\ s \in Sources
  BY <1>2, CurrentType DEF IInv
<1>4. rows[t][s] # NoRow /\ plan[w].conf = Aggregate(rows[t])
  BY <1>1 DEF IInv, PlanFresh, Recorded, Target, Current
<1>5. rows[t] \in TripleRows
  BY <1>3 DEF IInv, TypeOK
<1>6. Support(rows[t]) # {}
  BY <1>3, <1>4, <1>5 DEF Support, TripleRows
<1>7. /\ arrows' = [arrows EXCEPT ![t] = SetArrow(@, Aggregate(rows[t]), plan[w].scope)]
      /\ torn' = torn \ {t}
      /\ lost' = IF plan[w].scope = NoScope THEN lost ELSE lost \ {t}
  BY <1>2, <1>4 DEF WriteArrow
<1>8. plan[w].scope \in Scopes /\ arrows[t] \in Arrow \cup {NoArrow}
  BY <1>3 DEF IInv, TypeOK, Plan
<1>9. /\ SetArrow(arrows[t], Aggregate(rows[t]), plan[w].scope) \in Arrow
      /\ SetArrow(arrows[t], Aggregate(rows[t]), plan[w].scope).conf = Aggregate(rows[t])
  BY <1>5, <1>8, AggregateType, SetArrowType
<1>10. arrows'[t] = SetArrow(arrows[t], Aggregate(rows[t]), plan[w].scope)
  BY <1>3, <1>7 DEF IInv, TypeOK
<1> QED
  BY <1>3, <1>6, <1>7, <1>9, <1>10, SentinelAssumption DEF Derived

\* The parts of IInv that are not types, for the one process w.
Fresh(w) == ArrowsDerived /\ PlanFresh(w) /\ ClaimsInOrder(w) /\ EntitiesFirst(w)

LEMMA InitIInv == Init => IInv
<1> SUFFICES ASSUME Init PROVE IInv
  OBVIOUS
<1>1. TypeOK
  BY InitTInv DEF TInv
<1>2. \A t \in Triples : Support(rows[t]) = {}
  BY DEF Init, Support, NoRows
<1>3. ArrowsDerived
  BY <1>2 DEF Init, ArrowsDerived, Derived
<1>4. \A w \in Writers : DOMAIN batch[w] = {}
  BY DEF Init
<1> QED
  BY <1>1, <1>3, <1>4 DEF Init, IInv, PlanFresh, ClaimsInOrder, EntitiesFirst, Active

LEMMA BeginFresh ==
    ASSUME TInv, IInv, NEW w \in Writers, NEW b \in Batches, NEW m \in Modes, Begin(w, b, m)
    PROVE  Fresh(w)'
<1>1. b \in Seq(Claim) /\ b # <<>>
  BY WriterAssumption DEF Begin
<1>2. 1 \in DOMAIN b /\ \A i \in DOMAIN b : i \in Nat /\ i >= 1
  BY <1>1, EmptySeq, LenProperties
<1>3. /\ phase'[w] = "entities" /\ at'[w] = 1 /\ batch'[w] = b /\ mode'[w] = m
      /\ fresh'[w] = BatchEntities(b)
  BY DEF Begin, TInv, TypeOK
<1>4. UNCHANGED <<rows, arrows, entities, torn>>
  BY DEF Begin, storeVars, history
<1>5. ArrowsDerived'
  BY <1>4 DEF IInv, ArrowsDerived
<1>6. PlanFresh(w)'
  BY <1>3 DEF PlanFresh
<1>7. ClaimsInOrder(w)'
  BY <1>2, <1>3 DEF ClaimsInOrder
<1>8. EntitiesFirst(w)'
  BY <1>3, <1>4 DEF EntitiesFirst, BatchEntities
<1> QED
  BY <1>5, <1>6, <1>7, <1>8 DEF Fresh

LEMMA EntityStepFresh ==
    ASSUME TInv, IInv, NEW w \in Writers,
           (\E e \in Entities : UpsertEntity(w, e)) \/ EntitiesDone(w) \/ LoadRows(w)
    PROVE  Fresh(w)'
<1>1. UNCHANGED <<rows, arrows, torn, batch, at, mode>>
  BY DEF UpsertEntity, EntitiesDone, LoadRows, storeVars, history
<1>2. ArrowsDerived'
  BY <1>1 DEF IInv, ArrowsDerived
<1>3. Active(w) /\ Active(w)' /\ phase'[w] \notin {"arrow", "done"}
  BY DEF UpsertEntity, EntitiesDone, LoadRows, Step, Active, TInv, TypeOK
<1>4. ClaimsInOrder(w)'
  BY <1>1, <1>3 DEF IInv, ClaimsInOrder, Recorded, Active
<1>5. PlanFresh(w)'
  <2>1. CASE LoadRows(w)
    BY <1>1, <1>3, <2>1 DEF LoadRows, Step, PlanFresh, TInv, TypeOK, Target, Current
  <2>2. CASE ~LoadRows(w)
    BY <1>3, <2>2 DEF UpsertEntity, EntitiesDone, Step, PlanFresh, TInv, TypeOK
  <2> QED
    BY <2>1, <2>2
<1>6. EntitiesFirst(w)'
  <2>1. ASSUME NEW e \in Entities, UpsertEntity(w, e) PROVE EntitiesFirst(w)'
    <3>1. phase'[w] = "entities" /\ phase[w] = "entities"
      BY <2>1 DEF UpsertEntity
    <3>2. entities' \cup fresh'[w] = entities \cup fresh[w]
      BY <2>1 DEF UpsertEntity, TInv, TypeOK
    <3> QED
      BY <1>1, <3>1, <3>2 DEF IInv, EntitiesFirst
  <2>2. CASE EntitiesDone(w)
    BY <1>1, <2>2 DEF EntitiesDone, Step, IInv, EntitiesFirst, storeVars, TypeOK
  <2>3. CASE LoadRows(w)
    BY <1>1, <2>3 DEF LoadRows, Step, IInv, EntitiesFirst, storeVars, TypeOK
  <2> QED
    BY <2>1, <2>2, <2>3
<1> QED
  BY <1>2, <1>4, <1>5, <1>6 DEF Fresh

LEMMA WriteRowFresh ==
    ASSUME TInv, IInv, NEW w \in Writers, WriteRow(w)
    PROVE  Fresh(w)'
<1> DEFINE t == Target(w)
<1>1. /\ phase[w] = "row" /\ phase'[w] = "arrow"
      /\ UNCHANGED <<arrows, entities, mode, batch, at, plan>>
  BY DEF WriteRow, Step, TInv, TypeOK
<1>2. /\ t \in Triples /\ rows'[t][Current(w).source] # NoRow
      /\ plan[w].conf = Aggregate(rows'[t])
      /\ t \in torn' \/ plan[w].scope = NoScope
      /\ \A u \in Triples, s \in Sources : rows[u][s] # NoRow => rows'[u][s] # NoRow
      /\ \A u \in Triples : u \in torn' \/ rows'[u] = rows[u]
      /\ torn \subseteq torn'
  BY RowWritten
<1>3. ArrowsDerived'
  BY <1>1, <1>2 DEF IInv, ArrowsDerived
<1>4. Target(w)' = t /\ Current(w)' = Current(w)
  BY <1>1 DEF Target, Current
<1>5. PlanFresh(w)'
  BY <1>1, <1>2, <1>4 DEF PlanFresh, Recorded, Target, Current
<1>6. \A i \in DOMAIN batch[w] : Recorded(w, i) => Recorded(w, i)'
  <2> SUFFICES ASSUME NEW i \in DOMAIN batch[w], Recorded(w, i) PROVE Recorded(w, i)'
    OBVIOUS
  <2>1. batch[w][i] \in Claim
    BY LenProperties, ElementOfSeq DEF TInv, TypeOK
  <2>2. Canonical[batch[w][i].triple] \in Triples /\ batch[w][i].source \in Sources
    BY <2>1, WriterAssumption DEF Claim
  <2> QED
    BY <1>1, <1>2, <2>2 DEF Recorded
<1>7. ClaimsInOrder(w)'
  BY <1>1, <1>6 DEF IInv, ClaimsInOrder, Active
<1>8. EntitiesFirst(w)'
  BY <1>1 DEF IInv, EntitiesFirst
<1> QED
  BY <1>3, <1>5, <1>7, <1>8 DEF Fresh

LEMMA WriteArrowFresh ==
    ASSUME TInv, IInv, NEW w \in Writers, WriteArrow(w)
    PROVE  Fresh(w)'
<1> DEFINE t == Target(w)
<1>1. /\ phase[w] = "arrow" /\ phase'[w] = AfterClaim(w) /\ at'[w] = at[w] + 1
      /\ UNCHANGED <<rows, entities, mode, batch>>
  BY DEF WriteArrow, Step, TInv, TypeOK
<1>2. /\ t \in Triples /\ torn' = torn \ {t} /\ Derived(arrows'[t], rows[t])
      /\ arrows' = [arrows EXCEPT ![t] = SetArrow(@, Aggregate(rows[t]), plan[w].scope)]
  BY ArrowWritten
<1>3. ArrowsDerived'
  <2>1. \A u \in Triples \ {t} : arrows'[u] = arrows[u]
    BY <1>2 DEF TInv, TypeOK
  <2> QED
    BY <1>1, <1>2, <2>1 DEF IInv, ArrowsDerived
<1>4. AfterClaim(w) \in {"load", "done"}
  BY DEF AfterClaim
<1>5. PlanFresh(w)'
  BY <1>1, <1>4 DEF PlanFresh
<1>6. /\ at[w] \in DOMAIN batch[w] /\ mode[w] \in Modes /\ Recorded(w, at[w])
      /\ \A i \in DOMAIN batch[w] : i < at[w] => Recorded(w, i)
  BY <1>1 DEF IInv, ClaimsInOrder, PlanFresh, Active
<1>7. Len(batch[w]) \in Nat /\ DOMAIN batch[w] = 1..Len(batch[w])
  BY LenProperties DEF TInv, TypeOK
<1>8. \A i \in DOMAIN batch[w] : i < at[w] + 1 => Recorded(w, i)
  BY <1>6, <1>7
<1>9. ClaimsInOrder(w)'
  <2>1. \A i \in DOMAIN batch'[w] : i < at'[w] => Recorded(w, i)'
    BY <1>1, <1>8 DEF Recorded
  <2>2. phase'[w] = "done" => at'[w] = Len(batch'[w]) + 1
    BY <1>1 DEF AfterClaim
  <2>3. phase'[w] # "done" => at'[w] \in DOMAIN batch'[w]
    BY <1>1, <1>6, <1>7 DEF AfterClaim
  <2> QED
    BY <1>1, <1>4, <1>6, <2>1, <2>2, <2>3 DEF ClaimsInOrder, Active
<1>10. EntitiesFirst(w)'
  BY <1>1, <1>4 DEF IInv, EntitiesFirst
<1> QED
  BY <1>3, <1>5, <1>9, <1>10 DEF Fresh

LEMMA StopFresh ==
    ASSUME TInv, IInv, NEW w \in Writers, Crash(w) \/ Reset(w)
    PROVE  Fresh(w)'
<1>1. phase'[w] = "idle" /\ batch'[w] = <<>>
  BY DEF Crash, Reset, TInv, TypeOK
<1>2. PlanFresh(w)' /\ ClaimsInOrder(w)' /\ EntitiesFirst(w)'
  BY <1>1 DEF PlanFresh, ClaimsInOrder, EntitiesFirst, Active
<1>3. ArrowsDerived'
  <2>1. CASE Crash(w)
    BY <2>1 DEF Crash, storeVars, history, IInv, ArrowsDerived
  <2>2. CASE Reset(w)
    <3>1. \A t \in Triples : rows'[t] = NoRows /\ arrows'[t] = NoArrow
      BY <2>2 DEF Reset
    <3>2. Support(NoRows) = {}
      BY DEF Support, NoRows
    <3> QED
      BY <3>1, <3>2 DEF ArrowsDerived, Derived
  <2> QED
    BY <2>1, <2>2
<1> QED
  BY <1>2, <1>3 DEF Fresh

LEMMA NextIInv ==
    ASSUME SingleWriter, TInv, IInv, [Next]_vars
    PROVE  IInv'
<1>1. TypeOK'
  BY NextTInv DEF TInv
<1>2. CASE UNCHANGED vars
  <2>1. UNCHANGED <<rows, arrows, entities, phase, mode, batch, at, fresh, plan, torn>>
    BY <1>2 DEF vars, storeVars, procVars, history
  <2>2. ArrowsDerived'
    BY <2>1 DEF IInv, ArrowsDerived
  <2>3. ASSUME NEW w \in Writers PROVE (PlanFresh(w) /\ ClaimsInOrder(w) /\ EntitiesFirst(w))'
    BY <2>1 DEF IInv, PlanFresh, ClaimsInOrder, EntitiesFirst, Active, Recorded, Target, Current
  <2> QED
    BY <1>1, <2>2, <2>3 DEF IInv
<1>3. CASE Next
  <2>1. PICK w \in Writers : \/ \E b \in Batches, m \in Modes : Begin(w, b, m)
                             \/ Commit(w) \/ Crash(w) \/ Reset(w)
    BY <1>3 DEF Next
  <2>2. Fresh(w)'
    BY <2>1, BeginFresh, EntityStepFresh, WriteRowFresh, WriteArrowFresh, StopFresh DEF Commit
  <2>3. \A v \in Writers : v = w
    BY DEF SingleWriter
  <2> QED
    BY <1>1, <2>2, <2>3 DEF IInv, Fresh
<1> QED
  BY <1>2, <1>3

\* The inductive invariant of one process.
THEOREM SingleIInv ==
    ASSUME SingleWriter
    PROVE  Spec => []IInv
<1>1. TInv /\ IInv /\ [Next]_vars => IInv'
  BY NextIInv
<1> QED
  BY <1>1, InitTInv, NextTInv, InitIInv, PTL DEF Spec

\* ADR-0002 for one process, whatever crashes happen: an arrow is the aggregate
\* of its triple's rows unless the process died between the two writes.
THEOREM ArrowsAreDerived ==
    ASSUME SingleWriter
    PROVE  Spec => []ArrowsDerived
<1>1. IInv => ArrowsDerived
  BY DEF IInv
<1> QED
  BY <1>1, SingleIInv, PTL

\* For one process: an arrow that agrees with its rows does not move unless a
\* row of its triple was written -- a repeated claim never wobbles the graph.
THEOREM ArrowsDoNotWobble ==
    ASSUME SingleWriter
    PROVE  Spec => NoWobble
<1>1. TInv /\ IInv /\ [Next]_vars =>
        [\A t \in Triples :
          Derived(arrows[t], rows[t]) /\ t \notin torn /\ resets' = resets
              => arrows'[t] = arrows[t]]_vars
  <2> SUFFICES ASSUME TInv, IInv, Next, NEW t \in Triples, Derived(arrows[t], rows[t]),
                      t \notin torn, resets' = resets
               PROVE  arrows'[t] = arrows[t]
    OBVIOUS
  <2>1. PICK w \in Writers : \/ \E b \in Batches, m \in Modes : Begin(w, b, m)
                             \/ Commit(w) \/ Crash(w) \/ Reset(w)
    BY DEF Next
  <2>2. CASE ~WriteArrow(w)
    <3>1. resets \in Nat
      BY DEF TInv, TypeOK
    <3> QED
      BY <2>1, <2>2, <3>1 DEF Begin, Commit, UpsertEntity, EntitiesDone, LoadRows, WriteRow,
         Crash, Reset, storeVars
  <2>3. CASE WriteArrow(w)
    <3>1. /\ Support(rows[Target(w)]) # {}
          /\ arrows' = [arrows EXCEPT ![Target(w)] =
                           SetArrow(@, Aggregate(rows[Target(w)]), plan[w].scope)]
      BY <2>3, ArrowWritten
    <3>2. CASE Target(w) # t
      BY <3>1, <3>2 DEF TInv, TypeOK
    <3>3. CASE Target(w) = t
      <4>1. plan[w].scope = NoScope
        BY <2>3, <3>3 DEF WriteArrow, Step, IInv, PlanFresh
      <4>2. arrows[t] # NoArrow /\ arrows[t].conf = Aggregate(rows[t])
        BY <3>1, <3>3 DEF Derived
      <4>3. arrows[t] \in Arrow
        BY <4>2 DEF TInv, TypeOK
      <4>4. SetArrow(arrows[t], Aggregate(rows[t]), NoScope) = arrows[t]
        BY <4>2, <4>3 DEF SetArrow, Arrow
      <4> QED
        BY <3>1, <3>3, <4>1, <4>4 DEF TInv, TypeOK
    <3> QED
      BY <3>2, <3>3
  <2> QED
    BY <2>2, <2>3
<1> QED
  BY <1>1, InitTInv, NextTInv, InitIInv, NextIInv, PTL DEF Spec, NoWobble

-----------------------------------------------------------------------------
(* One process: what a crash can leave behind.                                *)

\* The torn triples that no process is about to mend.
Orphans(w) == IF phase[w] = "arrow" THEN torn \ {Target(w)} ELSE torn

TearInv ==
    /\ IsFiniteSet(torn)
    /\ Writers = {} => torn = {}
    /\ \A w \in Writers : Cardinality(Orphans(w)) <= crashes

LEMMA OneOut ==
    ASSUME NEW S, IsFiniteSet(S), NEW x
    PROVE  /\ IsFiniteSet(S \ {x}) /\ Cardinality(S \ {x}) \in Nat
           /\ Cardinality(S) \in Nat /\ Cardinality(S) <= Cardinality(S \ {x}) + 1
<1>1. IsFiniteSet(S \ {x})
  BY FS_RemoveElement
<1>2. Cardinality(S \ {x}) \in Nat /\ Cardinality(S) \in Nat
  BY <1>1, FS_CardinalityType
<1>3. Cardinality(S \ {x}) = IF x \in S THEN Cardinality(S) - 1 ELSE Cardinality(S)
  BY FS_RemoveElement
<1> QED
  BY <1>1, <1>2, <1>3

LEMMA InitTearInv == Init => TearInv
  BY FS_EmptySet DEF Init, TearInv, Orphans

LEMMA NextTearInv ==
    ASSUME SingleWriter, TInv, IInv, TearInv, [Next]_vars
    PROVE  TearInv'
<1>0. crashes \in Nat
  BY WriterAssumption DEF TInv, TypeOK
<1>1. CASE UNCHANGED vars
  <2>1. UNCHANGED <<torn, crashes>> /\ \A w \in Writers : Orphans(w)' = Orphans(w)
    BY <1>1 DEF vars, procVars, history, bounds, Orphans, Target, Current
  <2> QED
    BY <2>1 DEF TearInv
<1>2. CASE Next
  <2>1. PICK w \in Writers : \/ \E b \in Batches, m \in Modes : Begin(w, b, m)
                             \/ Commit(w) \/ Crash(w) \/ Reset(w)
    BY <1>2 DEF Next
  <2>2. \A v \in Writers : v = w
    BY DEF SingleWriter
  <2>3. SUFFICES IsFiniteSet(torn') /\ Cardinality(Orphans(w)') <= crashes'
    BY <2>1, <2>2 DEF TearInv
  <2>4. /\ IsFiniteSet(torn) /\ IsFiniteSet(Orphans(w)) /\ Orphans(w) \subseteq torn
        /\ Cardinality(torn) \in Nat /\ Cardinality(Orphans(w)) <= crashes
        /\ Cardinality(torn) <= Cardinality(Orphans(w)) + 1
    <3>1. IsFiniteSet(torn) /\ Cardinality(Orphans(w)) <= crashes
      BY DEF TearInv
    <3>2. CASE phase[w] = "arrow"
      BY <3>1, <3>2, OneOut DEF Orphans
    <3>3. CASE phase[w] # "arrow"
      <4>1. Orphans(w) = torn /\ Cardinality(torn) \in Nat
        BY <3>1, <3>3, FS_CardinalityType DEF Orphans
      <4> QED
        BY <3>1, <4>1
    <3> QED
      BY <3>2, <3>3
  <2>5. CASE WriteRow(w)
    <3>1. /\ phase[w] # "arrow" /\ phase'[w] = "arrow" /\ UNCHANGED <<batch, at, crashes>>
          /\ torn' = torn \/ torn' = torn \cup {Target(w)}
      BY <2>5 DEF WriteRow, Step, TInv, TypeOK, bounds
    <3>2. Orphans(w) = torn /\ Orphans(w)' = torn' \ {Target(w)}
      BY <3>1 DEF Orphans, Target, Current
    <3>3. IsFiniteSet(torn') /\ Orphans(w)' \subseteq torn
      BY <2>4, <3>1, <3>2, FS_AddElement
    <3>4. Cardinality(Orphans(w)') <= Cardinality(torn) /\ Cardinality(Orphans(w)') \in Nat
      BY <2>4, <3>3, FS_Subset, FS_CardinalityType
    <3> QED
      BY <1>0, <2>4, <3>1, <3>2, <3>3, <3>4
  <2>6. CASE WriteArrow(w)
    <3>1. phase[w] = "arrow" /\ phase'[w] # "arrow" /\ crashes' = crashes
      BY <2>6 DEF WriteArrow, Step, AfterClaim, TInv, TypeOK, bounds
    <3>2. torn' = torn \ {Target(w)}
      BY <2>6, ArrowWritten
    <3> QED
      BY <2>4, <3>1, <3>2 DEF Orphans
  <2>7. CASE Crash(w)
    <3>1. phase'[w] # "arrow" /\ torn' = torn /\ crashes' = crashes + 1
      BY <2>7 DEF Crash, TInv, TypeOK, history
    <3>2. Cardinality(Orphans(w)) \in Nat
      BY <2>4, FS_CardinalityType
    <3> QED
      BY <1>0, <2>4, <3>1, <3>2 DEF Orphans
  <2>8. CASE Reset(w)
    <3>1. torn' = {} /\ phase'[w] # "arrow" /\ crashes' = crashes
      BY <2>8 DEF Reset, TInv, TypeOK
    <3> QED
      BY <1>0, <3>1, FS_EmptySet DEF Orphans
  <2>9. CASE \/ \E b \in Batches, m \in Modes : Begin(w, b, m)
             \/ \E e \in Entities : UpsertEntity(w, e)
             \/ EntitiesDone(w) \/ LoadRows(w)
    <3>1. phase[w] # "arrow" /\ phase'[w] # "arrow" /\ UNCHANGED <<torn, crashes>>
      BY <2>9 DEF Begin, UpsertEntity, EntitiesDone, LoadRows, Step, TInv, TypeOK,
         history, bounds
    <3> QED
      BY <2>4, <3>1 DEF Orphans
  <2> QED
    BY <2>1, <2>5, <2>6, <2>7, <2>8, <2>9 DEF Commit
<1> QED
  BY <1>1, <1>2

\* For one process: each crash, wherever it strikes, leaves at most the arrow of
\* the claim in hand out of step with its rows.
THEOREM OneTearPerCrashHolds ==
    ASSUME SingleWriter
    PROVE  Spec => []OneTearPerCrash
<1>1. TInv /\ IInv /\ TearInv => OneTearPerCrash
  <2> SUFFICES ASSUME TInv, IInv, TearInv PROVE OneTearPerCrash
    OBVIOUS
  <2> DEFINE stale == {t \in Triples : ~Derived(arrows[t], rows[t])}
             held == {w \in Writers : phase[w] = "arrow"}
  <2>1. stale \subseteq torn /\ IsFiniteSet(torn)
    BY DEF IInv, ArrowsDerived, TearInv
  <2>2. Cardinality(stale) <= Cardinality(torn) /\ Cardinality(torn) \in Nat
        /\ Cardinality(stale) \in Nat
    BY <2>1, FS_Subset, FS_CardinalityType
  <2>3. crashes \in Nat
    BY WriterAssumption DEF TInv, TypeOK
  <2> SUFFICES Cardinality(stale) <= crashes + Cardinality(held)
    BY DEF OneTearPerCrash
  <2>4. CASE Writers = {}
    <3>1. held = {} /\ Cardinality(torn) = 0
      BY <2>4, FS_EmptySet DEF TearInv
    <3> HIDE DEF held, stale
    <3> QED
      BY <2>2, <2>3, <3>1, FS_EmptySet
  <2>5. ASSUME NEW w \in Writers PROVE Cardinality(stale) <= crashes + Cardinality(held)
    <3>1. Writers = {w}
      BY DEF SingleWriter
    <3>2. IsFiniteSet(Orphans(w)) /\ Cardinality(Orphans(w)) \in Nat
          /\ Cardinality(Orphans(w)) <= crashes
      BY <2>1, FS_Subset, FS_CardinalityType DEF TearInv, Orphans
    <3>3. CASE phase[w] # "arrow"
      <4>1. held = {} /\ Orphans(w) = torn
        BY <3>1, <3>3 DEF Orphans
      <4> HIDE DEF held, stale
      <4> QED
        BY <2>2, <2>3, <3>2, <4>1, FS_EmptySet
    <3>4. CASE phase[w] = "arrow"
      <4>1. held = {w} /\ Orphans(w) = torn \ {Target(w)}
        BY <3>1, <3>4 DEF Orphans
      <4>2. Cardinality(torn) <= Cardinality(Orphans(w)) + 1
        BY <2>1, <4>1, OneOut
      <4> HIDE DEF held, stale
      <4> QED
        BY <2>2, <2>3, <3>2, <4>1, <4>2, FS_Singleton
    <3> QED
      BY <3>3, <3>4
  <2> QED
    BY <2>4, <2>5
<1> QED
  BY <1>1, InitTInv, NextTInv, InitIInv, NextIInv, InitTearInv, NextTearInv, PTL DEF Spec

-----------------------------------------------------------------------------
(* One process: whose scope an arrow carries.                                 *)

\* The arrow of t carries the last scope a row of t was written with.
Matches(t) == newest[t] = IF arrows[t] = NoArrow THEN NoScope ELSE arrows[t].scope

\* Process w has yet to put on an arrow the scope of the row it wrote.
Carries(w) == phase[w] = "arrow" /\ plan[w].scope # NoScope

ScopeInv ==
    /\ \A t \in Triples \ lost :
          Matches(t) \/ \E w \in Writers : Carries(w) /\ Target(w) = t
    /\ \A w \in Writers : Carries(w) => newest[Target(w)] = plan[w].scope

LEMMA InitScopeInv == Init => ScopeInv
  BY DEF Init, ScopeInv, Matches, Carries

LEMMA WriteRowScopes ==
    ASSUME SingleWriter, TInv, IInv, ScopeInv, NEW w \in Writers, WriteRow(w)
    PROVE  ScopeInv'
<1>1. /\ phase[w] = "row" /\ UNCHANGED <<batch, at, plan, arrows, lost>>
      /\ phase'[w] = "arrow"
  BY DEF WriteRow, Step, TInv, TypeOK
<1>2. \A v \in Writers : v = w
  BY DEF SingleWriter
<1>3. \A t \in Triples \ lost : Matches(t)
  BY <1>1, <1>2 DEF ScopeInv, Carries
<1>4. PICK t \in Triples : t = Target(w) /\ Target(w)' = t
  BY <1>1, RowWritten DEF Target, Current
<1>5. newest \in [Triples -> Scopes]
  BY DEF TInv, TypeOK
<1>6. CASE plan[w].scope = NoScope
  <2>1. newest' = newest
    BY <1>6 DEF WriteRow
  <2> QED
    BY <1>1, <1>2, <1>3, <1>6, <2>1 DEF ScopeInv, Matches, Carries
<1>7. CASE plan[w].scope # NoScope
  <2>1. newest' = [newest EXCEPT ![t] = plan[w].scope]
    BY <1>4, <1>7, RowWritten DEF WriteRow
  <2>2. Carries(w)' /\ newest'[t] = plan'[w].scope
    BY <1>1, <1>5, <1>7, <2>1 DEF Carries
  <2>3. \A u \in Triples \ lost : u # t => Matches(u)'
    BY <1>1, <1>3, <1>5, <2>1 DEF Matches
  <2> QED
    BY <1>1, <1>2, <1>4, <2>2, <2>3 DEF ScopeInv
<1> QED
  BY <1>6, <1>7

LEMMA WriteArrowScopes ==
    ASSUME SingleWriter, TInv, IInv, ScopeInv, NEW w \in Writers, WriteArrow(w)
    PROVE  ScopeInv'
<1>1. /\ phase[w] = "arrow" /\ phase'[w] # "arrow" /\ newest' = newest
  BY DEF WriteArrow, Step, AfterClaim, TInv, TypeOK
<1>2. \A v \in Writers : v = w
  BY DEF SingleWriter
<1>3. PICK t \in Triples : t = Target(w)
  BY ArrowWritten
<1>4. /\ arrows' = [arrows EXCEPT ![t] = SetArrow(@, Aggregate(rows[t]), plan[w].scope)]
      /\ Derived(arrows'[t], rows[t]) /\ Support(rows[t]) # {}
      /\ lost' = IF plan[w].scope = NoScope THEN lost ELSE lost \ {t}
  BY <1>3, ArrowWritten
<1>5. DOMAIN arrows = Triples
  BY DEF TInv, TypeOK
<1>6. arrows'[t] # NoArrow
      /\ arrows'[t] = SetArrow(arrows[t], Aggregate(rows[t]), plan[w].scope)
  BY <1>4, <1>5 DEF Derived
<1>7. \A u \in Triples \ lost : u # t => Matches(u)'
  BY <1>1, <1>2, <1>3, <1>4, <1>5 DEF ScopeInv, Matches
<1>8. CASE plan[w].scope = NoScope
  <2>1. t \notin lost => Matches(t)
    BY <1>2, <1>8 DEF ScopeInv, Carries
  <2>2. t \notin lost => Matches(t)'
    BY <1>1, <1>6, <1>8, <2>1 DEF Matches, SetArrow
  <2> QED
    BY <1>1, <1>2, <1>4, <1>7, <1>8, <2>2 DEF ScopeInv, Carries
<1>9. CASE plan[w].scope # NoScope
  <2>1. newest[t] = plan[w].scope
    BY <1>1, <1>3, <1>9 DEF ScopeInv, Carries
  <2>2. Matches(t)'
    BY <1>1, <1>6, <1>9, <2>1 DEF Matches, SetArrow
  <2> QED
    BY <1>1, <1>2, <1>4, <1>7, <1>9, <2>2 DEF ScopeInv, Carries
<1> QED
  BY <1>8, <1>9

LEMMA NextScopeInv ==
    ASSUME SingleWriter, TInv, IInv, ScopeInv, [Next]_vars
    PROVE  ScopeInv'
<1>1. CASE UNCHANGED vars
  <2>1. UNCHANGED <<newest, arrows, phase, plan, lost>>
        /\ \A w \in Writers : Target(w)' = Target(w)
    BY <1>1 DEF vars, storeVars, procVars, history, Target, Current
  <2> QED
    BY <2>1 DEF ScopeInv, Matches, Carries
<1>2. CASE Next
  <2>1. PICK w \in Writers : \/ \E b \in Batches, m \in Modes : Begin(w, b, m)
                             \/ Commit(w) \/ Crash(w) \/ Reset(w)
    BY <1>2 DEF Next
  <2>2. \A v \in Writers : v = w
    BY DEF SingleWriter
  <2>3. CASE Crash(w)
    <3>1. /\ phase'[w] # "arrow" /\ UNCHANGED <<newest, arrows>>
          /\ lost' = IF Carries(w) THEN lost \cup {Target(w)} ELSE lost
      BY <2>3 DEF Crash, TInv, TypeOK, storeVars, Carries
    <3>2. \A t \in Triples \ lost' : Matches(t)'
      BY <2>2, <3>1 DEF ScopeInv, Matches
    <3> QED
      BY <2>2, <3>1, <3>2 DEF ScopeInv, Carries
  <2>4. CASE Reset(w)
    <3>1. /\ phase'[w] # "arrow"
          /\ newest' = [t \in Triples |-> NoScope] /\ arrows' = [t \in Triples |-> NoArrow]
      BY <2>4 DEF Reset, TInv, TypeOK
    <3> QED
      BY <2>2, <3>1 DEF ScopeInv, Matches, Carries
  <2>5. CASE \/ \E b \in Batches, m \in Modes : Begin(w, b, m)
             \/ \E e \in Entities : UpsertEntity(w, e)
             \/ EntitiesDone(w) \/ LoadRows(w)
    <3>1. /\ phase[w] # "arrow" /\ phase'[w] # "arrow"
          /\ UNCHANGED <<newest, arrows, lost>>
      BY <2>5 DEF Begin, UpsertEntity, EntitiesDone, LoadRows, Step, TInv, TypeOK,
         storeVars, history
    <3> QED
      BY <2>2, <3>1 DEF ScopeInv, Matches, Carries
  <2> QED
    BY <2>1, <2>3, <2>4, <2>5, WriteRowScopes, WriteArrowScopes DEF Commit
<1> QED
  BY <1>1, <1>2

\* For one process, repeated claims, refreshes, deaths and resets included: an
\* arrow's denormalized scope is that of the last row that had one, but where
\* the process died holding it.
THEOREM ScopeFollowsRowsHolds ==
    ASSUME SingleWriter
    PROVE  Spec => []ScopeFollowsRows
<1>1. ScopeInv => ScopeFollowsRows
  BY DEF ScopeInv, ScopeFollowsRows, Matches, Carries, Quiet
<1> QED
  BY <1>1, InitTInv, NextTInv, InitIInv, NextIInv, InitScopeInv, NextScopeInv,
     PTL DEF Spec

\* The abstract ledger's data operators are this module's.
LEMMA AbsStore ==
    /\ Abs!Row = Row
    /\ Abs!NoRows = NoRows
    /\ \A rs : Abs!Support(rs) = Support(rs)
    /\ \A a, c, s : Abs!SetArrow(a, c, s) = SetArrow(a, c, s)
    /\ \A rs : Abs!Aggregate(rs) = Aggregate(rs)
<1>1. Abs!Row = Row /\ Abs!NoRows = NoRows
  BY DEF Abs!Row, Row, Abs!NoRows, NoRows
<1>2. \A rs : Abs!Support(rs) = Support(rs)
  BY DEF Abs!Support, Support
<1>3. \A a, c, s : Abs!SetArrow(a, c, s) = SetArrow(a, c, s)
  BY DEF Abs!SetArrow, SetArrow
<1>4. \A rs : Abs!Aggregate(rs) = Aggregate(rs)
  BY DEF Abs!Aggregate, Aggregate, Abs!Support, Support, Abs!SumFunction, SumFunction,
     Abs!SumFunctionOnSet, SumFunctionOnSet, Abs!FoldFunctionOnSet, FoldFunctionOnSet,
     Abs!MapThenFoldSet, MapThenFoldSet
<1> QED
  BY <1>1, <1>2, <1>3, <1>4

\* One process implements the abstract ledger: a row write records a row, an
\* arrow write derives an arrow, and every other step, a crash included, is
\* invisible.
THEOREM Refinement ==
    ASSUME SingleWriter
    PROVE  Spec => ImplementsLedger
<1>1. Init => Abs!Init
  BY AbsStore DEF Init, Abs!Init
<1>2. TInv /\ IInv /\ [Next]_vars => [Abs!Next]_(Abs!vars)
  <2> SUFFICES ASSUME TInv, IInv, [Next]_vars
               PROVE  Abs!Next \/ UNCHANGED <<rows, arrows>>
    BY DEF Abs!vars
  <2>1. CASE UNCHANGED vars
    BY <2>1 DEF vars, storeVars
  <2>2. ASSUME NEW w \in Writers,
               \/ \E b \in Batches, m \in Modes : Begin(w, b, m)
               \/ \E e \in Entities : UpsertEntity(w, e)
               \/ EntitiesDone(w) \/ LoadRows(w) \/ Crash(w)
        PROVE  UNCHANGED <<rows, arrows>>
    BY <2>2 DEF Begin, UpsertEntity, EntitiesDone, LoadRows, Crash, storeVars
  <2>3. ASSUME NEW w \in Writers, WriteRow(w)
        PROVE  Abs!Next \/ UNCHANGED <<rows, arrows>>
    <3>1. CASE ~Writes(w)
      BY <2>3, <3>1 DEF WriteRow
    <3>2. CASE Writes(w)
      <4>1. phase[w] = "row"
        BY <2>3 DEF WriteRow, Step
      <4>2. Target(w) \in Triples /\ Current(w).source \in Sources /\ Current(w).row \in Row
        BY <4>1, TargetPresent, CurrentType DEF IInv
      <4>3. plan[w] = PlanWrite(rows[Target(w)], Current(w), mode[w])
        BY <4>1 DEF IInv, PlanFresh
      <4>4. plan[w].row = Current(w).row
        BY <3>2, <4>3 DEF Writes, PlanWrite, SkipPlan, RowPlan
      <4>5. rows[Target(w)][Current(w).source] = NoRow \/ "refresh" \in Modes
        BY <3>2, <4>1 DEF Writes, TInv, ModeOfPlan, Active
      <4>6. /\ rows' = [rows EXCEPT ![Target(w)] = [@ EXCEPT ![Current(w).source] = plan[w].row]]
            /\ arrows' = arrows
        BY <2>3, <3>2 DEF WriteRow
      <4>7. Abs!Record(Target(w), Current(w).source, plan[w].row)
        BY <4>5, <4>6 DEF Abs!Record
      <4> QED
        BY <4>2, <4>4, <4>7, AbsStore DEF Abs!Next
    <3> QED
      BY <3>1, <3>2
  <2>4. ASSUME NEW w \in Writers, WriteArrow(w) PROVE Abs!Next
    <3>1. /\ Target(w) \in Triples /\ Support(rows[Target(w)]) # {}
          /\ arrows' = [arrows EXCEPT ![Target(w)] =
                           SetArrow(@, Aggregate(rows[Target(w)]), plan[w].scope)]
      BY <2>4, ArrowWritten
    <3>2. plan[w].scope \in Scopes
      BY DEF TInv, TypeOK, Plan
    <3>3. rows' = rows
      BY <2>4 DEF WriteArrow
    <3>4. Abs!Derive(Target(w), plan[w].scope)
      BY <3>1, <3>3, AbsStore DEF Abs!Derive
    <3> QED
      BY <3>1, <3>2, <3>4 DEF Abs!Next
  <2>5. ASSUME NEW w \in Writers, Reset(w) PROVE Abs!Next
    BY <2>5, AbsStore DEF Reset, Abs!Next, Abs!Clear
  <2> QED
    BY <2>1, <2>2, <2>3, <2>4, <2>5 DEF Next, Commit
<1> QED
  BY <1>1, <1>2, InitTInv, NextTInv, InitIInv, NextIInv, PTL DEF Spec, ImplementsLedger, Abs!Spec

-----------------------------------------------------------------------------
(* Any number of processes: what one of them loaded may be stale when it      *)
(* writes, so its arrow may be too; but rows and entities only grow, unless   *)
(* somebody resets under it, and a stale plan still finds its row or makes it.*)

PlanLands(w) ==
    /\ phase[w] = "row" => plan[w].write = "create" \/ Recorded(w, at[w])
    /\ phase[w] = "arrow" => Recorded(w, at[w])

Sound(w) == ClaimsInOrder(w) /\ EntitiesFirst(w) /\ PlanLands(w)

SharedInv == \A w \in Writers \ wiped : Sound(w)

LEMMA InitSharedInv == Init => SharedInv
<1> SUFFICES ASSUME Init, NEW w \in Writers PROVE Sound(w)
  BY DEF SharedInv
<1>1. batch[w] = <<>> /\ phase[w] = "idle"
  BY DEF Init
<1>2. DOMAIN batch[w] = {}
  BY <1>1, EmptySeq, LenProperties
<1> QED
  BY <1>1, <1>2 DEF Sound, ClaimsInOrder, EntitiesFirst, PlanLands, Active

\* A process with nothing in hand.
LEMMA StoppedIsSound ==
    ASSUME NEW w \in Writers, phase'[w] = "idle", batch'[w] = <<>>
    PROVE  Sound(w)'
<1>1. DOMAIN batch'[w] = {}
  BY EmptySeq, LenProperties
<1> QED
  BY <1>1 DEF Sound, ClaimsInOrder, EntitiesFirst, PlanLands, Active

\* The row statement leaves no row blank that was there, whoever runs it.
LEMMA RowsGrow ==
    ASSUME TInv, NEW w \in Writers, WriteRow(w)
    PROVE  \A t \in Triples, s \in Sources : rows[t][s] # NoRow => rows'[t][s] # NoRow
<1>1. phase[w] = "row" /\ at[w] \in DOMAIN batch[w]
  BY DEF WriteRow, Step, TInv, ModeOfPlan, Active
<1>2. Target(w) \in Triples /\ Current(w).source \in Sources
  BY <1>1, CurrentType DEF TInv
<1>3. rows \in [Triples -> [Sources -> Row \cup {NoRow}]]
  BY DEF TInv, TypeOK, TripleRows
<1>4. CASE Writes(w)
  <2>1. plan[w].row # NoRow
    BY <1>1, <1>4 DEF Writes, TInv, ModeOfPlan
  <2>2. rows' = [rows EXCEPT ![Target(w)] = [@ EXCEPT ![Current(w).source] = plan[w].row]]
    BY <1>4 DEF WriteRow
  <2> QED
    BY <1>2, <1>3, <2>1, <2>2
<1>5. CASE ~Writes(w)
  BY <1>5 DEF WriteRow
<1> QED
  BY <1>4, <1>5

\* It records its own claim, if nobody has reset the ledger under its process.
LEMMA RowLands ==
    ASSUME TInv, NEW w \in Writers, Sound(w), WriteRow(w)
    PROVE  rows'[Target(w)][Current(w).source] # NoRow
<1> USE DEF Sound
<1>1. phase[w] = "row" /\ at[w] \in DOMAIN batch[w]
  BY DEF WriteRow, Step, ClaimsInOrder, Active
<1>2. Target(w) \in Triples /\ Current(w).source \in Sources
  BY <1>1, CurrentType DEF TInv
<1>3. rows \in [Triples -> [Sources -> Row \cup {NoRow}]]
  BY DEF TInv, TypeOK, TripleRows
<1>4. CASE Writes(w)
  <2>1. plan[w].row # NoRow
    BY <1>1, <1>4 DEF Writes, TInv, ModeOfPlan
  <2>2. rows' = [rows EXCEPT ![Target(w)] = [@ EXCEPT ![Current(w).source] = plan[w].row]]
    BY <1>4 DEF WriteRow
  <2> QED
    BY <1>2, <1>3, <2>1, <2>2
<1>5. CASE ~Writes(w)
  <2>1. rows' = rows
    BY <1>5 DEF WriteRow
  <2>2. Ends[batch[w][at[w]].triple] \subseteq entities
    BY <1>1 DEF EntitiesFirst
  <2>3. Current(w).triple \in Triples
    BY <1>1, CurrentType DEF TInv
  <2>4. Present(Target(w))
    BY <2>2, <2>3, WriterAssumption DEF Present, Target, Current
  <2>5. rows[Target(w)][Current(w).source] # NoRow
    BY <1>1, <1>5, <2>4 DEF Writes, PlanLands, Recorded, Target, Current
  <2> QED
    BY <2>1, <2>5
<1> QED
  BY <1>4, <1>5

\* A process that does not move keeps what it has achieved while the ledger
\* and the entities only grow.
LEMMA OthersKeep ==
    ASSUME TInv, NEW v \in Writers, Sound(v),
           phase'[v] = phase[v], batch'[v] = batch[v], at'[v] = at[v], mode'[v] = mode[v],
           plan'[v] = plan[v], entities \subseteq entities',
           fresh'[v] = fresh[v] \/ fresh[v] \subseteq fresh'[v] \cup entities',
           \A t \in Triples, s \in Sources : rows[t][s] # NoRow => rows'[t][s] # NoRow
    PROVE  Sound(v)'
<1> USE DEF Sound
<1>1. ASSUME NEW i \in DOMAIN batch[v]
      PROVE  Recorded(v, i) => Recorded(v, i)'
  <2>1. batch[v][i] \in Claim
    BY ElementOfSeq, LenProperties DEF TInv, TypeOK
  <2>2. Canonical[batch[v][i].triple] \in Triples /\ batch[v][i].source \in Sources
    BY <2>1, WriterAssumption DEF Claim
  <2> QED
    BY <2>2 DEF Recorded
<1>2. ClaimsInOrder(v)'
  BY <1>1 DEF ClaimsInOrder, Active, Recorded
<1>3. EntitiesFirst(v)'
  BY DEF EntitiesFirst
<1>4. Active(v) => at[v] \in DOMAIN batch[v]
  BY DEF ClaimsInOrder
<1>5. PlanLands(v)'
  BY <1>1, <1>4 DEF PlanLands, Active, Recorded
<1> QED
  BY <1>2, <1>3, <1>5

\* Whoever else moves, a process the ledger was not reset under stays sound.
LEMMA BystandersKeep ==
    ASSUME TInv, SharedInv, NEW w \in Writers,
           Commit(w) \/ Crash(w) \/ \E b \in Batches, m \in Modes : Begin(w, b, m)
    PROVE  \A v \in Writers \ wiped : v # w => Sound(v)'
<1>1. /\ entities \subseteq entities'
      /\ \A t \in Triples, s \in Sources : rows[t][s] # NoRow => rows'[t][s] # NoRow
  <2>1. CASE WriteRow(w)
    BY <2>1, RowsGrow DEF WriteRow
  <2>2. CASE ~WriteRow(w)
    BY <2>2 DEF Begin, Commit, UpsertEntity, EntitiesDone, LoadRows, WriteArrow, Crash,
       storeVars
  <2> QED
    BY <2>1, <2>2
<1> SUFFICES ASSUME NEW v \in Writers \ wiped, v # w PROVE Sound(v)'
  OBVIOUS
<1>2. /\ phase'[v] = phase[v] /\ batch'[v] = batch[v] /\ at'[v] = at[v]
      /\ mode'[v] = mode[v] /\ plan'[v] = plan[v] /\ fresh'[v] = fresh[v]
  BY DEF Begin, Commit, UpsertEntity, EntitiesDone, LoadRows, WriteRow, WriteArrow, Crash,
     Step, TInv, TypeOK
<1> QED
  BY <1>1, <1>2, OthersKeep DEF SharedInv

LEMMA BeginIsSound ==
    ASSUME TInv, NEW w \in Writers, NEW b \in Batches, NEW m \in Modes, Begin(w, b, m)
    PROVE  Sound(w)'
<1>1. b \in Seq(Claim) /\ b # <<>>
  BY WriterAssumption DEF Begin
<1>2. DOMAIN b = 1..Len(b) /\ 1 \in DOMAIN b
  BY <1>1, EmptySeq, LenProperties
<1>3. /\ phase'[w] = "entities" /\ batch'[w] = b /\ at'[w] = 1 /\ mode'[w] = m
      /\ fresh'[w] = BatchEntities(b)
  BY DEF Begin, TInv, TypeOK
<1>4. \A i \in DOMAIN b : Ends[b[i].triple] \subseteq BatchEntities(b)
  BY DEF BatchEntities
<1>5. \A i \in DOMAIN b : ~(i < 1)
  BY <1>1, <1>2, LenProperties
<1> QED
  BY <1>2, <1>3, <1>4, <1>5 DEF Sound, ClaimsInOrder, EntitiesFirst, PlanLands, Active

\* The reset leaves only processes it pulls the ledger from under, and idle ones.
LEMMA ResetShares ==
    ASSUME TInv, SharedInv, NEW w \in Writers, Reset(w)
    PROVE  SharedInv'
<1> SUFFICES ASSUME NEW v \in Writers, v \notin wiped' PROVE Sound(v)'
  BY DEF SharedInv
<1>1. CASE v = w
  <2>1. phase'[w] = "idle" /\ batch'[w] = <<>>
    BY DEF Reset, TInv, TypeOK
  <2> QED
    BY <1>1, <2>1, StoppedIsSound
<1>2. CASE v # w
  <2>1. /\ phase[v] = "idle" /\ phase'[v] = "idle" /\ batch'[v] = batch[v]
    BY <1>2 DEF Reset, TInv, TypeOK
  <2>2. batch[v] = <<>>
    BY <2>1 DEF TInv, ModeOfPlan
  <2> QED
    BY <2>1, <2>2, StoppedIsSound
<1> QED
  BY <1>1, <1>2

\* Every step of a commit.
LEMMA CommitKeeps ==
    ASSUME TInv, NEW w \in Writers, Sound(w), Commit(w)
    PROVE  Sound(w)'
<1> USE DEF Sound
<1>1. batch[w] \in Seq(Claim) /\ Len(batch[w]) \in Nat /\ at[w] \in Nat
      /\ DOMAIN batch[w] = 1..Len(batch[w])
  BY LenProperties DEF TInv, TypeOK
<1>2. ASSUME NEW e \in Entities, UpsertEntity(w, e) PROVE Sound(w)'
  <2>1. /\ phase'[w] = phase[w] /\ batch'[w] = batch[w] /\ at'[w] = at[w]
        /\ mode'[w] = mode[w] /\ plan'[w] = plan[w]
        /\ fresh[w] \subseteq fresh'[w] \cup entities'
        /\ rows' = rows /\ entities \subseteq entities'
    BY <1>2 DEF UpsertEntity, TInv, TypeOK
  <2> QED
    BY <2>1, OthersKeep
<1>3. CASE EntitiesDone(w)
  <2>1. /\ phase[w] = "entities" /\ phase'[w] = "load" /\ fresh[w] = {}
        /\ UNCHANGED <<rows, entities, mode, batch, at, fresh, plan>>
    BY <1>3 DEF EntitiesDone, Step, TInv, TypeOK, storeVars
  <2> QED
    BY <2>1 DEF ClaimsInOrder, EntitiesFirst, PlanLands, Active, Recorded
<1>4. CASE LoadRows(w)
  <2>1. /\ phase[w] = "load" /\ phase'[w] = "row"
        /\ UNCHANGED <<rows, entities, mode, batch, at, fresh>>
        /\ plan'[w] = PlanWrite(rows[Target(w)], Current(w), mode[w])
    BY <1>4 DEF LoadRows, Step, TInv, TypeOK, storeVars
  <2>2. rows[Target(w)][Current(w).source] # NoRow => Recorded(w, at[w])
    BY DEF Target, Current, Recorded
  <2>3. plan'[w].write = "create" \/ rows[Target(w)][Current(w).source] # NoRow
    BY <2>1 DEF PlanWrite, SkipPlan, RowPlan
  <2> QED
    BY <2>1, <2>2, <2>3
       DEF ClaimsInOrder, EntitiesFirst, PlanLands, Active, Recorded
<1>5. CASE WriteRow(w)
  <2>1. /\ phase[w] = "row" /\ phase'[w] = "arrow"
        /\ UNCHANGED <<entities, mode, batch, at, fresh, plan>>
    BY <1>5 DEF WriteRow, Step, TInv, TypeOK
  <2>2. ASSUME NEW i \in DOMAIN batch[w], Recorded(w, i) PROVE Recorded(w, i)'
    <3>1. batch[w][i] \in Claim
      BY <1>1, ElementOfSeq
    <3>2. Canonical[batch[w][i].triple] \in Triples /\ batch[w][i].source \in Sources
      BY <3>1, WriterAssumption DEF Claim
    <3> QED
      BY <1>5, <2>1, <2>2, <3>2, RowsGrow DEF Recorded
  <2>3. Recorded(w, at[w])'
    BY <1>5, <2>1, RowLands DEF Recorded, Target, Current
  <2> QED
    BY <2>1, <2>2, <2>3 DEF ClaimsInOrder, EntitiesFirst, PlanLands, Active
<1>6. CASE WriteArrow(w)
  <2>1. /\ phase[w] = "arrow" /\ phase'[w] = AfterClaim(w) /\ at'[w] = at[w] + 1
        /\ UNCHANGED <<rows, entities, mode, batch, fresh>>
    BY <1>6 DEF WriteArrow, Step, TInv, TypeOK
  <2>2. at[w] \in DOMAIN batch[w] /\ mode[w] \in Modes /\ Recorded(w, at[w])
    BY <2>1 DEF ClaimsInOrder, PlanLands, Active
  <2>3. \A i \in DOMAIN batch[w] : i < at[w] + 1 => i < at[w] \/ i = at[w]
    BY <1>1
  <2>4. \A i \in DOMAIN batch[w] : i < at[w] + 1 => Recorded(w, i)
    BY <2>2, <2>3 DEF ClaimsInOrder
  <2>5. \/ AfterClaim(w) = "done" /\ at[w] + 1 = Len(batch[w]) + 1
        \/ AfterClaim(w) = "load" /\ at[w] + 1 \in DOMAIN batch[w]
    <3>1. CASE at[w] = Len(batch[w])
      <4>1. AfterClaim(w) = "done"
        BY <3>1 DEF AfterClaim
      <4>2. at[w] + 1 = Len(batch[w]) + 1
        BY <3>1
      <4> QED
        BY <4>1, <4>2
    <3>2. CASE at[w] # Len(batch[w])
      <4>1. at[w] + 1 \in 1..Len(batch[w])
        BY <1>1, <2>2, <3>2
      <4> QED
        BY <1>1, <3>2, <4>1 DEF AfterClaim
    <3> QED
      BY <3>1, <3>2
  <2>6. \A i \in DOMAIN batch[w] : Recorded(w, i)' <=> Recorded(w, i)
    BY <2>1 DEF Recorded
  <2>7. ClaimsInOrder(w)'
    BY <2>1, <2>2, <2>4, <2>5, <2>6 DEF ClaimsInOrder, Active
  <2> QED
    BY <2>1, <2>5, <2>7 DEF EntitiesFirst, PlanLands
<1> QED
  BY <1>2, <1>3, <1>4, <1>5, <1>6 DEF Commit

LEMMA NextSharedInv ==
    ASSUME TInv, SharedInv, [Next]_vars
    PROVE  SharedInv'
<1>1. CASE UNCHANGED vars
  <2>1. /\ UNCHANGED <<wiped, rows, entities>>
        /\ UNCHANGED <<phase, mode, batch, at, fresh, plan>>
    BY <1>1 DEF vars, storeVars, procVars, history
  <2> QED
    BY <2>1 DEF SharedInv, Sound, ClaimsInOrder, EntitiesFirst, PlanLands, Active, Recorded
<1>2. CASE Next
  <2>1. PICK w \in Writers : \/ \E b \in Batches, m \in Modes : Begin(w, b, m)
                             \/ Commit(w) \/ Crash(w) \/ Reset(w)
    BY <1>2 DEF Next
  <2>2. CASE Reset(w)
    BY <2>2, ResetShares
  <2>3. CASE Crash(w) \/ \E b \in Batches, m \in Modes : Begin(w, b, m)
    <3>1. Sound(w)'
      BY <2>3, BeginIsSound, StoppedIsSound DEF Crash, TInv, TypeOK
    <3>2. wiped' = wiped \ {w}
      BY <2>3 DEF Crash, Begin
    <3> QED
      BY <2>1, <2>3, <3>1, <3>2, BystandersKeep DEF SharedInv
  <2>4. CASE Commit(w)
    <3>1. wiped' = wiped
      BY <2>4 DEF Commit, UpsertEntity, EntitiesDone, LoadRows, WriteRow, WriteArrow, history
    <3> QED
      BY <2>4, <3>1, BystandersKeep, CommitKeeps DEF SharedInv
  <2> QED
    BY <2>1, <2>2, <2>3, <2>4
<1> QED
  BY <1>1, <1>2

\* For any number of processes, deaths and resets: a commit that returns has
\* recorded every claim of its delta, unless another process has reset the
\* ledger under it.
THEOREM CommitsAreRecorded == Spec => []CommitRecorded
<1>1. TInv /\ SharedInv => CommitRecorded
  <2> SUFFICES ASSUME TInv, SharedInv, NEW w \in Writers, w \notin wiped,
                      phase[w] = "done", NEW i \in DOMAIN batch[w]
               PROVE  Recorded(w, i)
    BY DEF CommitRecorded
  <2>1. ClaimsInOrder(w)
    BY DEF SharedInv, Sound
  <2>2. DOMAIN batch[w] = 1..Len(batch[w]) /\ Len(batch[w]) \in Nat
    BY LenProperties DEF TInv, TypeOK
  <2>3. i < at[w]
    BY <2>1, <2>2 DEF ClaimsInOrder
  <2> QED
    BY <2>1, <2>3 DEF ClaimsInOrder
<1> QED
  BY <1>1, InitTInv, NextTInv, InitSharedInv, NextSharedInv, PTL DEF Spec
=============================================================================
