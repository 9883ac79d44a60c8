--------------------------- MODULE NormalizationProofs ---------------------------
(***************************************************************************)
(* What pg normalize-relations keeps, for every registry, ledger, number   *)
(* of passes and interfering ingests.  The invariant describes a pass half *)
(* way: the claims are the rows not yet condemned by the plan together     *)
(* with the rows it still has to create.  And what runs of pg fact-check   *)
(* do to the ledger (nothing), and its passes to the verdicts (take the    *)
(* row of those they move).                                                *)
(***************************************************************************)
EXTENDS FactCheck, TLAPS

Claims == {<<r.at, r.source>> : r \in said}

Shape ==
    /\ rows \in [Triples -> [Sources -> Spelled \cup {NoRow}]]
    /\ canon \in Canons
    /\ running \in BOOLEAN
    /\ said \subseteq [raw : Triples, at : Triples, source : Sources]
    /\ crashes \in Nat
    /\ plan = [delete |-> plan.delete, create |-> plan.create,
               drop |-> plan.drop, update |-> plan.update]
    /\ plan.delete \subseteq Identities
    /\ ~running => plan = NoPlan

\* What is condemned is not canonical, what is to be created is.
PlanSplits ==
    /\ \A id \in plan.delete : canon[id[1]] # id[1]
    /\ \A g \in DOMAIN plan.create :
          g \in Identities /\ canon[g[1]] = g[1] /\ plan.create[g] # NoRow

\* Nothing is lost half way, but by a crash.
Balanced ==
    crashes = 0 => (StoredRows \ plan.delete) \cup DOMAIN plan.create = Claims

\* A pass condemns every row the registry rewrites.
Complete ==
    /\ clean => ~running
    /\ running \/ clean => Rewritten \subseteq plan.delete

\* Rows, and rows to be, are in the words of a claim of their source.
Worded ==
    /\ NothingInvented
    /\ \A g \in DOMAIN plan.create :
          \E r \in said : r.source = g[2] /\ r.raw = plan.create[g].raw

NInv == Shape /\ PlanSplits /\ Balanced /\ Complete /\ Worded

-----------------------------------------------------------------------------

LEMMA CanonFacts ==
    ASSUME canon \in Canons
    PROVE  /\ \A t \in Triples : canon[t] \in Triples /\ canon[canon[t]] = canon[t]
  BY NormalizationAssumption

LEMMA InitNInv == Init => NInv
  <1> SUFFICES ASSUME Init PROVE NInv
    OBVIOUS
  <1> USE DEF Init
  <1>1. NoRows \in [Sources -> Spelled \cup {NoRow}]
    BY DEF NoRows
  <1>2. Shape
    BY <1>1 DEF Shape, NoPlan, Empty
  <1>3. StoredRows = {} /\ Rewritten = {} /\ Claims = {}
    BY DEF StoredRows, Rewritten, Claims, Identities, NoRows
  <1>4. plan.delete = {} /\ DOMAIN plan.create = {}
    BY DEF NoPlan, Empty
  <1> QED BY <1>2, <1>3, <1>4
          DEF NInv, PlanSplits, Balanced, Complete, Worded, NothingInvented

\* Putting a row, or none, under one identity.
LEMMA PutStored ==
    ASSUME Shape, NEW id \in Identities, NEW row \in Spelled \cup {NoRow},
           rows' = Put(id, row)
    PROVE  /\ rows' \in [Triples -> [Sources -> Spelled \cup {NoRow}]]
           /\ At(id)' = row
           /\ \A j \in Identities : j # id => At(j)' = At(j)
           /\ StoredRows' = IF row = NoRow THEN StoredRows \ {id}
                            ELSE StoredRows \cup {id}
  <1>1. id[1] \in Triples /\ id[2] \in Sources /\ id = <<id[1], id[2]>>
    BY DEF Identities
  <1>2. rows' \in [Triples -> [Sources -> Spelled \cup {NoRow}]]
    BY <1>1 DEF Put, Shape
  <1>3. At(id)' = row
    BY <1>1 DEF Put, Shape, At
  <1>4. ASSUME NEW j \in Identities, j # id PROVE At(j)' = At(j)
    <2>1. j[1] \in Triples /\ j[2] \in Sources /\ j = <<j[1], j[2]>>
      BY DEF Identities
    <2>2. j[1] # id[1] \/ j[2] # id[2]
      BY <1>1, <1>4, <2>1
    <2> QED BY <1>1, <2>1, <2>2 DEF Put, Shape, At
  <1>5. StoredRows' = {j \in Identities : At(j)' # NoRow}
    BY DEF StoredRows, At
  <1>6. StoredRows = {j \in Identities : At(j) # NoRow}
    BY DEF StoredRows, At
  <1> QED BY <1>2, <1>3, <1>4, <1>5, <1>6

LEMMA StoredFacts ==
    ASSUME Shape, NEW id \in StoredRows
    PROVE  id \in Identities /\ At(id) \in Spelled /\ At(id) # NoRow
  <1>1. id \in Identities /\ rows[id[1]][id[2]] # NoRow
    BY DEF StoredRows
  <1>2. id[1] \in Triples /\ id[2] \in Sources
    BY <1>1 DEF Identities
  <1> QED BY <1>1, <1>2 DEF Shape, At

-----------------------------------------------------------------------------
(* One lemma per action. *)

LEMMA IngestKeeps ==
    ASSUME NInv, NEW t \in Triples, NEW s \in Sources, NEW row \in Spelled,
           IngestRow(t, s, row)
    PROVE  NInv'
  <1> USE DEF NInv
  <1>0. PICK id : id = <<canon[t], s>>
    OBVIOUS
  <1>1. canon[t] \in Triples /\ canon[canon[t]] = canon[t]
    BY CanonFacts, NormalizationAssumption DEF Shape
  <1>2. id \in Identities /\ id[1] = canon[t] /\ id[2] = s
    BY <1>0, <1>1 DEF Identities
  <1>a. PICK put : put = IF At(id) = NoRow THEN row ELSE At(id)
    OBVIOUS
  <1>3. put \in Spelled /\ put # NoRow
    <2>1. CASE At(id) = NoRow
      BY <1>a, <2>1, NormalizationAssumption
    <2>2. CASE At(id) # NoRow
      <3>1. id \in StoredRows
        BY <1>2, <2>2 DEF StoredRows, At
      <3> QED BY <1>a, <2>2, <3>1, StoredFacts
    <2> QED BY <2>1, <2>2
  <1>4. rows' = Put(id, put)
    BY <1>0, <1>1, <1>a DEF IngestRow, Put, At, Shape
  <1>5. UNCHANGED <<canon, running, plan, clean, crashes>>
    BY DEF IngestRow
  <1>6. row.raw = t /\ said' = said \cup {[raw |-> t, at |-> canon[t], source |-> s]}
    BY DEF IngestRow
  <1>7. /\ rows' \in [Triples -> [Sources -> Spelled \cup {NoRow}]]
        /\ At(id)' = put
        /\ \A j \in Identities : j # id => At(j)' = At(j)
        /\ StoredRows' = StoredRows \cup {id}
    BY <1>2, <1>3, <1>4, PutStored
  <1>8. Shape'
    BY <1>1, <1>5, <1>6, <1>7 DEF Shape
  <1>9. PlanSplits'
    BY <1>5 DEF PlanSplits
  <1>10. Claims' = Claims \cup {id}
    <2>1. Claims' = {<<r.at, r.source>> : r \in said'}
      BY DEF Claims
    <2>2. PICK new : new = [raw |-> t, at |-> canon[t], source |-> s]
      OBVIOUS
    <2>3. said' = said \cup {new} /\ <<new.at, new.source>> = id
      BY <1>0, <1>6, <2>2
    <2> QED BY <2>1, <2>3 DEF Claims
  <1>11. Balanced'
    <2>1. id \notin plan.delete
      BY <1>1, <1>2 DEF PlanSplits
    <2> QED BY <1>5, <1>7, <1>10, <2>1 DEF Balanced
  <1>12. Complete'
    BY <1>1, <1>2, <1>5, <1>7 DEF Complete, Rewritten
  <1>13. Worded'
    <2>1. ASSUME NEW j \in StoredRows'
          PROVE  \E r \in said' : r.source = j[2] /\ r.raw = At(j)'.raw
      <3>1. CASE j = id /\ At(id) = NoRow
        <4>1. put = row
          BY <1>a, <3>1
        <4>2. [raw |-> t, at |-> canon[t], source |-> s] \in said'
          BY <1>6
        <4> QED BY <1>2, <1>6, <1>7, <3>1, <4>1, <4>2
      <3>2. CASE j = id /\ At(id) # NoRow
        <4>1. put = At(id) /\ id \in StoredRows
          BY <1>2, <1>a, <3>2 DEF StoredRows, At
        <4> QED BY <1>6, <1>7, <3>2, <4>1 DEF Worded, NothingInvented
      <3>3. CASE j # id
        <4>1. j \in StoredRows /\ At(j)' = At(j)
          BY <1>7, <2>1, <3>3 DEF StoredRows
        <4> QED BY <1>6, <4>1 DEF Worded, NothingInvented
      <3> QED BY <3>1, <3>2, <3>3
    <2>2. \A g \in DOMAIN plan'.create :
             \E r \in said' : r.source = g[2] /\ r.raw = plan'.create[g].raw
      BY <1>5, <1>6 DEF Worded
    <2> QED BY <2>1, <2>2 DEF Worded, NothingInvented
  <1> QED BY <1>8, <1>9, <1>11, <1>12, <1>13

LEMMA MigrateKeeps ==
    ASSUME NInv, NEW t \in Triples, NEW s \in Sources, NEW row \in Spelled,
           MigrateRow(t, s, row)
    PROVE  NInv'
  <1> USE DEF NInv
  <1>0. PICK id : id = <<t, s>>
    OBVIOUS
  <1>1. id \in Identities /\ id[1] = t /\ id[2] = s
    BY <1>0 DEF Identities
  <1>2. row # NoRow /\ row.raw = t /\ rows' = Put(id, row)
    BY <1>0, NormalizationAssumption DEF MigrateRow
  <1>3. UNCHANGED <<canon, running, plan, crashes>> /\ ~running /\ ~clean'
    BY DEF MigrateRow
  <1>4. PICK new : new = [raw |-> t, at |-> t, source |-> s]
    OBVIOUS
  <1>5. said' = said \cup {new}
    BY <1>4 DEF MigrateRow
  <1>6. /\ rows' \in [Triples -> [Sources -> Spelled \cup {NoRow}]]
        /\ At(id)' = row
        /\ \A j \in Identities : j # id => At(j)' = At(j)
        /\ StoredRows' = StoredRows \cup {id}
    BY <1>1, <1>2, PutStored
  <1>7. plan.delete = {} /\ DOMAIN plan.create = {}
    BY <1>3 DEF Shape, NoPlan, Empty
  <1>8. Shape'
    BY <1>3, <1>4, <1>5, <1>6 DEF Shape
  <1>9. PlanSplits' /\ Complete'
    BY <1>3, <1>7 DEF PlanSplits, Complete
  <1>10. Balanced'
    <2>1. Claims' = {<<r.at, r.source>> : r \in said'}
      BY DEF Claims
    <2>2. <<new.at, new.source>> = id
      BY <1>0, <1>4
    <2>3. Claims' = Claims \cup {id}
      BY <1>5, <2>1, <2>2 DEF Claims
    <2> QED BY <1>3, <1>6, <1>7, <2>3 DEF Balanced
  <1>11. Worded'
    <2>1. ASSUME NEW j \in StoredRows'
          PROVE  \E r \in said' : r.source = j[2] /\ r.raw = At(j)'.raw
      <3>1. CASE j = id
        BY <1>1, <1>2, <1>4, <1>5, <1>6, <3>1
      <3>2. CASE j # id
        <4>1. j \in StoredRows /\ At(j)' = At(j)
          BY <1>6, <2>1, <3>2 DEF StoredRows
        <4> QED BY <1>5, <4>1 DEF Worded, NothingInvented
      <3> QED BY <3>1, <3>2
    <2>2. DOMAIN plan'.create = {}
      BY <1>3, <1>7
    <2> QED BY <2>1, <2>2 DEF Worded, NothingInvented
  <1> QED BY <1>8, <1>9, <1>10, <1>11

LEMMA EditKeeps ==
    ASSUME NInv, NEW c \in Canons, EditRegistry(c)
    PROVE  NInv'
  <1> USE DEF NInv, EditRegistry, storeVars
  <1>1. ~running /\ plan.delete = {} /\ DOMAIN plan.create = {}
    BY DEF Shape, NoPlan, Empty
  <1>2. Shape'
    BY DEF Shape
  <1>3. StoredRows' = StoredRows /\ Claims' = Claims
    BY DEF StoredRows, Claims
  <1>4. PlanSplits' /\ Balanced' /\ Complete'
    BY <1>1, <1>3 DEF PlanSplits, Balanced, Complete
  <1>5. Worded'
    BY <1>1, <1>3 DEF Worded, NothingInvented, At
  <1> QED BY <1>2, <1>4, <1>5

LEMMA GoalFacts ==
    ASSUME Shape, NEW id \in StoredRows
    PROVE  Goal(id) \in Identities /\ canon[Goal(id)[1]] = Goal(id)[1]
  <1>1. id[1] \in Triples /\ id[2] \in Sources
    BY StoredFacts DEF Identities
  <1> QED BY <1>1, CanonFacts, NormalizationAssumption DEF Goal, Identities, Shape

LEMMA StartKeeps ==
    ASSUME NInv, NEW win \in Winners, NEW scopes \in ScopeChoices(win),
           Start(win, scopes)
    PROVE  NInv'
  <1> USE DEF NInv
  <1>1. plan' = PlanWith(win, scopes)
    BY DEF Start
  <1>2. plan'.delete = Rewritten /\ plan'.create = Created(win)
    BY <1>1 DEF PlanWith, Deletions
  <1>3. DOMAIN Created(win) = Goals /\ \A g \in Goals : Created(win)[g] = At(win[g])
    BY DEF Created, Moved
  <1>4. \A g \in Goals : win[g] \in Rewritten /\ Goal(win[g]) = g
    BY DEF Winners
  <1>5. Rewritten \subseteq StoredRows /\ Kept = StoredRows \ Rewritten
    BY DEF Rewritten, Kept
  <1>6. UNCHANGED <<rows, canon, crashes>> /\ ~running /\ running' /\ ~clean'
    BY DEF Start, storeVars
  <1>7. said' = {[r EXCEPT !.at = canon[@]] : r \in said}
    BY DEF Start
  <1>8. StoredRows' = StoredRows
    BY <1>6 DEF StoredRows
  <1>9. \A r \in said : /\ r.at \in Triples /\ canon[r.at] \in Triples
                         /\ r.raw \in Triples /\ r.source \in Sources
    BY CanonFacts, NormalizationAssumption DEF Shape
  <1>10. Shape'
    <2>1. said' \subseteq [raw : Triples, at : Triples, source : Sources]
      BY <1>7, <1>9 DEF Shape
    <2>2. Rewritten \subseteq Identities
      BY DEF Rewritten, StoredRows
    <2>3. plan' = [delete |-> plan'.delete, create |-> plan'.create,
                   drop |-> plan'.drop, update |-> plan'.update]
      BY <1>1 DEF PlanWith
    <2> QED BY <1>2, <1>6, <2>1, <2>2, <2>3 DEF Shape, Start
  <1>11. PlanSplits'
    <2>1. \A id \in Rewritten : canon[id[1]] # id[1]
      BY DEF Rewritten
    <2>2. ASSUME NEW g \in Goals
          PROVE  g \in Identities /\ canon[g[1]] = g[1] /\ Created(win)[g] # NoRow
      BY <1>3, <1>4, <1>5, GoalFacts, StoredFacts
    <2> QED BY <1>2, <1>3, <1>6, <2>1, <2>2 DEF PlanSplits
  <1>12. Balanced'
    <2> SUFFICES ASSUME crashes = 0
                 PROVE  (StoredRows \ Rewritten) \cup Goals = Claims'
      BY <1>2, <1>3, <1>6, <1>8 DEF Balanced
    <2>1. Claims = StoredRows
      <3>1. plan.delete = {} /\ DOMAIN plan.create = {}
        BY <1>6 DEF Shape, NoPlan, Empty
      <3> QED BY <3>1 DEF Balanced
    <2>2. Claims' = {<<canon[r.at], r.source>> : r \in said}
      <3>1. Claims' = {<<q.at, q.source>> : q \in said'}
        BY DEF Claims
      <3>2. \A r \in said : LET q == [r EXCEPT !.at = canon[@]]
                            IN  q \in said' /\ q.at = canon[r.at] /\ q.source = r.source
        BY <1>7 DEF Shape
      <3>3. \A q \in said' : \E r \in said : q.at = canon[r.at] /\ q.source = r.source
        BY <1>7 DEF Shape
      <3>4. ASSUME NEW c \in Claims'
            PROVE  c \in {<<canon[r.at], r.source>> : r \in said}
        <4>1. PICK q \in said' : c = <<q.at, q.source>>
          BY <3>1
        <4>2. PICK r \in said : q.at = canon[r.at] /\ q.source = r.source
          BY <3>3
        <4> QED BY <4>1, <4>2
      <3>5. ASSUME NEW r \in said
            PROVE  <<canon[r.at], r.source>> \in Claims'
        <4>1. PICK q \in said' : q.at = canon[r.at] /\ q.source = r.source
          BY <3>2
        <4> QED BY <3>1, <4>1
      <3> QED BY <3>4, <3>5
    <2>3. \A r \in said : Goal(<<r.at, r.source>>) = <<canon[r.at], r.source>>
      BY DEF Goal
    <2>4. Claims' = {Goal(id) : id \in StoredRows}
      <3> DEFINE C == {<<r.at, r.source>> : r \in said}
      <3>1. C = StoredRows
        BY <2>1 DEF Claims
      <3>2. {Goal(id) : id \in C} = {Goal(<<r.at, r.source>>) : r \in said}
        OBVIOUS
      <3> QED BY <2>2, <2>3, <3>1, <3>2
    <2>5. \A id \in Kept : Goal(id) = id
      BY DEF Kept, Rewritten, Goal, StoredRows, Identities
    <2>6. Goals = {Goal(id) : id \in Rewritten} \ Kept
      BY DEF Goals
    <2> QED BY <1>5, <2>4, <2>5, <2>6
  <1>13. Complete'
    BY <1>2, <1>6, <1>8 DEF Complete, Rewritten
  <1>14. Worded'
    <2>1. ASSUME NEW id \in StoredRows
          PROVE  \E r \in said' : r.source = id[2] /\ r.raw = At(id).raw
      <3>1. PICK r \in said : r.source = id[2] /\ r.raw = At(id).raw
        BY DEF Worded, NothingInvented
      <3>2. [r EXCEPT !.at = canon[@]] \in said'
        BY <1>7
      <3>3. [r EXCEPT !.at = canon[@]].source = r.source
            /\ [r EXCEPT !.at = canon[@]].raw = r.raw
        BY DEF Shape
      <3> QED BY <3>1, <3>2, <3>3
    <2>2. ASSUME NEW g \in Goals
          PROVE  \E r \in said' : r.source = g[2] /\ r.raw = Created(win)[g].raw
      <3>1. win[g] \in StoredRows /\ win[g][2] = g[2]
        BY <1>4, <1>5 DEF Goal
      <3> QED BY <1>3, <2>1, <3>1
    <2>3. \A id \in Identities : At(id)' = At(id)
      BY <1>6 DEF At
    <2> QED BY <1>2, <1>3, <1>8, <2>1, <2>2, <2>3
            DEF Worded, NothingInvented, StoredRows
  <1> QED BY <1>10, <1>11, <1>12, <1>13, <1>14

LEMMA DeleteKeeps ==
    ASSUME NInv, NEW id \in Identities, DeleteRow(id)
    PROVE  NInv'
  <1> USE DEF NInv
  <1>1. id \in plan.delete /\ rows' = Put(id, NoRow)
    BY DEF DeleteRow
  <1>2. UNCHANGED <<canon, running, said, clean, crashes>>
    BY DEF DeleteRow
  <1>3. /\ plan' = [plan EXCEPT !.delete = @ \ {id}]
        /\ plan'.delete = plan.delete \ {id} /\ plan'.create = plan.create
    BY DEF DeleteRow, Shape
  <1>4. /\ rows' \in [Triples -> [Sources -> Spelled \cup {NoRow}]]
        /\ \A j \in Identities : j # id => At(j)' = At(j)
        /\ StoredRows' = StoredRows \ {id}
    BY <1>1, PutStored
  <1>5. running
    BY <1>1 DEF Shape, NoPlan
  <1>6. Shape'
    BY <1>2, <1>3, <1>4, <1>5 DEF Shape
  <1>7. PlanSplits'
    BY <1>2, <1>3 DEF PlanSplits
  <1>8. Balanced'
    BY <1>1, <1>2, <1>3, <1>4 DEF Balanced, Claims
  <1>9. Complete'
    BY <1>2, <1>3, <1>4 DEF Complete, Rewritten
  <1>10. Worded'
    BY <1>2, <1>3, <1>4 DEF Worded, NothingInvented, StoredRows
  <1> QED BY <1>6, <1>7, <1>8, <1>9, <1>10

LEMMA CreateKeeps ==
    ASSUME NInv, NEW g \in Identities, CreateRow(g),
           \A h \in DOMAIN plan.create : plan.create[h] \in Spelled
    PROVE  NInv'
  <1> USE DEF NInv
  <1>0. PICK put : put = IF At(g) = NoRow THEN plan.create[g] ELSE At(g)
    OBVIOUS
  <1>1. g \in DOMAIN plan.create /\ plan.delete = {}
    BY DEF CreateRow
  <1>2. put \in Spelled /\ put # NoRow
    <2>1. CASE At(g) = NoRow
      BY <1>0, <1>1, <2>1 DEF PlanSplits
    <2>2. CASE At(g) # NoRow
      <3>1. g \in StoredRows
        BY <2>2 DEF StoredRows, At
      <3> QED BY <1>0, <2>2, <3>1, StoredFacts
    <2> QED BY <2>1, <2>2
  <1>3. rows' = Put(g, put)
    <2>1. CASE At(g) = NoRow
      BY <1>0, <2>1 DEF CreateRow
    <2>2. CASE At(g) # NoRow
      BY <1>0, <2>2 DEF CreateRow, Put, At, Shape, Identities
    <2> QED BY <2>1, <2>2
  <1>4. /\ rows' \in [Triples -> [Sources -> Spelled \cup {NoRow}]]
        /\ At(g)' = put
        /\ \A j \in Identities : j # g => At(j)' = At(j)
        /\ StoredRows' = StoredRows \cup {g}
    BY <1>2, <1>3, PutStored
  <1>5. UNCHANGED <<canon, running, said, clean, crashes>>
    BY DEF CreateRow
  <1>6. /\ plan' = [plan EXCEPT !.create = Without(@, g)]
        /\ plan'.delete = {}
        /\ DOMAIN plan'.create = DOMAIN plan.create \ {g}
        /\ \A h \in DOMAIN plan.create \ {g} : plan'.create[h] = plan.create[h]
    BY <1>1 DEF CreateRow, Shape, Without
  <1>7. running
    BY <1>1 DEF Shape, NoPlan, Empty
  <1>8. Shape'
    BY <1>4, <1>5, <1>6, <1>7 DEF Shape
  <1>9. PlanSplits'
    BY <1>5, <1>6 DEF PlanSplits
  <1>10. Balanced'
    BY <1>1, <1>4, <1>5, <1>6 DEF Balanced, Claims
  <1>11. Complete'
    BY <1>1, <1>4, <1>5, <1>6 DEF Complete, Rewritten, PlanSplits
  <1>12. Worded'
    <2>1. ASSUME NEW j \in StoredRows'
          PROVE  \E r \in said : r.source = j[2] /\ r.raw = At(j)'.raw
      <3>1. CASE j = g /\ At(g) = NoRow
        BY <1>0, <1>1, <1>4, <3>1 DEF Worded
      <3>2. CASE j = g /\ At(g) # NoRow
        <4>1. g \in StoredRows
          BY <3>2 DEF StoredRows, At
        <4> QED BY <1>0, <1>4, <3>2, <4>1 DEF Worded, NothingInvented
      <3>3. CASE j # g
        <4>1. j \in StoredRows /\ At(j)' = At(j)
          BY <1>4, <2>1, <3>3 DEF StoredRows
        <4> QED BY <4>1 DEF Worded, NothingInvented
      <3> QED BY <3>1, <3>2, <3>3
    <2>2. \A h \in DOMAIN plan'.create :
             \E r \in said : r.source = h[2] /\ r.raw = plan'.create[h].raw
      BY <1>6 DEF Worded
    <2> QED BY <1>5, <2>1, <2>2 DEF Worded, NothingInvented
  <1> QED BY <1>8, <1>9, <1>10, <1>11, <1>12

\* Steps that leave rows, claims and the two row lists of the plan alone.
LEMMA QuietKeeps ==
    ASSUME NInv, UNCHANGED <<rows, canon, said, crashes>>, Shape',
           plan'.delete = plan.delete, plan'.create = plan.create,
           \/ UNCHANGED <<running, clean>>
           \/ ~running' /\ clean' /\ running
    PROVE  NInv'
  <1> USE DEF NInv
  <1>1. StoredRows' = StoredRows /\ Claims' = Claims
    BY DEF StoredRows, Claims
  <1>2. PlanSplits' /\ Balanced'
    BY <1>1 DEF PlanSplits, Balanced
  <1>3. Complete'
    BY <1>1 DEF Complete, Rewritten
  <1>4. Worded'
    BY <1>1 DEF Worded, NothingInvented, At
  <1> QED BY <1>2, <1>3, <1>4

\* A pass that dies, killed or refusing a row.
LEMMA CrashKeeps ==
    ASSUME NInv, Crash \/ \E g \in Identities : RefuseRow(g)
    PROVE  NInv'
  <1> USE DEF NInv, storeVars
  <1>0. running
    BY DEF Crash, RefuseRow, Shape, NoPlan, Empty
  <1>1. /\ UNCHANGED <<rows, canon, said, clean>> /\ plan' = NoPlan
        /\ running' = FALSE /\ running
    BY <1>0 DEF Crash, RefuseRow
  <1>2. crashes' = crashes + 1 /\ crashes \in Nat
    BY DEF Crash, RefuseRow, Shape
  <1>3. Shape'
    <2>1. NoPlan = [delete |-> NoPlan.delete, create |-> NoPlan.create,
                    drop |-> NoPlan.drop, update |-> NoPlan.update]
          /\ NoPlan.delete \subseteq Identities
      BY DEF NoPlan
    <2>2. crashes' \in Nat
      BY <1>2
    <2>3. running' \in BOOLEAN
      BY Zenon, <1>1
    <2> QED BY <1>1, <2>1, <2>2, <2>3 DEF Shape
  <1>4. PlanSplits' /\ Balanced' /\ Complete'
    BY <1>1, <1>2 DEF PlanSplits, Balanced, Complete, NoPlan, Empty
  <1>5. Worded'
    BY <1>1 DEF Worded, NothingInvented, StoredRows, At, NoPlan, Empty
  <1> QED BY <1>3, <1>4, <1>5

\* Rows to be created are rows.
CreatesRows == \A g \in DOMAIN plan.create : plan.create[g] \in Spelled

LEMMA CreatesRowsKept ==
    ASSUME NInv, CreatesRows, [Next]_vars
    PROVE  CreatesRows'
  <1> USE DEF NInv, CreatesRows
  <1>1. CASE Begin
    <2>1. PICK win \in Winners : \E scopes \in ScopeChoices(win) : Start(win, scopes)
      BY <1>1 DEF Begin
    <2>2. plan'.create = Created(win)
      BY <2>1 DEF Start, PlanWith
    <2>3. \A g \in Goals : win[g] \in StoredRows
      BY DEF Winners, Rewritten
    <2>4. DOMAIN Created(win) = Goals /\ \A g \in Goals : Created(win)[g] = At(win[g])
      BY DEF Created, Moved
    <2> QED BY <2>2, <2>3, <2>4, StoredFacts
  <1>2. ASSUME NEW g \in Identities, CreateRow(g) PROVE CreatesRows'
    <2>1. plan'.create = Without(plan.create, g)
      BY <1>2 DEF CreateRow, Shape
    <2> QED BY <2>1 DEF Without
  <1>3. CASE Crash \/ \E g \in Identities : RefuseRow(g)
    BY <1>3 DEF Crash, RefuseRow, NoPlan, Empty
  <1>4. ASSUME plan'.create = plan.create PROVE CreatesRows'
    BY <1>4
  <1>5. ASSUME NEW id \in Identities, DeleteRow(id) PROVE plan'.create = plan.create
    BY <1>5 DEF DeleteRow, Shape
  <1>6. ASSUME NEW t \in Triples, DropArrow(t) \/ RecomputeArrow(t)
        PROVE  plan'.create = plan.create
    BY <1>6 DEF DropArrow, RecomputeArrow, Shape
  <1>7. Finish => plan'.create = plan.create
    BY DEF Finish
  <1>8. \A t \in Triples, s \in Sources, row \in Spelled :
           IngestRow(t, s, row) \/ MigrateRow(t, s, row) => plan'.create = plan.create
    BY DEF IngestRow, MigrateRow
  <1>9. \A c \in Canons : EditRegistry(c) => plan'.create = plan.create
    BY DEF EditRegistry
  <1>10. UNCHANGED vars => plan'.create = plan.create
    BY DEF vars
  <1> QED BY <1>1, <1>2, <1>3, <1>4, <1>5, <1>6, <1>7, <1>8, <1>9, <1>10
          DEF Next, Execute

LEMMA NextKeepsNInv ==
    ASSUME NInv, CreatesRows, [Next]_vars
    PROVE  NInv'
  <1>1. CASE \E t \in Triples, s \in Sources, row \in Spelled : IngestRow(t, s, row)
    BY <1>1, IngestKeeps
  <1>2. CASE \E c \in Canons : EditRegistry(c)
    BY <1>2, EditKeeps
  <1>3. CASE Begin
    BY <1>3, StartKeeps DEF Begin
  <1>4. CASE \E id \in Identities : DeleteRow(id)
    BY <1>4, DeleteKeeps
  <1>5. CASE \E g \in Identities : CreateRow(g)
    BY <1>5, CreateKeeps DEF CreatesRows
  <1>6. ASSUME NEW t \in Triples, DropArrow(t) PROVE NInv'
    <2>1. /\ UNCHANGED <<rows, canon, said, crashes, running, clean>>
          /\ plan' = [plan EXCEPT !.drop = @ \ {t}] /\ t \in plan.drop
      BY <1>6 DEF DropArrow
    <2>2. running
      BY <2>1 DEF NInv, Shape, NoPlan
    <2>3. plan' = [delete |-> plan.delete, create |-> plan.create,
                   drop |-> plan.drop \ {t}, update |-> plan.update]
      BY <2>1 DEF NInv, Shape
    <2>4. plan'.delete = plan.delete /\ plan'.create = plan.create /\ Shape'
      BY <2>1, <2>2, <2>3 DEF NInv, Shape
    <2> QED BY <2>1, <2>4, QuietKeeps
  <1>7. ASSUME NEW t \in Triples, RecomputeArrow(t) PROVE NInv'
    <2>1. /\ UNCHANGED <<rows, canon, said, crashes, running, clean>>
          /\ plan' = [plan EXCEPT !.update = Without(@, t)] /\ t \in DOMAIN plan.update
      BY <1>7 DEF RecomputeArrow
    <2>2. running
      BY <2>1 DEF NInv, Shape, NoPlan, Empty
    <2>3. plan' = [delete |-> plan.delete, create |-> plan.create,
                   drop |-> plan.drop, update |-> Without(plan.update, t)]
      BY <2>1 DEF NInv, Shape
    <2>4. plan'.delete = plan.delete /\ plan'.create = plan.create /\ Shape'
      BY <2>1, <2>2, <2>3 DEF NInv, Shape
    <2> QED BY <2>1, <2>4, QuietKeeps
  <1>8. CASE Finish
    <2>1. /\ UNCHANGED <<rows, canon, said, crashes, plan>> /\ plan = NoPlan
          /\ running /\ ~running' /\ clean' /\ running' = FALSE
      BY <1>8 DEF Finish, storeVars
    <2>2. Shape'
      BY <2>1 DEF NInv, Shape
    <2> QED BY <2>1, <2>2, QuietKeeps
  <1>9. CASE Crash \/ \E g \in Identities : RefuseRow(g)
    BY <1>9, CrashKeeps
  <1>11. CASE \E t \in Triples, s \in Sources, row \in Spelled : MigrateRow(t, s, row)
    BY <1>11, MigrateKeeps
  <1>10. CASE UNCHANGED vars
    <2>1. UNCHANGED <<rows, canon, said, crashes, running, clean, plan>>
      BY <1>10 DEF vars, storeVars
    <2>2. Shape'
      BY <2>1 DEF NInv, Shape
    <2> QED BY <2>1, <2>2, QuietKeeps
  <1> QED BY <1>1, <1>2, <1>3, <1>4, <1>5, <1>6, <1>7, <1>8, <1>9, <1>10, <1>11
          DEF Next, Execute

LEMMA NInvHolds == Spec => [](NInv /\ CreatesRows)
  <1>1. Init => NInv /\ CreatesRows
    BY InitNInv DEF Init, CreatesRows, NoPlan, Empty
  <1>2. NInv /\ CreatesRows /\ [Next]_vars => (NInv /\ CreatesRows)'
    BY NextKeepsNInv, CreatesRowsKept
  <1> QED BY <1>1, <1>2, PTL DEF Spec

-----------------------------------------------------------------------------
(* The theorems *)

\* plan_normalization, normalize_relations: passes that are not killed lose no
\* claim and invent no identity, for every registry, ledger and interference.
THEOREM ClaimsAreKept == Spec => []ClaimsKept
  <1>1. NInv => ClaimsKept
    <2> SUFFICES ASSUME NInv, ~running, crashes = 0 PROVE StoredRows = Claims
      BY DEF ClaimsKept, Claims
    <2>1. plan.delete = {} /\ DOMAIN plan.create = {}
      BY DEF NInv, Shape, NoPlan, Empty
    <2> QED BY <2>1 DEF NInv, Balanced
  <1> QED BY <1>1, NInvHolds, PTL

\* "A second run is an empty plan" (normalization.py), crashes or not.
THEOREM SecondRunIsEmpty == Spec => []SecondRunEmpty
  <1>1. NInv => SecondRunEmpty
    BY DEF NInv, Complete, SecondRunEmpty, Shape, NoPlan
  <1> QED BY <1>1, NInvHolds, PTL

\* No row exists but in the words its source used, however often it has moved
\* and whatever killed the passes.
THEOREM NothingIsInvented == Spec => []NothingInvented
  <1>1. NInv => NothingInvented
    BY DEF NInv, Worded
  <1> QED BY <1>1, NInvHolds, PTL

\* A canonical row is never touched, not even by a plan older than the row.
THEOREM CanonicalIsUntouched == Spec => CanonicalUntouched
  <1>1. ASSUME NInv, CreatesRows, [Next]_vars, NEW id \in Kept
        PROVE  rows'[id[1]][id[2]] = At(id)
    <2> USE DEF NInv
    <2>0. id \in StoredRows /\ id \in Identities /\ canon[id[1]] = id[1] /\ At(id) # NoRow
      BY <1>1, StoredFacts DEF Kept, Rewritten, StoredRows
    <2>1. ASSUME rows' = rows PROVE rows'[id[1]][id[2]] = At(id)
      BY <2>1 DEF At
    <2>2. ASSUME NEW t \in Triples, NEW s \in Sources, NEW row \in Spelled,
                 IngestRow(t, s, row)
          PROVE  rows'[id[1]][id[2]] = At(id)
      <3>1. id[1] \in Triples /\ id[2] \in Sources /\ canon[t] \in Triples
        BY <1>1, <2>0, CanonFacts DEF Identities, Shape
      <3> QED BY <1>1, <2>0, <2>2, <3>1 DEF IngestRow, At, Shape
    <2>3. ASSUME NEW j \in Identities, DeleteRow(j)
          PROVE  rows'[id[1]][id[2]] = At(id)
      <3>1. j \in plan.delete /\ rows' = Put(j, NoRow)
        BY <2>3 DEF DeleteRow
      <3>2. j # id
        BY <1>1, <2>0, <3>1 DEF PlanSplits
      <3> QED BY <1>1, <2>0, <3>1, <3>2, PutStored DEF At
    <2>4. ASSUME NEW g \in Identities, CreateRow(g)
          PROVE  rows'[id[1]][id[2]] = At(id)
      <3>1. CASE At(g) = NoRow
        <4>1. rows' = Put(g, plan.create[g]) /\ plan.create[g] \in Spelled /\ g # id
          BY <1>1, <2>0, <2>4, <3>1 DEF CreateRow, CreatesRows
        <4> QED BY <1>1, <2>0, <4>1, PutStored DEF At
      <3>2. CASE At(g) # NoRow
        BY <2>1, <2>4, <3>2 DEF CreateRow
      <3> QED BY <3>1, <3>2
    <2>5. Begin => rows' = rows
      BY DEF Begin, Start, storeVars
    <2>6. \A t \in Triples : DropArrow(t) \/ RecomputeArrow(t) => rows' = rows
      BY DEF DropArrow, RecomputeArrow
    <2>7. Finish \/ Crash \/ (\E g \in Identities : RefuseRow(g)) \/ UNCHANGED vars
             => rows' = rows
      BY DEF Finish, Crash, RefuseRow, vars, storeVars
    <2>8. \A c \in Canons : EditRegistry(c) => rows' = rows
      BY DEF EditRegistry, storeVars
    <2>9. ASSUME NEW t \in Triples, NEW s \in Sources, NEW row \in Spelled,
                 MigrateRow(t, s, row)
          PROVE  rows'[id[1]][id[2]] = At(id)
      <3>1. <<t, s>> \in Identities /\ <<t, s>> # id /\ rows' = Put(<<t, s>>, row)
        <4>1. rows[t][s] = NoRow
          <5>1. Support(rows[t]) = {} /\ s \in DOMAIN rows[t]
            BY <1>1, <2>9 DEF MigrateRow, Shape
          <5> QED BY <5>1 DEF Support
        <4>2. rows' = Put(<<t, s>>, row)
          BY <2>9 DEF MigrateRow
        <4> QED BY <2>0, <4>1, <4>2 DEF At, Identities
      <3>2. At(id)' = At(id)
        BY <1>1, <2>0, <3>1, PutStored
      <3> QED BY <3>2 DEF At
    <2> QED BY <1>1, <2>1, <2>2, <2>3, <2>4, <2>5, <2>6, <2>7, <2>8, <2>9
            DEF Next, Execute
  <1>2. NInv /\ CreatesRows /\ [Next]_vars =>
           [\A id \in Kept : rows'[id[1]][id[2]] = At(id)]_vars
    BY <1>1
  <1> QED BY <1>2, NInvHolds, PTL DEF Spec, CanonicalUntouched

-----------------------------------------------------------------------------
(***************************************************************************)
(* The arrows.  The argument is about the rows each triple will have once  *)
(* the plan is executed, which no step of the pass changes: the arrows a   *)
(* plan does not name agree with them already, and its updates carry their *)
(* aggregates.                                                             *)
(***************************************************************************)

\* The rows t ends with.
Final(t) ==
    [s \in Sources |-> IF <<t, s>> \in DOMAIN plan.create THEN plan.create[<<t, s>>]
                       ELSE IF <<t, s>> \in plan.delete THEN NoRow
                       ELSE rows[t][s]]

SpelledRows == [Sources -> Spelled \cup {NoRow}]

ArrowTypes ==
    /\ arrows \in [Triples -> Arrow \cup {NoArrow}]
    /\ plan.drop \subseteq Triples
    /\ DOMAIN plan.update \subseteq Triples
    /\ \A t \in DOMAIN plan.update : plan.update[t] \in Arrow

\* Nothing is in the way of a row to be created.
RoomToCreate == \A g \in DOMAIN plan.create : At(g) = NoRow

\* What the rest of the plan does for the arrow of t.
OnCourse(t) ==
    /\ t \in plan.drop => t \notin DOMAIN plan.update /\ Support(Final(t)) = {}
    /\ t \in DOMAIN plan.update => /\ Support(Final(t)) # {}
                                   /\ plan.update[t].conf = Aggregate(Final(t))
    /\ t \notin plan.drop \cup DOMAIN plan.update => Derived(arrows[t], Final(t))

OnTrack == crashes = 0 /\ ~met => RoomToCreate /\ \A t \in Triples : OnCourse(t)

AInv == NInv /\ CreatesRows /\ ArrowTypes /\ OnTrack

-----------------------------------------------------------------------------

\* The aggregate of spelled rows is that of the rows without their spelling.
LEMMA AggregateSpelled ==
    ASSUME NEW rs \in SpelledRows
    PROVE  Aggregate(rs) \in Confidences
  <1> DEFINE ps == [s \in Sources |-> IF rs[s] = NoRow THEN NoRow
                                      ELSE [conf |-> rs[s].conf, scope |-> rs[s].scope]]
  <1>1. ps \in TripleRows
    BY DEF SpelledRows, Spelled, TripleRows, Row
  <1>2. \A s \in Sources : rs[s] # NoRow => ps[s] \in Row /\ ps[s].conf = rs[s].conf
    BY DEF SpelledRows, Spelled, Row
  <1>3. \A s \in Sources : rs[s] = NoRow <=> ps[s] = NoRow
    BY <1>2, SentinelAssumption
  <1>4. Support(ps) = Support(rs) /\ Support(rs) \subseteq Sources
    BY <1>3 DEF Support, SpelledRows
  <1>5. \A s \in Support(rs) : ps[s].conf = rs[s].conf
    BY <1>2, <1>4 DEF Support
  <1>6. [s \in Support(ps) |-> ps[s].conf] = [s \in Support(rs) |-> rs[s].conf]
    BY <1>4, <1>5
  <1>7. (\E s \in Support(ps) : ps[s].conf = Certain)
            <=> (\E s \in Support(rs) : rs[s].conf = Certain)
    BY <1>4, <1>5
  <1>8. Aggregate(ps) = Aggregate(rs)
    <2> HIDE DEF ps
    <2> QED BY <1>6, <1>7 DEF Aggregate
  <1> QED BY <1>1, <1>8 DEF Confidences

LEMMA SetArrowIsArrow ==
    ASSUME NEW arrow \in Arrow \cup {NoArrow}, NEW conf \in Confidences,
           NEW scope \in Scopes
    PROVE  /\ SetArrow(arrow, conf, scope) \in Arrow
           /\ SetArrow(arrow, conf, scope).conf = conf
  <1>1. arrow # NoArrow => arrow.scope \in Scopes
    BY DEF Arrow
  <1> QED BY <1>1 DEF SetArrow, Arrow

\* An arrow set to the aggregate of rows is derived from them.
LEMMA SetIsDerived ==
    ASSUME NEW arrow \in Arrow \cup {NoArrow}, NEW scope \in Scopes,
           NEW rs \in SpelledRows, Support(rs) # {}
    PROVE  Derived(SetArrow(arrow, Aggregate(rs), scope), rs)
  BY AggregateSpelled, SetArrowIsArrow, SentinelAssumption DEF Derived

LEMMA FinalIdle ==
    ASSUME Shape, plan = NoPlan, NEW t \in Triples
    PROVE  Final(t) = rows[t] /\ rows[t] \in SpelledRows
  <1>1. rows[t] \in SpelledRows
    BY DEF Shape, SpelledRows
  <1>2. \A s \in Sources : Final(t)[s] = rows[t][s]
    BY DEF Final, NoPlan, Empty
  <1> QED BY <1>1, <1>2 DEF Final, SpelledRows

LEMMA InitAInv == Init => AInv
  <1> SUFFICES ASSUME Init PROVE AInv
    OBVIOUS
  <1>1. NInv /\ CreatesRows
    BY InitNInv DEF Init, CreatesRows, NoPlan, Empty
  <1>2. ArrowTypes
    BY DEF Init, ArrowTypes, NoPlan, Empty
  <1>3. ASSUME NEW t \in Triples PROVE OnCourse(t)
    <2>1. Final(t) = NoRows
      BY <1>1, FinalIdle DEF Init, NInv
    <2>2. Support(NoRows) = {}
      BY DEF Support, NoRows
    <2> QED BY <2>1, <2>2 DEF Init, OnCourse, Derived, NoPlan, Empty
  <1>4. RoomToCreate
    BY DEF Init, RoomToCreate, NoPlan, Empty
  <1> QED BY <1>1, <1>2, <1>3, <1>4 DEF AInv, OnTrack

\* Rows put in one triple, outside a pass, with its arrow set to their aggregate.
LEMMA PutKeepsTrack ==
    ASSUME AInv, ~running, NEW t \in Triples, NEW now \in SpelledRows,
           Support(now) # {}, NEW scope \in Scopes,
           rows' = [rows EXCEPT ![t] = now],
           arrows' = [arrows EXCEPT ![t] = SetArrow(@, Aggregate(now), scope)],
           UNCHANGED <<plan, crashes>>, ~met' => ~met, NInv'
    PROVE  ArrowTypes' /\ OnTrack'
  <1>1. plan = NoPlan /\ plan' = NoPlan /\ Shape /\ Shape'
    BY DEF AInv, NInv, Shape
  <1>2. arrows[t] \in Arrow \cup {NoArrow}
    BY DEF AInv, ArrowTypes
  <1>3. SetArrow(arrows[t], Aggregate(now), scope) \in Arrow
    BY <1>2, AggregateSpelled, SetArrowIsArrow
  <1>4. ArrowTypes'
    BY <1>1, <1>3 DEF AInv, ArrowTypes
  <1>5. RoomToCreate'
    BY <1>1 DEF RoomToCreate, NoPlan, Empty
  <1>6. ASSUME NEW u \in Triples, crashes = 0, ~met PROVE OnCourse(u)'
    <2>1. Final(u) = rows[u]
      BY <1>1, FinalIdle
    <2>2. Final(u)' = rows'[u]
      <3>1. \A s \in Sources : Final(u)'[s] = rows'[u][s]
        BY <1>1 DEF Final, NoPlan, Empty
      <3>2. rows'[u] \in SpelledRows
        BY <1>1 DEF Shape, SpelledRows
      <3> QED BY <3>1, <3>2 DEF Final, SpelledRows
    <2>3. Derived(arrows[u], rows[u])
      BY <1>1, <1>6, <2>1 DEF AInv, OnTrack, OnCourse, NoPlan, Empty
    <2>4. Derived(arrows'[u], rows'[u])
      <3>1. CASE u = t
        <4>1. rows'[u] = now /\ arrows'[u] = SetArrow(arrows[t], Aggregate(now), scope)
          BY <3>1 DEF AInv, NInv, Shape, ArrowTypes
        <4> QED BY <1>2, <4>1, SetIsDerived
      <3>2. CASE u # t
        BY <2>3, <3>2 DEF AInv, NInv, Shape, ArrowTypes
      <3> QED BY <3>1, <3>2
    <2> QED BY <1>1, <2>2, <2>4 DEF OnCourse, NoPlan, Empty
  <1> QED BY <1>4, <1>5, <1>6 DEF OnTrack

\* A claim ingested into the rows of its canonical triple.
LEMMA IngestKeepsTrack ==
    ASSUME AInv, NInv', NEW t \in Triples, NEW s \in Sources, NEW row \in Spelled,
           IngestRow(t, s, row)
    PROVE  ArrowTypes' /\ OnTrack'
  <1>1. PICK c \in Triples : c = canon[t]
    BY CanonFacts, NormalizationAssumption DEF AInv, NInv, Shape
  <1>2. PICK now : now = IF At(<<c, s>>) = NoRow THEN [rows[c] EXCEPT ![s] = row]
                         ELSE rows[c]
    OBVIOUS
  <1>3. PICK scope : scope = IF At(<<c, s>>) = NoRow THEN row.scope ELSE NoScope
    OBVIOUS
  <1>4. now \in SpelledRows /\ Support(now) # {} /\ scope \in Scopes
    <2>1. rows[c] \in SpelledRows /\ At(<<c, s>>) = rows[c][s]
      BY DEF AInv, NInv, Shape, SpelledRows, At
    <2>2. now[s] # NoRow /\ now \in SpelledRows
      BY <1>2, <2>1, NormalizationAssumption DEF SpelledRows
    <2>3. s \in Support(now)
      BY <2>2 DEF Support, SpelledRows
    <2> QED BY <1>3, <2>2, <2>3, StoreAssumption DEF Spelled
  <1>5. /\ rows' = [rows EXCEPT ![c] = now]
        /\ arrows' = [arrows EXCEPT ![c] = SetArrow(@, Aggregate(now), scope)]
        /\ UNCHANGED <<plan, crashes>> /\ met' = (met \/ running)
    BY <1>1, <1>2, <1>3 DEF IngestRow
  <1>6. ArrowTypes'
    <2>1. SetArrow(arrows[c], Aggregate(now), scope) \in Arrow
      BY <1>4, AggregateSpelled, SetArrowIsArrow DEF AInv, ArrowTypes
    <2> QED BY <1>5, <2>1 DEF AInv, ArrowTypes
  <1>7. CASE running
    BY <1>5, <1>6, <1>7 DEF OnTrack
  <1>8. CASE ~running
    <2>1. ~met' => ~met
      BY <1>5
    <2> QED BY <1>4, <1>5, <1>8, <2>1, PutKeepsTrack
  <1> QED BY <1>7, <1>8, <1>6

LEMMA MigrateKeepsTrack ==
    ASSUME AInv, NInv', NEW t \in Triples, NEW s \in Sources, NEW row \in Spelled,
           MigrateRow(t, s, row)
    PROVE  ArrowTypes' /\ OnTrack'
  <1>1. PICK now : now = [rows[t] EXCEPT ![s] = row]
    OBVIOUS
  <1>2. now \in SpelledRows /\ Support(now) # {}
    <2>1. rows[t] \in SpelledRows
      BY DEF AInv, NInv, Shape, SpelledRows
    <2>2. now[s] # NoRow /\ now \in SpelledRows
      BY <1>1, <2>1, NormalizationAssumption DEF SpelledRows
    <2>3. s \in Support(now)
      BY <2>2 DEF Support, SpelledRows
    <2> QED BY <2>2, <2>3
  <1>3. /\ rows' = [rows EXCEPT ![t] = now] /\ row.scope \in Scopes
        /\ arrows' = [arrows EXCEPT ![t] = SetArrow(@, Aggregate(now), row.scope)]
        /\ UNCHANGED <<plan, crashes>> /\ ~running
    BY <1>1 DEF MigrateRow, Put, Spelled
  <1>4. ~met' => ~met
    BY DEF MigrateRow
  <1> QED BY <1>2, <1>3, <1>4, PutKeepsTrack

-----------------------------------------------------------------------------
(* The statements of a pass. *)

\* The plan names every triple whose arrow will not agree with its final rows.
LEMMA StartKeepsTrack ==
    ASSUME AInv, NEW win \in Winners, NEW scopes \in ScopeChoices(win),
           Start(win, scopes)
    PROVE  ArrowTypes' /\ OnTrack'
  <1> USE DEF AInv, NInv
  <1> DEFINE made == Created(win)
  <1>1. /\ plan'.delete = Rewritten /\ plan'.create = made
        /\ plan'.drop = {id[1] : id \in Rewritten}
        /\ DOMAIN plan'.update = Targets
    BY DEF Start, PlanWith, Deletions
  <1>a. ASSUME NEW t \in Targets
        PROVE  plan'.update[t] = [conf  |-> Aggregate(FinalRows(made, t)),
                                  scope |-> scopes[t]]
    BY DEF Start, PlanWith
  <1>2. DOMAIN made = Goals /\ \A g \in Goals : made[g] = At(win[g])
    BY DEF Created, Moved
  <1>3. \A g \in Goals : win[g] \in Rewritten /\ Goal(win[g]) = g
    BY DEF Winners
  <1>4. UNCHANGED <<rows, arrows, canon, crashes, met>> /\ plan = NoPlan /\ ~running
    BY DEF Start, storeVars, Shape
  <1>5. Rewritten \subseteq StoredRows /\ Kept = StoredRows \ Rewritten
        /\ StoredRows \subseteq Identities
    BY DEF Rewritten, Kept, StoredRows
  <1>6. \A g \in Goals : g \in Identities /\ canon[g[1]] = g[1] /\ made[g] \in Spelled
                         /\ made[g] # NoRow
    BY <1>2, <1>3, <1>5, GoalFacts, StoredFacts
  <1>7. \A g \in Goals : g \notin StoredRows
    BY <1>5, <1>6 DEF Rewritten, Goals
  <1>8. \A id \in Rewritten : canon[id[1]] # id[1]
    BY DEF Rewritten
  <1> HIDE DEF made
  <1>9. ASSUME NEW t \in Triples
        PROVE  /\ Final(t)' = FinalRows(made, t) /\ FinalRows(made, t) \in SpelledRows
               /\ \A s \in Sources : Final(t)'[s] = IF <<t, s>> \in Goals THEN made[<<t, s>>]
                                         ELSE IF <<t, s>> \in Rewritten THEN NoRow
                                         ELSE rows[t][s]
    <2>1. \A s \in Sources : Final(t)'[s] = IF <<t, s>> \in Goals THEN made[<<t, s>>]
                                         ELSE IF <<t, s>> \in Rewritten THEN NoRow
                                         ELSE rows[t][s]
      BY <1>1, <1>2, <1>4 DEF Final
    <2>2. ASSUME NEW s \in Sources
          PROVE  Final(t)'[s] = FinalRows(made, t)[s]
      <3>1. <<t, s>> \in Identities /\ At(<<t, s>>) = rows[t][s]
        BY DEF Identities, At
      <3>2. <<t, s>> \in StoredRows <=> rows[t][s] # NoRow
        BY <3>1 DEF StoredRows, At
      <3>3. FinalRows(made, t)[s] = IF <<t, s>> \in Goals THEN made[<<t, s>>]
                       ELSE IF <<t, s>> \in Kept THEN rows[t][s] ELSE NoRow
        BY <1>2, <3>1 DEF FinalRows
      <3> QED BY <1>5, <2>1, <3>2, <3>3
    <2>3. FinalRows(made, t) \in SpelledRows
      <3>1. rows[t] \in [Sources -> Spelled \cup {NoRow}]
        BY DEF Shape
      <3> QED BY <1>2, <1>6, <3>1 DEF FinalRows, SpelledRows, At
    <2> QED BY <2>1, <2>2, <2>3 DEF Final, FinalRows
  <1>10. Targets \subseteq Triples /\ \A t \in Targets : canon[t] = t
    BY <1>6 DEF Targets, Identities
  <1>11. ArrowTypes'
    <2>1. \A t \in Targets : scopes[t] \in Scopes
      BY DEF ScopeChoices
    <2>2. ASSUME NEW t \in Targets PROVE plan'.update[t] \in Arrow
      <3>1. FinalRows(made, t) \in SpelledRows
        BY <1>9, <1>10
      <3>2. Aggregate(FinalRows(made, t)) \in Confidences
        BY <3>1, AggregateSpelled
      <3>3. plan'.update[t] = [conf  |-> Aggregate(FinalRows(made, t)),
                                  scope |-> scopes[t]]
        BY Zenon, <1>a
      <3> QED BY <2>1, <3>2, <3>3 DEF Arrow
    <2>3. plan'.drop \subseteq Triples
      BY <1>1, <1>5 DEF Identities
    <2> QED BY <1>1, <1>4, <1>10, <2>2, <2>3 DEF ArrowTypes
  <1>12. RoomToCreate'
    BY <1>1, <1>2, <1>4, <1>6, <1>7 DEF RoomToCreate, StoredRows, At
  <1>13. ASSUME NEW t \in Triples, crashes = 0, ~met PROVE OnCourse(t)'
    <2>1. ASSUME t \in plan'.drop
          PROVE  t \notin DOMAIN plan'.update /\ Support(Final(t)') = {}
      <3>1. canon[t] # t
        BY <1>1, <1>8, <2>1
      <3>2. \A s \in Sources : <<t, s>> \notin Goals
        BY <1>6, <3>1
      <3>3. ASSUME NEW s \in Sources PROVE Final(t)'[s] = NoRow
        <4>1. rows[t][s] # NoRow => <<t, s>> \in Rewritten
          BY <3>1 DEF Rewritten, StoredRows, Identities
        <4> QED BY <1>9, <3>2, <4>1
      <3>4. DOMAIN Final(t)' = Sources
        BY <1>9 DEF SpelledRows
      <3> QED BY <1>1, <1>10, <3>1, <3>3, <3>4 DEF Support
    <2>2. ASSUME t \in DOMAIN plan'.update
          PROVE  /\ Support(Final(t)') # {}
                 /\ plan'.update[t].conf = Aggregate(Final(t)')
      <3>1. PICK g \in Goals : t = g[1]
        BY <1>1, <2>2 DEF Targets
      <3>2. g = <<t, g[2]>> /\ g[2] \in Sources
        BY <1>6, <3>1 DEF Identities
      <3>3. Final(t)'[g[2]] # NoRow
        BY <1>6, <1>9, <3>1, <3>2
      <3>4. g[2] \in Support(Final(t)')
        BY <1>9, <3>2, <3>3 DEF Support, SpelledRows
      <3>5. plan'.update[t].conf = Aggregate(FinalRows(made, t))
        <4>1. plan'.update[t] = [conf  |-> Aggregate(FinalRows(made, t)),
                                    scope |-> scopes[t]]
          BY Zenon, <1>1, <1>a, <2>2
        <4> QED BY <4>1
      <3>6. Final(t)' = FinalRows(made, t)
        BY <1>9
      <3> QED BY <3>4, <3>5, <3>6
    <2>3. ASSUME t \notin plan'.drop \cup DOMAIN plan'.update
          PROVE  Derived(arrows'[t], Final(t)')
      <3>1. \A s \in Sources : <<t, s>> \notin Goals /\ <<t, s>> \notin Rewritten
        BY <1>1, <2>3 DEF Targets
      <3>2. Final(t) = rows[t] /\ rows[t] \in SpelledRows
        BY <1>4, FinalIdle
      <3>3. Final(t)' = rows[t]
        <4>1. Final(t)' \in SpelledRows
          BY <1>9
        <4>2. \A s \in Sources : Final(t)'[s] = rows[t][s]
          BY <1>9, <3>1
        <4> QED BY <3>2, <4>1, <4>2 DEF SpelledRows
      <3>4. Derived(arrows[t], Final(t))
        BY <1>4, <1>13 DEF OnTrack, OnCourse, NoPlan, Empty
      <3> QED BY <1>4, <3>2, <3>3, <3>4
    <2> QED BY <2>1, <2>2, <2>3 DEF OnCourse
  <1> QED BY <1>4, <1>11, <1>12, <1>13 DEF OnTrack

\* Steps after which every triple will end with the rows it would have ended with.
LEMMA FinalKept ==
    ASSUME AInv, RoomToCreate',
           UNCHANGED <<arrows, crashes, met>>,
           plan'.drop = plan.drop, plan'.update = plan.update,
           \A t \in Triples : Final(t)' = Final(t)
    PROVE  OnTrack'
  <1> SUFFICES ASSUME NEW t \in Triples, crashes = 0, ~met PROVE OnCourse(t)'
    BY DEF OnTrack
  <1>1. OnCourse(t)
    BY DEF AInv, OnTrack
  <1>2. Final(t)' = Final(t)
    OBVIOUS
  <1>3. arrows'[t] = arrows[t]
    OBVIOUS
  <1> QED BY <1>1, <1>2, <1>3 DEF OnCourse

LEMMA DeleteKeepsTrack ==
    ASSUME AInv, crashes = 0, ~met, NEW id \in Identities, DeleteRow(id)
    PROVE  RoomToCreate' /\ \A t \in Triples : Final(t)' = Final(t)
  <1> USE DEF AInv, NInv
  <1>1. id \in plan.delete /\ rows' = Put(id, NoRow) /\ canon[id[1]] # id[1]
    BY DEF DeleteRow, PlanSplits
  <1>2. plan'.delete = plan.delete \ {id} /\ plan'.create = plan.create
    BY DEF DeleteRow, Shape
  <1>3. id \notin DOMAIN plan.create
    BY <1>1 DEF PlanSplits
  <1>4. At(id)' = NoRow /\ \A j \in Identities : j # id => At(j)' = At(j)
    BY <1>1, PutStored
  <1>5. RoomToCreate'
    BY <1>2, <1>3, <1>4 DEF OnTrack, RoomToCreate, PlanSplits
  <1>6. ASSUME NEW t \in Triples PROVE Final(t)' = Final(t)
    <2>1. ASSUME NEW s \in Sources PROVE Final(t)'[s] = Final(t)[s]
      <3>1. PICK j \in Identities : j = <<t, s>>
        BY DEF Identities
      <3>2. rows[t][s] = At(j) /\ rows'[t][s] = At(j)'
        BY <3>1 DEF At
      <3>3. j # id => rows'[t][s] = rows[t][s]
        BY <1>4, <3>2
      <3>4. j = id => rows'[t][s] = NoRow
        BY <1>4, <3>2
      <3> QED BY <1>1, <1>2, <1>3, <3>1, <3>3, <3>4 DEF Final
    <2> QED BY <2>1 DEF Final
  <1> QED BY <1>5, <1>6

LEMMA CreateKeepsTrack ==
    ASSUME AInv, crashes = 0, ~met, NEW g \in Identities, CreateRow(g)
    PROVE  RoomToCreate' /\ \A t \in Triples : Final(t)' = Final(t)
  <1> USE DEF AInv, NInv
  <1>1. g \in DOMAIN plan.create /\ plan.delete = {} /\ rows' = Put(g, plan.create[g])
        /\ plan.create[g] \in Spelled
    BY DEF CreateRow, OnTrack, RoomToCreate, CreatesRows
  <1>2. /\ plan'.delete = {}
        /\ DOMAIN plan'.create = DOMAIN plan.create \ {g}
        /\ \A h \in DOMAIN plan.create \ {g} : plan'.create[h] = plan.create[h]
    BY <1>1 DEF CreateRow, Shape, Without
  <1>3. At(g)' = plan.create[g] /\ \A j \in Identities : j # g => At(j)' = At(j)
    BY <1>1, PutStored
  <1>4. RoomToCreate'
    BY <1>2, <1>3 DEF OnTrack, RoomToCreate, PlanSplits
  <1>5. ASSUME NEW t \in Triples PROVE Final(t)' = Final(t)
    <2>1. ASSUME NEW s \in Sources PROVE Final(t)'[s] = Final(t)[s]
      <3>1. PICK j \in Identities : j = <<t, s>>
        BY DEF Identities
      <3>2. rows[t][s] = At(j) /\ rows'[t][s] = At(j)'
        BY <3>1 DEF At
      <3>3. j # g => rows'[t][s] = rows[t][s]
        BY <1>3, <3>2
      <3>4. j = g => rows'[t][s] = plan.create[g]
        BY <1>3, <3>2
      <3> QED BY <1>1, <1>2, <3>1, <3>3, <3>4 DEF Final
    <2> QED BY <2>1 DEF Final
  <1> QED BY <1>4, <1>5

LEMMA DropKeepsTrack ==
    ASSUME AInv, NEW d \in Triples, DropArrow(d)
    PROVE  ArrowTypes' /\ OnTrack'
  <1> USE DEF AInv, NInv
  <1>1. /\ d \in plan.drop /\ arrows' = [arrows EXCEPT ![d] = NoArrow]
        /\ UNCHANGED <<rows, crashes, met>>
        /\ plan'.delete = plan.delete /\ plan'.create = plan.create
        /\ plan'.drop = plan.drop \ {d} /\ plan'.update = plan.update
    BY DEF DropArrow, Shape
  <1>2. ArrowTypes'
    BY <1>1 DEF ArrowTypes
  <1>3. RoomToCreate <=> RoomToCreate'
    BY <1>1 DEF RoomToCreate, At
  <1>4. ASSUME NEW t \in Triples, crashes = 0, ~met PROVE OnCourse(t)'
    <2>1. Final(t)' = Final(t)
      BY <1>1 DEF Final
    <2>2. OnCourse(t)
      BY <1>4 DEF OnTrack
    <2>3. CASE t = d
      <3>1. arrows'[t] = NoArrow /\ Support(Final(t)) = {} /\ t \notin DOMAIN plan.update
        BY <1>1, <2>2, <2>3 DEF ArrowTypes, OnCourse
      <3>2. Derived(arrows'[t], Final(t)')
        BY <2>1, <3>1 DEF Derived
      <3> QED BY <1>1, <2>3, <3>1, <3>2 DEF OnCourse
    <2>4. CASE t # d
      <3>1. arrows'[t] = arrows[t]
        BY <1>1, <2>4 DEF ArrowTypes
      <3> QED BY <1>1, <2>1, <2>2, <2>4, <3>1 DEF OnCourse
    <2> QED BY <2>3, <2>4
  <1> QED BY <1>1, <1>2, <1>3, <1>4 DEF OnTrack

LEMMA RecomputeKeepsTrack ==
    ASSUME AInv, NEW d \in Triples, RecomputeArrow(d)
    PROVE  ArrowTypes' /\ OnTrack'
  <1> USE DEF AInv, NInv
  <1>1. /\ d \in DOMAIN plan.update /\ plan.drop = {}
        /\ UNCHANGED <<rows, crashes, met>>
        /\ plan'.delete = plan.delete /\ plan'.create = plan.create
        /\ plan'.drop = plan.drop
        /\ DOMAIN plan'.update = DOMAIN plan.update \ {d}
        /\ \A t \in DOMAIN plan.update \ {d} : plan'.update[t] = plan.update[t]
    BY DEF RecomputeArrow, Shape, Without
  <1>2. PICK new : new = SetArrow(arrows[d], plan.update[d].conf, plan.update[d].scope)
    OBVIOUS
  <1>3. new \in Arrow /\ new.conf = plan.update[d].conf
    <2>1. arrows[d] \in Arrow \cup {NoArrow} /\ plan.update[d] \in Arrow
      BY <1>1 DEF ArrowTypes
    <2> QED BY <1>2, <2>1, SetArrowIsArrow DEF Arrow
  <1>4. \/ arrows' = [arrows EXCEPT ![d] = new]
        \/ arrows' = arrows /\ arrows[d] # NoArrow /\ arrows[d].conf = plan.update[d].conf
    BY <1>2 DEF RecomputeArrow
  <1>5. /\ arrows' \in [Triples -> Arrow \cup {NoArrow}]
        /\ arrows'[d] # NoArrow /\ arrows'[d].conf = plan.update[d].conf
        /\ \A t \in Triples : t # d => arrows'[t] = arrows[t]
    BY <1>3, <1>4, SentinelAssumption DEF ArrowTypes
  <1>6. ArrowTypes'
    BY <1>1, <1>5 DEF ArrowTypes
  <1>7. RoomToCreate <=> RoomToCreate'
    BY <1>1 DEF RoomToCreate, At
  <1>8. ASSUME NEW t \in Triples, crashes = 0, ~met PROVE OnCourse(t)'
    <2>1. Final(t)' = Final(t)
      BY <1>1 DEF Final
    <2>2. OnCourse(t)
      BY <1>8 DEF OnTrack
    <2>3. CASE t = d
      <3>1. Support(Final(t)) # {} /\ plan.update[t].conf = Aggregate(Final(t))
        BY <1>1, <2>2, <2>3 DEF OnCourse
      <3>2. Derived(arrows'[t], Final(t)')
        BY <1>5, <2>1, <2>3, <3>1 DEF Derived
      <3> QED BY <1>1, <2>3, <3>2 DEF OnCourse
    <2>4. CASE t # d
      <3>1. arrows'[t] = arrows[t]
        BY <1>5, <2>4
      <3> QED BY <1>1, <2>1, <2>2, <2>4, <3>1 DEF OnCourse
    <2> QED BY <2>3, <2>4
  <1> QED BY <1>1, <1>6, <1>7, <1>8 DEF OnTrack

-----------------------------------------------------------------------------

LEMMA NextKeepsTrack ==
    ASSUME AInv, [Next]_vars
    PROVE  AInv'
  <1> USE DEF AInv
  <1>0. NInv' /\ CreatesRows'
    BY NextKeepsNInv, CreatesRowsKept
  <1>1. ASSUME NEW t \in Triples, NEW s \in Sources, NEW row \in Spelled,
               IngestRow(t, s, row)
        PROVE  ArrowTypes' /\ OnTrack'
    BY <1>0, <1>1, IngestKeepsTrack
  <1>2. ASSUME NEW t \in Triples, NEW s \in Sources, NEW row \in Spelled,
               MigrateRow(t, s, row)
        PROVE  ArrowTypes' /\ OnTrack'
    BY <1>0, <1>2, MigrateKeepsTrack
  <1>3. ASSUME Begin PROVE ArrowTypes' /\ OnTrack'
    <2>1. PICK win \in Winners : \E scopes \in ScopeChoices(win) : Start(win, scopes)
      BY <1>3 DEF Begin
    <2> QED BY <2>1, StartKeepsTrack
  <1>4. ASSUME NEW id \in Identities, DeleteRow(id) \/ CreateRow(id)
        PROVE  ArrowTypes' /\ OnTrack'
    <2>1. /\ UNCHANGED <<arrows, crashes, met>>
          /\ plan'.drop = plan.drop /\ plan'.update = plan.update
      BY <1>4 DEF DeleteRow, CreateRow, NInv, Shape
    <2>2. ArrowTypes'
      BY <2>1 DEF ArrowTypes
    <2>3. CASE crashes = 0 /\ ~met
      <3>1. RoomToCreate' /\ \A t \in Triples : Final(t)' = Final(t)
        BY <1>4, <2>3, DeleteKeepsTrack, CreateKeepsTrack
      <3> QED BY <2>1, <2>2, <3>1, FinalKept
    <2>4. CASE ~(crashes = 0 /\ ~met)
      BY <2>1, <2>2, <2>4 DEF OnTrack
    <2> QED BY <2>3, <2>4
  <1>5. ASSUME NEW t \in Triples, DropArrow(t) \/ RecomputeArrow(t)
        PROVE  ArrowTypes' /\ OnTrack'
    BY <1>5, DropKeepsTrack, RecomputeKeepsTrack
  <1>6. ASSUME Crash \/ \E g \in Identities : RefuseRow(g)
        PROVE  ArrowTypes' /\ OnTrack'
    <2>1. plan' = NoPlan /\ arrows' = arrows /\ crashes' = crashes + 1
      BY <1>6 DEF Crash, RefuseRow, storeVars
    <2>2. crashes' # 0
      BY <2>1 DEF NInv, Shape
    <2>3. ArrowTypes'
      BY <2>1 DEF ArrowTypes, NoPlan, Empty
    <2> QED BY <2>2, <2>3 DEF OnTrack
  <1>7. ASSUME \/ Finish \/ UNCHANGED vars
               \/ \E c \in Canons : EditRegistry(c)
        PROVE  ArrowTypes' /\ OnTrack'
    <2>1. UNCHANGED <<rows, arrows, plan, crashes, met>>
      BY <1>7 DEF Finish, EditRegistry, vars, storeVars
    <2>2. ArrowTypes'
      BY <2>1 DEF ArrowTypes
    <2>3. \A t \in Triples : Final(t)' = Final(t)
      BY <2>1 DEF Final
    <2>4. CASE crashes = 0 /\ ~met
      <3>1. RoomToCreate'
        BY <2>1, <2>4 DEF OnTrack, RoomToCreate, At
      <3> QED BY <2>1, <2>2, <2>3, <3>1, FinalKept
    <2>5. CASE ~(crashes = 0 /\ ~met)
      BY <2>1, <2>2, <2>5 DEF OnTrack
    <2> QED BY <2>4, <2>5
  <1> QED BY <1>0, <1>1, <1>2, <1>3, <1>4, <1>5, <1>6, <1>7 DEF Next, Execute

LEMMA AInvHolds == Spec => []AInv
  <1>1. AInv /\ [Next]_vars => AInv'
    BY NextKeepsTrack
  <1> QED BY <1>1, InitAInv, PTL DEF Spec

\* plan_normalization, normalize_relations: whatever a registry maps onto what,
\* and whichever variants collapse, a pass that nothing interrupts and nothing
\* overtakes leaves each arrow the aggregate of its rows, and none without rows.
THEOREM ArrowsStayDerived == Spec => []PassesDeriveArrows
  <1>1. AInv => PassesDeriveArrows
    <2> SUFFICES ASSUME AInv, ~running, crashes = 0, ~met, NEW t \in Triples
                 PROVE  Derived(arrows[t], rows[t])
      BY DEF PassesDeriveArrows
    <2>1. plan = NoPlan /\ Final(t) = rows[t]
      BY FinalIdle DEF AInv, NInv, Shape
    <2>2. OnCourse(t)
      BY DEF AInv, OnTrack
    <2> QED BY <2>1, <2>2 DEF OnCourse, NoPlan, Empty
  <1> QED BY <1>1, AInvHolds, PTL

-----------------------------------------------------------------------------
(* Fact checks *)

\* Verdicts belong to runs begun, not raised, and not still judging.
Numbered ==
    /\ checks \in Nat
    /\ failed \subseteq 1 .. checks
    /\ \A v \in verdicts : /\ v = [run |-> v.run, about |-> v.about, on |-> v.on]
                            /\ v.run \in 1 .. checks /\ v.run \notin failed
    /\ stage # "idle" => checks \in 1 .. checks /\ checks \notin failed
    /\ stage = "judging" => \A v \in verdicts : v.run # checks

\* A CHECKS edge ends at a row.
Attached ==
    \A v \in verdicts :
        /\ v = [run |-> v.run, about |-> v.about, on |-> v.on]
        /\ v.on # NoRow => v.on \in StoredRows

\* A step of any action leaves the ledger alone or is a step of it.
LEMMA StepMaps ==
    ASSUME [LedgerStep \/ CheckStep]_allVars
    PROVE  [Next]_vars
  BY DEF LedgerStep, CheckStep, allVars, Fetch, Judge, Raise, SaveVerdict, End

\* No action of FactCheck assigns to the ledger or the registry ("rows and arrows
\* are never mutated by verdicts", docs/adr/0005): what is proved of the ledger
\* without fact checks holds with them.
LEMMA ChecksStepTheLedger == CheckSpec => Spec
  <1>1. CheckInit => Init
    BY DEF CheckInit
  <1>2. [LedgerStep \/ CheckStep]_allVars => [Next]_vars
    BY StepMaps
  <1> QED BY <1>1, <1>2, PTL DEF CheckSpec, Spec

\* The theorems about normalization hold with fact checks in between: the
\* claims, the words of the rows, the arrows, and the canonical rows.
THEOREM ClaimsSurviveChecks ==
    CheckSpec => /\ []ClaimsKept /\ []NothingInvented /\ []SecondRunEmpty
                 /\ []PassesDeriveArrows /\ CanonicalUntouched
  BY ChecksStepTheLedger, ClaimsAreKept, NothingIsInvented, SecondRunIsEmpty,
     ArrowsStayDerived, CanonicalIsUntouched

-----------------------------------------------------------------------------

LEMMA NumberedKept ==
    ASSUME Numbered, [LedgerStep \/ CheckStep]_allVars
    PROVE  Numbered'
  <1> USE DEF Numbered
  <1>1. CASE LedgerStep
    <2>1. UNCHANGED <<checks, stage, failed>>
      BY <1>1 DEF LedgerStep
    <2>2. ASSUME NEW u \in verdicts
          PROVE  Detached(u) = [run |-> u.run, about |-> u.about, on |-> Detached(u).on]
      <3>1. u = [run |-> u.run, about |-> u.about, on |-> u.on]
        OBVIOUS
      <3> QED BY <3>1 DEF Detached
    <2>3. \A v \in verdicts' : \E u \in verdicts : v = Detached(u)
      BY <1>1 DEF LedgerStep
    <2>4. ASSUME NEW v \in verdicts'
          PROVE  /\ v = [run |-> v.run, about |-> v.about, on |-> v.on]
                 /\ \E u \in verdicts : v.run = u.run
      <3>1. PICK u \in verdicts : v = Detached(u)
        BY <2>3
      <3>2. v = [run |-> u.run, about |-> u.about, on |-> Detached(u).on]
        BY <2>2, <3>1
      <3> QED BY <3>2
    <2> QED BY <2>1, <2>4
  <1>2. ASSUME NEW ids \in Selections, Fetch(ids) PROVE Numbered'
    BY <1>2 DEF Fetch
  <1>3. CASE Judge
    BY <1>3 DEF Judge
  <1>4. CASE Raise
    BY <1>4 DEF Raise
  <1>5. ASSUME NEW id \in Identities, SaveVerdict(id) PROVE Numbered'
    <2>1. UNCHANGED <<checks, stage, failed>> /\ stage = "saving"
      BY <1>5 DEF SaveVerdict
    <2>2. ASSUME NEW v \in verdicts'
          PROVE  /\ v = [run |-> v.run, about |-> v.about, on |-> v.on]
                 /\ v.run \in 1 .. checks /\ v.run \notin failed
      <3>1. CASE v \in verdicts
        BY <3>1
      <3>2. CASE v = [run |-> checks, about |-> id, on |-> id]
        BY <2>1, <3>2
      <3> QED BY <1>5, <3>1, <3>2 DEF SaveVerdict
    <2> QED BY <2>1, <2>2
  <1>6. CASE End
    BY <1>6 DEF End
  <1>7. CASE UNCHANGED allVars
    BY <1>7 DEF allVars, checkVars
  <1> QED BY <1>1, <1>2, <1>3, <1>4, <1>5, <1>6, <1>7 DEF CheckStep

\* fact_check_rows, save_verdicts: no verdict of a run that raised is in the
\* graph, the ones it had reached before it raised included.
THEOREM OnlyWholeRunsHolds == CheckSpec => []OnlyWholeRuns
  <1>1. CheckInit => Numbered
    BY DEF CheckInit, Numbered
  <1>2. Numbered => OnlyWholeRuns
    BY DEF Numbered, OnlyWholeRuns
  <1> QED BY <1>1, <1>2, NumberedKept, PTL DEF CheckSpec

-----------------------------------------------------------------------------

\* Every step but a pass's delete keeps the rows there are.
LEMMA RowsStay ==
    ASSUME NInv, CreatesRows, Next, \A j \in Identities : ~DeleteRow(j)
    PROVE  StoredRows \subseteq StoredRows'
  <1> USE DEF NInv
  <1>1. ASSUME rows' = rows PROVE StoredRows \subseteq StoredRows'
    BY <1>1 DEF StoredRows
  <1>2. ASSUME NEW j \in Identities, NEW row \in Spelled, row # NoRow, rows' = Put(j, row)
        PROVE  StoredRows \subseteq StoredRows'
    BY <1>2, PutStored
  <1>3. ASSUME NEW t \in Triples, NEW s \in Sources, NEW row \in Spelled,
               IngestRow(t, s, row)
        PROVE  StoredRows \subseteq StoredRows'
    <2>1. canon[t] \in Triples /\ <<canon[t], s>> \in Identities
      BY CanonFacts DEF Shape, Identities
    <2>2. At(<<canon[t], s>>) = NoRow => rows' = Put(<<canon[t], s>>, row)
      BY <1>3, <2>1 DEF IngestRow, Put, At, Shape
    <2>3. At(<<canon[t], s>>) # NoRow => rows' = rows
      BY <1>3, <2>1 DEF IngestRow, At, Shape
    <2> QED BY <1>1, <1>2, <2>1, <2>2, <2>3, NormalizationAssumption
  <1>4. ASSUME NEW t \in Triples, NEW s \in Sources, NEW row \in Spelled,
               MigrateRow(t, s, row)
        PROVE  StoredRows \subseteq StoredRows'
    <2>1. <<t, s>> \in Identities /\ rows' = Put(<<t, s>>, row)
      BY <1>4 DEF MigrateRow, Identities
    <2> QED BY <1>2, <2>1, NormalizationAssumption
  <1>5. ASSUME NEW g \in Identities, CreateRow(g)
        PROVE  StoredRows \subseteq StoredRows'
    <2>1. plan.create[g] \in Spelled /\ plan.create[g] # NoRow
      BY <1>5 DEF CreateRow, CreatesRows, PlanSplits
    <2>2. rows' = rows \/ rows' = Put(g, plan.create[g])
      BY <1>5 DEF CreateRow
    <2> QED BY <1>1, <1>2, <2>1, <2>2
  <1>6. Begin => rows' = rows
    BY DEF Begin, Start, storeVars
  <1>7. \A t \in Triples : DropArrow(t) \/ RecomputeArrow(t) => rows' = rows
    BY DEF DropArrow, RecomputeArrow
  <1>8. Finish \/ Crash \/ (\E g \in Identities : RefuseRow(g)) => rows' = rows
    BY DEF Finish, Crash, RefuseRow, storeVars
  <1>9. \A c \in Canons : EditRegistry(c) => rows' = rows
    BY DEF EditRegistry, storeVars
  <1> QED BY <1>1, <1>3, <1>4, <1>5, <1>6, <1>7, <1>8, <1>9 DEF Next, Execute

\* A row leaves the ledger only by the delete of a pass, and is not canonical.
LEMMA RowsLeave ==
    ASSUME NInv, CreatesRows, Next, NEW id \in StoredRows, id \notin StoredRows'
    PROVE  running /\ id \in Rewritten
  <1> USE DEF NInv
  <1>1. PICK j \in Identities : DeleteRow(j)
    BY RowsStay
  <1>2. j \in plan.delete /\ rows' = Put(j, NoRow)
    BY <1>1 DEF DeleteRow
  <1>3. j = id
    BY <1>2, PutStored
  <1>4. running
    BY <1>2 DEF Shape, NoPlan
  <1>5. canon[id[1]] # id[1]
    BY <1>2, <1>3 DEF PlanSplits
  <1> QED BY <1>4, <1>5 DEF Rewritten

LEMMA AttachedKept ==
    ASSUME NInv, CreatesRows, Attached, [LedgerStep \/ CheckStep]_allVars
    PROVE  Attached'
  <1> USE DEF Attached
  <1>1. CASE LedgerStep
    <2>1. verdicts' = {Detached(v) : v \in verdicts}
      BY <1>1 DEF LedgerStep
    <2>2. ASSUME NEW v \in verdicts
          PROVE  /\ Detached(v) = [run |-> Detached(v).run, about |-> Detached(v).about,
                                   on |-> Detached(v).on]
                 /\ Detached(v).on # NoRow => Detached(v).on \in StoredRows'
      <3>1. CASE v.on # NoRow /\ v.on \notin StoredRows'
        <4>1. Detached(v) = [run |-> v.run, about |-> v.about, on |-> NoRow]
          BY <3>1 DEF Detached
        <4> QED BY <4>1
      <3>2. CASE ~(v.on # NoRow /\ v.on \notin StoredRows')
        <4>1. Detached(v) = v
          BY <3>2 DEF Detached
        <4> QED BY <3>2, <4>1
      <3> QED BY <3>1, <3>2
    <2> QED BY <2>1, <2>2
  <1>2. ASSUME StoredRows' = StoredRows,
               \A v \in verdicts' : v \in verdicts \/
                   \E id \in StoredRows : v = [run |-> checks, about |-> id, on |-> id]
        PROVE  Attached'
    BY <1>2
  <1>3. ASSUME UNCHANGED <<vars, verdicts>> PROVE Attached'
    <2>1. StoredRows' = StoredRows
      BY <1>3 DEF vars, storeVars, StoredRows
    <2> QED BY <1>2, <1>3, <2>1
  <1>4. ASSUME NEW id \in Identities, SaveVerdict(id) PROVE Attached'
    <2>1. StoredRows' = StoredRows
      BY <1>4 DEF SaveVerdict, vars, storeVars, StoredRows
    <2> QED BY <1>2, <1>4, <2>1 DEF SaveVerdict
  <1>5. ASSUME (\E ids \in Selections : Fetch(ids)) \/ Judge \/ Raise \/ End
               \/ UNCHANGED allVars
        PROVE  UNCHANGED <<vars, verdicts>>
    BY <1>5 DEF Fetch, Judge, Raise, End, allVars, checkVars
  <1> QED BY <1>1, <1>3, <1>4, <1>5 DEF CheckStep

\* What a step may do to a verdict.
MayLose(v) ==
    \/ v \in verdicts'
    \/ running /\ v.on \in Rewritten /\ [v EXCEPT !.on = NoRow] \in verdicts'

LEMMA VerdictKept ==
    ASSUME NInv, CreatesRows, Attached, LedgerStep \/ CheckStep, NEW v \in verdicts
    PROVE  MayLose(v)
  <1>1. CASE LedgerStep
    <2>1. Detached(v) \in verdicts' /\ Next
      BY <1>1 DEF LedgerStep
    <2>2. CASE v.on # NoRow /\ v.on \notin StoredRows'
      <3>1. v.on \in StoredRows
        BY <2>2 DEF Attached
      <3>2. running /\ v.on \in Rewritten
        BY <2>1, <2>2, <3>1, RowsLeave
      <3> QED BY <2>1, <2>2, <3>2 DEF Detached, MayLose
    <2>3. CASE ~(v.on # NoRow /\ v.on \notin StoredRows')
      BY <2>1, <2>3 DEF Detached, MayLose
    <2> QED BY <2>2, <2>3
  <1>2. CASE CheckStep
    BY <1>2 DEF CheckStep, Fetch, Judge, Raise, SaveVerdict, End, MayLose
  <1> QED BY <1>1, <1>2

\* save_verdicts, normalize_relations: receipts are append-only, and lose their
\* CHECKS edge only to a pass that moves the row they are about.
THEOREM VerdictsStayHolds == CheckSpec => VerdictsStay
  <1>1. CheckInit => Attached
    BY DEF CheckInit, Attached
  <1>2. NInv /\ CreatesRows /\ Attached /\ [LedgerStep \/ CheckStep]_allVars => Attached'
    BY AttachedKept
  <1>3. NInv /\ CreatesRows /\ Attached /\ [LedgerStep \/ CheckStep]_allVars =>
           [\A v \in verdicts :
               \/ v \in verdicts'
               \/ running /\ v.on \in Rewritten /\ [v EXCEPT !.on = NoRow] \in verdicts']_allVars
    BY VerdictKept DEF MayLose
  <1>4. CheckSpec => [](NInv /\ CreatesRows)
    BY ChecksStepTheLedger, NInvHolds
  <1> QED BY <1>1, <1>2, <1>3, <1>4, PTL DEF CheckSpec, VerdictsStay
=============================================================================
