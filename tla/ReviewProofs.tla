----------------------------- MODULE ReviewProofs -----------------------------
(***************************************************************************)
(* What a review promises, for every number of processes, batches of any   *)
(* size, edits and interleavings of reviews: approval loses no claim, a    *)
(* rejection leaves every triple in the log, and a new edge lands as it    *)
(* was shown.  The last sections are about two pure functions around it:   *)
(* the arithmetic of confidences, which the ledger's model takes for       *)
(* granted, and the answer to a query, which reads the arrows that land.   *)
(***************************************************************************)
EXTENDS Review, Aggregation, Fanout, DataLemmas, TLAPS

Store == [rows : [Triples -> TripleRows], newest : [Triples -> Sources \cup {NoRow}]]

-----------------------------------------------------------------------------
(* The loop of commit_delta *)

\* The ledger after each of the candidates.
Loop(batch, m) ==
    CHOOSE upTo : upTo = [n \in 0 .. m |->
        IF n = 0 THEN [rows |-> rows, newest |-> newest]
        ELSE Upsert(upTo[n - 1], batch[n])]

\* There is such a sequence, of every length.
LEMMA LoopRuns ==
    ASSUME NEW batch, NEW m \in Nat
    PROVE  LET upTo == Loop(batch, m)
           IN  /\ upTo[0] = [rows |-> rows, newest |-> newest]
               /\ \A n \in 1 .. m : upTo[n] = Upsert(upTo[n - 1], batch[n])
  <1> DEFINE base == [rows |-> rows, newest |-> newest]
             Next1(f, n) == IF n = 0 THEN base ELSE Upsert(f[n - 1], batch[n])
             T == {k \in Nat : \E f : f = [n \in 0 .. k |-> Next1(f, n)]}
  <1>1. 0 \in T
    <2> DEFINE f == [n \in 0 .. 0 |-> base]
    <2>1. f = [n \in 0 .. 0 |-> Next1(f, n)]
      OBVIOUS
    <2> QED BY <2>1
  <1>2. ASSUME NEW k \in T PROVE k + 1 \in T
    <2>1. PICK f : f = [n \in 0 .. k |-> Next1(f, n)]
      OBVIOUS
    <2> DEFINE g == [n \in 0 .. k + 1 |->
                        IF n = k + 1 THEN Upsert(f[k], batch[n]) ELSE f[n]]
    <2>2. \A n \in 0 .. k + 1 : g[n] = Next1(g, n)
      <3>1. \A n \in 0 .. k : f[n] = Next1(f, n)
        BY <2>1
      <3>2. \A n \in 0 .. k : g[n] = f[n]
        OBVIOUS
      <3>3. g[k + 1] = Upsert(g[k], batch[k + 1])
        BY <3>2
      <3> HIDE DEF g
      <3>4. ASSUME NEW n \in 0 .. k + 1 PROVE g[n] = Next1(g, n)
        <4>1. CASE n = k + 1
          BY <3>3, <4>1
        <4>2. CASE n # k + 1 /\ n # 0
          BY <3>1, <3>2, <4>2
        <4>3. CASE n = 0
          BY <3>1, <3>2, <4>3
        <4> QED BY <4>1, <4>2, <4>3
      <3> QED BY <3>4
    <2>3. g = [n \in 0 .. k + 1 |-> Next1(g, n)]
      BY <2>2
    <2> HIDE DEF g
    <2> QED BY <2>3
  <1>3. m \in T
    <2> HIDE DEF T
    <2>1. T \in SUBSET Nat
      BY DEF T
    <2> QED BY <1>1, <1>2, <2>1, Induct
  <1>4. Loop(batch, m) = [n \in 0 .. m |-> Next1(Loop(batch, m), n)]
    BY <1>3 DEF Loop
  <1> DEFINE upTo == Loop(batch, m)
  <1> HIDE DEF upTo
  <1>5. upTo = [n \in 0 .. m |-> Next1(upTo, n)]
    BY <1>4 DEF upTo
  <1>6. upTo[0] = base /\ \A n \in 1 .. m : upTo[n] = Upsert(upTo[n - 1], batch[n])
    BY <1>5
  <1> QED BY <1>6 DEF upTo

LEMMA StoredIsLoop ==
    ASSUME NEW batch PROVE Stored(batch) = Loop(batch, Len(batch))[Len(batch)]
  BY DEF Stored, Loop

\* One candidate: a row is created if its identity has none, and no other row
\* is touched.
LEMMA UpsertCreates ==
    ASSUME NEW store \in Store, NEW e \in Edge
    PROVE  /\ Upsert(store, e) \in Store
           /\ Upsert(store, e).rows[Canon[e.triple]][e.source] # NoRow
           /\ \A t \in Triples, s \in Sources : store.rows[t][s] # NoRow =>
                 Upsert(store, e).rows[t][s] = store.rows[t][s]
           /\ \A t \in Triples : t # Canon[e.triple] =>
                 Upsert(store, e).rows[t] = store.rows[t]
  <1> DEFINE t == Canon[e.triple]
             row == [conf |-> e.conf, scope |-> NoScope]
  <1>1. t \in Triples /\ e.source \in Sources /\ e.conf \in Weights
    BY ReviewAssumption DEF Edge
  <1>2. row \in Row /\ row # NoRow
    BY <1>1, StoreAssumption, SentinelAssumption DEF Row
  <1>3. /\ store.rows \in [Triples -> TripleRows]
        /\ store.newest \in [Triples -> Sources \cup {NoRow}]
        /\ store.rows[t] \in [Sources -> Row \cup {NoRow}]
    BY <1>1 DEF Store, TripleRows
  <1> HIDE DEF t, row
  <1>4. CASE store.rows[t][e.source] # NoRow
    BY <1>4 DEF Upsert, t
  <1>5. CASE store.rows[t][e.source] = NoRow
    <2> DEFINE r == [store.rows EXCEPT ![t][e.source] = row]
               w == [store.newest EXCEPT ![t] = e.source]
    <2>1. Upsert(store, e) = [rows |-> r, newest |-> w]
      BY <1>5 DEF Upsert, t, row
    <2>2. r \in [Triples -> TripleRows] /\ w \in [Triples -> Sources \cup {NoRow}]
      BY <1>1, <1>2, <1>3 DEF TripleRows
    <2>3. /\ r[t][e.source] = row
          /\ \A u \in Triples : u # t => r[u] = store.rows[u]
          /\ \A s \in Sources : s # e.source => r[t][s] = store.rows[t][s]
      BY <1>1, <1>3
    <2> HIDE DEF r, w
    <2>4. Upsert(store, e) \in Store /\ Upsert(store, e).rows = r
      BY <2>1, <2>2 DEF Store
    <2>5. \A u \in Triples, s \in Sources : store.rows[u][s] # NoRow =>
             r[u][s] = store.rows[u][s]
      BY <1>5, <2>3
    <2> QED BY <1>2, <2>3, <2>4, <2>5 DEF t
  <1> QED BY <1>4, <1>5

\* rs holds, per source, the first of n candidates that says t.
Says(rs, batch, n, t) ==
    /\ rs \in TripleRows /\ IsFiniteSet(Support(rs))
    /\ \A s \in Sources :
          IF rs[s] = NoRow
          THEN \A i \in 1 .. n : ~(batch[i].triple = t /\ batch[i].source = s)
          ELSE \E i \in 1 .. n :
                  /\ batch[i].triple = t /\ batch[i].source = s
                  /\ rs[s] = [conf |-> batch[i].conf, scope |-> NoScope]
                  /\ \A j \in 1 .. i - 1 : ~(batch[j].triple = t /\ batch[j].source = s)

\* No other verb of the batch becomes t, and t stays what it is.
Own(batch, t) == \A i \in DOMAIN batch : Canon[batch[i].triple] = t <=> batch[i].triple = t

LEMMA SaysNothing ==
    ASSUME NEW batch, NEW t PROVE Says(NoRows, batch, 0, t)
  <1>1. Support(NoRows) = {}
    BY DEF Support, NoRows
  <1> QED BY <1>1, FS_EmptySet DEF Says, NoRows, TripleRows

\* One more candidate.
LEMMA SaysMore ==
    ASSUME NEW batch \in Seq(Edge), NEW n \in Nat, n + 1 \in DOMAIN batch, NEW t,
           NEW rs, Says(rs, batch, n, t)
    PROVE  LET e == batch[n + 1]
               row == [conf |-> e.conf, scope |-> NoScope]
           IN  Says(IF e.triple = t /\ rs[e.source] = NoRow
                    THEN [rs EXCEPT ![e.source] = row] ELSE rs, batch, n + 1, t)
  <1> DEFINE e == batch[n + 1]
             row == [conf |-> e.conf, scope |-> NoScope]
             new == [rs EXCEPT ![e.source] = row]
             Hit(i, s) == batch[i].triple = t /\ batch[i].source = s
  <1>1. e \in Edge /\ e.source \in Sources /\ e.conf \in Weights
    <2>1. e \in Edge
      OBVIOUS
    <2> QED BY <2>1 DEF Edge
  <1>2. row \in Row /\ row # NoRow
    BY <1>1, StoreAssumption, SentinelAssumption DEF Row
  <1>3. rs \in [Sources -> Row \cup {NoRow}] /\ IsFiniteSet(Support(rs))
    BY DEF Says, TripleRows
  <1>4. \A i : i \in 1 .. n + 1 <=> i \in 1 .. n \/ i = n + 1
    OBVIOUS
  <1>5. \A s \in Sources :
           IF rs[s] = NoRow THEN \A i \in 1 .. n : ~Hit(i, s)
           ELSE \E i \in 1 .. n : /\ Hit(i, s)
                                  /\ rs[s] = [conf |-> batch[i].conf, scope |-> NoScope]
                                  /\ \A j \in 1 .. i - 1 : ~Hit(j, s)
    BY DEF Says
  <1> HIDE DEF e, row
  <1>6. CASE e.triple = t /\ rs[e.source] = NoRow
    <2>1. /\ new \in TripleRows /\ new[e.source] = row
          /\ \A s \in Sources : s # e.source => new[s] = rs[s]
      BY <1>1, <1>2, <1>3 DEF TripleRows
    <2>2. Support(new) = Support(rs) \cup {e.source}
      BY <1>1, <1>2, <1>3, <2>1 DEF Support, TripleRows
    <2> HIDE DEF new
    <2>3. IsFiniteSet(Support(new))
      <3>1. IsFiniteSet(Support(rs) \cup {e.source})
        BY <1>3, FS_AddElement, Zenon
      <3> QED BY <2>2, <3>1
    <2>4. /\ Hit(n + 1, e.source) /\ n + 1 \in 1 .. n + 1
          /\ new[e.source] = [conf |-> batch[n + 1].conf, scope |-> NoScope]
          /\ \A j \in 1 .. (n + 1) - 1 : ~Hit(j, e.source)
      BY <1>1, <1>4, <1>5, <1>6, <2>1 DEF e, row
    <2>5. \A s \in Sources : s # e.source => ~Hit(n + 1, s)
      BY DEF e
    <2> HIDE DEF Hit
    <2>6. \A s \in Sources :
             IF new[s] = NoRow THEN \A i \in 1 .. n + 1 : ~Hit(i, s)
             ELSE \E i \in 1 .. n + 1 :
                     /\ Hit(i, s)
                     /\ new[s] = [conf |-> batch[i].conf, scope |-> NoScope]
                     /\ \A j \in 1 .. i - 1 : ~Hit(j, s)
      <3> SUFFICES ASSUME NEW s \in Sources
                   PROVE IF new[s] = NoRow THEN \A i \in 1 .. n + 1 : ~Hit(i, s)
                         ELSE \E i \in 1 .. n + 1 :
                                 /\ Hit(i, s)
                                 /\ new[s] = [conf |-> batch[i].conf, scope |-> NoScope]
                                 /\ \A j \in 1 .. i - 1 : ~Hit(j, s)
        OBVIOUS
      <3>1. CASE s = e.source
        BY <1>2, <2>1, <2>4, <3>1
      <3>2. CASE s # e.source
        BY <1>4, <1>5, <2>1, <2>5, <3>2
      <3> QED BY <3>1, <3>2
    <2> QED BY <1>6, <2>1, <2>3, <2>6 DEF Says, Hit, new, e, row
  <1>7. CASE ~(e.triple = t /\ rs[e.source] = NoRow)
    <2>1. \A s \in Sources : rs[s] = NoRow => ~Hit(n + 1, s)
      BY <1>7 DEF e
    <2> HIDE DEF Hit
    <2>2. \A s \in Sources :
             IF rs[s] = NoRow THEN \A i \in 1 .. n + 1 : ~Hit(i, s)
             ELSE \E i \in 1 .. n + 1 :
                     /\ Hit(i, s)
                     /\ rs[s] = [conf |-> batch[i].conf, scope |-> NoScope]
                     /\ \A j \in 1 .. i - 1 : ~Hit(j, s)
      BY <1>4, <1>5, <2>1
    <2>3. Says(rs, batch, n + 1, t)
      BY <1>3, <2>2 DEF Says, Hit, TripleRows
    <2> QED BY <1>7, <2>3 DEF e
  <1> QED BY <1>6, <1>7

\* They are the only rows that do.
LEMMA SaysOne ==
    ASSUME NEW batch, NEW n \in Nat, NEW t, NEW rs, NEW rt,
           Says(rs, batch, n, t), Says(rt, batch, n, t)
    PROVE  rs = rt
  <1> SUFFICES ASSUME NEW s \in Sources PROVE rs[s] = rt[s]
    BY DEF Says, TripleRows
  <1> DEFINE Hit(i) == batch[i].triple = t /\ batch[i].source = s
  <1>0. /\ rs[s] = NoRow <=> \A i \in 1 .. n : ~Hit(i)
        /\ rt[s] = NoRow <=> \A i \in 1 .. n : ~Hit(i)
    <2>1. IF rs[s] = NoRow THEN \A i \in 1 .. n : ~Hit(i)
          ELSE \E i \in 1 .. n : Hit(i)
      BY DEF Says
    <2>2. IF rt[s] = NoRow THEN \A i \in 1 .. n : ~Hit(i)
          ELSE \E i \in 1 .. n : Hit(i)
      BY DEF Says
    <2> HIDE DEF Hit
    <2> QED BY <2>1, <2>2
  <1>1. CASE rs[s] = NoRow \/ rt[s] = NoRow
    BY <1>0, <1>1, Zenon
  <1>2. CASE rs[s] # NoRow /\ rt[s] # NoRow
    <2>1. PICK i \in 1 .. n :
             /\ batch[i].triple = t /\ batch[i].source = s
             /\ rs[s] = [conf |-> batch[i].conf, scope |-> NoScope]
             /\ \A j \in 1 .. i - 1 : ~(batch[j].triple = t /\ batch[j].source = s)
      BY <1>2 DEF Says
    <2>2. PICK k \in 1 .. n :
             /\ batch[k].triple = t /\ batch[k].source = s
             /\ rt[s] = [conf |-> batch[k].conf, scope |-> NoScope]
             /\ \A j \in 1 .. k - 1 : ~(batch[j].triple = t /\ batch[j].source = s)
      BY <1>2 DEF Says
    <2>3. i = k
      BY <2>1, <2>2
    <2> QED BY <2>1, <2>2, <2>3
  <1> QED BY <1>1, <1>2

\* What the loop has done after n candidates.
Through(batch, n, store) ==
    /\ store \in Store
    /\ \A i \in 1 .. n : store.rows[Canon[batch[i].triple]][batch[i].source] # NoRow
    /\ \A t \in Triples, s \in Sources : rows[t][s] # NoRow => store.rows[t][s] = rows[t][s]
    /\ \A t \in Triples :
          (\A i \in 1 .. n : t # Canon[batch[i].triple]) => store.rows[t] = rows[t]
    /\ \A t \in Triples : rows[t] = NoRows /\ Own(batch, t) =>
          Says(store.rows[t], batch, n, t)

LEMMA StoredIsThrough ==
    ASSUME rows \in [Triples -> TripleRows], newest \in [Triples -> Sources \cup {NoRow}],
           NEW batch \in Seq(Edge)
    PROVE  Through(batch, Len(batch), Stored(batch))
  <1> DEFINE m == Len(batch)
             upTo == Loop(batch, m)
             T == {n \in Nat : n <= m => Through(batch, n, upTo[n])}
  <1>1. /\ m \in Nat /\ \A n \in 1 .. m : batch[n] \in Edge
    OBVIOUS
  <1>2. /\ upTo[0] = [rows |-> rows, newest |-> newest]
        /\ \A n \in 1 .. m : upTo[n] = Upsert(upTo[n - 1], batch[n])
    BY <1>1, LoopRuns
  <1> HIDE DEF m, upTo
  <1>3. 0 \in T
    <2>1. upTo[0] \in Store /\ upTo[0].rows = rows
      BY <1>2 DEF Store
    <2>2. Through(batch, 0, upTo[0])
      BY <2>1, SaysNothing DEF Through
    <2> QED BY <2>2
  <1>4. ASSUME NEW n \in T PROVE n + 1 \in T
    <2>1. SUFFICES ASSUME n + 1 <= m PROVE Through(batch, n + 1, upTo[n + 1])
      OBVIOUS
    <2> DEFINE old == upTo[n]
               e == batch[n + 1]
               new == upTo[n + 1]
    <2>2. n \in Nat /\ n + 1 \in 1 .. m /\ Through(batch, n, old)
      BY <1>1, <2>1
    <2>3. new = Upsert(old, e) /\ e \in Edge
      BY <1>1, <1>2, <2>2
    <2>4. old \in Store
      BY <2>2 DEF Through
    <2> HIDE DEF new, old
    <2>5. /\ new \in Store /\ new.rows[Canon[e.triple]][e.source] # NoRow
          /\ \A t \in Triples, s \in Sources : old.rows[t][s] # NoRow =>
                new.rows[t][s] = old.rows[t][s]
          /\ \A t \in Triples : t # Canon[e.triple] => new.rows[t] = old.rows[t]
      BY <2>3, <2>4, UpsertCreates
    <2>6. \A i \in 1 .. n + 1 : new.rows[Canon[batch[i].triple]][batch[i].source] # NoRow
      <3>1. ASSUME NEW i \in 1 .. n
            PROVE  new.rows[Canon[batch[i].triple]][batch[i].source] # NoRow
        <4>1. batch[i] \in Edge
          BY <1>1, <2>2
        <4>2. Canon[batch[i].triple] \in Triples /\ batch[i].source \in Sources
          BY <4>1, ReviewAssumption DEF Edge
        <4> QED BY <2>2, <2>5, <4>2 DEF Through
      <3>2. \A i \in 1 .. n + 1 : i \in 1 .. n \/ i = n + 1
        BY <2>2
      <3> QED BY <2>5, <3>1, <3>2
    <2>7. \A t \in Triples, s \in Sources : rows[t][s] # NoRow => new.rows[t][s] = rows[t][s]
      BY <2>2, <2>5 DEF Through
    <2>8. \A t \in Triples :
            (\A i \in 1 .. n + 1 : t # Canon[batch[i].triple]) => new.rows[t] = rows[t]
      <3>1. n + 1 \in 1 .. n + 1 /\ \A i \in 1 .. n : i \in 1 .. n + 1
        BY <2>2
      <3> QED BY <2>2, <2>5, <3>1 DEF Through
    <2>9. ASSUME NEW t \in Triples, rows[t] = NoRows, Own(batch, t)
          PROVE  Says(new.rows[t], batch, n + 1, t)
      <3> DEFINE rs == old.rows[t]
                 row == [conf |-> e.conf, scope |-> NoScope]
      <3>1. Says(rs, batch, n, t)
        BY <2>2, <2>9 DEF Through
      <3>2. Says(IF e.triple = t /\ rs[e.source] = NoRow
                 THEN [rs EXCEPT ![e.source] = row] ELSE rs, batch, n + 1, t)
        <4>1. n + 1 \in DOMAIN batch
          BY <2>2 DEF m
        <4>2. LET f == batch[n + 1]
                  new1 == [conf |-> f.conf, scope |-> NoScope]
              IN  Says(IF f.triple = t /\ rs[f.source] = NoRow
                       THEN [rs EXCEPT ![f.source] = new1] ELSE rs, batch, n + 1, t)
          <5> HIDE DEF rs
          <5> QED BY <2>2, <3>1, <4>1, SaysMore
        <4> QED BY <4>2
      <3>3. Canon[e.triple] = t <=> e.triple = t
        BY <1>1, <2>2, <2>9 DEF Own, m
      <3>4. new.rows[t] = IF e.triple = t /\ rs[e.source] = NoRow
                          THEN [rs EXCEPT ![e.source] = row] ELSE rs
        <4>1. old.rows \in [Triples -> TripleRows] /\ e.triple \in Triples
              /\ Canon[e.triple] \in Triples
          BY <2>3, <2>4, ReviewAssumption DEF Store, Edge
        <4>2. CASE old.rows[Canon[e.triple]][e.source] # NoRow
          BY <2>3, <3>3, <4>1, <4>2 DEF Upsert
        <4>3. CASE old.rows[Canon[e.triple]][e.source] = NoRow
          <5>1. new.rows = [old.rows EXCEPT ![Canon[e.triple]] =
                               [old.rows[Canon[e.triple]] EXCEPT ![e.source] = row]]
            BY <2>3, <4>3 DEF Upsert
          <5> QED BY <3>3, <4>1, <4>3, <5>1
        <4> QED BY <4>2, <4>3
      <3> QED BY <3>2, <3>4
    <2>10. Through(batch, n + 1, new)
      BY <2>5, <2>6, <2>7, <2>8, <2>9 DEF Through
    <2> QED BY <2>10 DEF new
  <1>5. T = Nat
    <2>1. T \in SUBSET Nat
      OBVIOUS
    <2> HIDE DEF T
    <2> QED BY <1>3, <1>4, <2>1, Induct
  <1>6. Through(batch, m, upTo[m])
    BY <1>1, <1>5
  <1> QED BY <1>6, StoredIsLoop DEF m, upTo

LedgerTypes ==
    /\ rows \in [Triples -> TripleRows]
    /\ newest \in [Triples -> Sources \cup {NoRow}]
    /\ arrows \in [Triples -> Arrow \cup {NoArrow}]

ArrowsDerived == \A t \in Triples : Derived(arrows[t], rows[t])

\* A commit adds the rows of its candidates, takes none away and derives the
\* arrows of their triples.
LEMMA CommitWrites ==
    ASSUME LedgerTypes, ArrowsDerived, NEW batch \in Seq(Edge), Commit(batch)
    PROVE  /\ LedgerTypes' /\ ArrowsDerived'
           /\ \A i \in DOMAIN batch : rows'[Canon[batch[i].triple]][batch[i].source] # NoRow
           /\ \A t \in Triples, s \in Sources : rows[t][s] # NoRow => rows'[t][s] # NoRow
           /\ \A t \in Triples : rows[t] = NoRows /\ Own(batch, t) =>
                 Says(rows'[t], batch, Len(batch), t)
  <1> DEFINE store == Stored(batch)
             touched == {Canon[u] : u \in TriplesOf(batch)}
  <1>1. Through(batch, Len(batch), store) /\ DOMAIN batch = 1 .. Len(batch)
    BY StoredIsThrough DEF LedgerTypes
  <1>2. /\ rows' = store.rows /\ newest' = store.newest
        /\ arrows' = [t \in Triples |->
              IF t \in touched THEN SetArrow(arrows[t], Aggregate(store.rows[t]), NoScope)
              ELSE arrows[t]]
    BY DEF Commit
  <1> HIDE DEF store
  <1>3. /\ store.rows \in [Triples -> TripleRows]
        /\ store.newest \in [Triples -> Sources \cup {NoRow}]
    BY <1>1 DEF Through, Store
  <1>4. \A i \in DOMAIN batch : rows'[Canon[batch[i].triple]][batch[i].source] # NoRow
    BY <1>1, <1>2 DEF Through
  <1>5. \A t \in Triples, s \in Sources : rows[t][s] # NoRow => rows'[t][s] = rows[t][s]
    BY <1>1, <1>2 DEF Through
  <1>6. ASSUME NEW t \in touched
        PROVE  t \in Triples /\ \E s \in Sources : rows'[t][s] # NoRow
    <2>1. PICK i \in DOMAIN batch : t = Canon[batch[i].triple]
      BY DEF TriplesOf
    <2>2. batch[i] \in Edge
      BY <2>1
    <2>3. batch[i].triple \in Triples /\ batch[i].source \in Sources
      BY <2>2 DEF Edge
    <2> QED BY <1>4, <2>1, <2>3, ReviewAssumption
  <1>7. \A t \in Triples : t \notin touched => rows'[t] = rows[t]
    BY <1>1, <1>2 DEF Through, TriplesOf
  <1> HIDE DEF touched
  <1>8. ASSUME NEW t \in touched
        PROVE  /\ arrows'[t] \in Arrow /\ arrows'[t] # NoArrow
               /\ arrows'[t].conf = Aggregate(rows'[t])
    <2>1. t \in Triples /\ store.rows[t] \in TripleRows /\ arrows[t] \in Arrow \cup {NoArrow}
      BY <1>3, <1>6 DEF LedgerTypes
    <2>2. Aggregate(store.rows[t]) \in Confidences
      BY <2>1 DEF Confidences
    <2>3. arrows'[t] = SetArrow(arrows[t], Aggregate(store.rows[t]), NoScope)
      BY <1>2, <2>1
    <2> HIDE DEF Aggregate
    <2>4. SetArrow(arrows[t], Aggregate(store.rows[t]), NoScope) \in Arrow
      BY <2>1, <2>2, StoreAssumption DEF SetArrow, Arrow
    <2> QED BY <1>2, <2>3, <2>4, SentinelAssumption DEF SetArrow
  <1>9. LedgerTypes'
    BY <1>2, <1>3, <1>8 DEF LedgerTypes
  <1>10. ASSUME NEW t \in Triples PROVE Derived(arrows[t], rows[t])'
    <2>1. CASE t \in touched
      <3>1. Support(rows'[t]) # {}
        BY <1>2, <1>3, <1>6, <2>1 DEF Support, TripleRows
      <3> QED BY <1>8, <2>1, <3>1 DEF Derived
    <2>2. CASE t \notin touched
      <3>1. rows'[t] = rows[t] /\ arrows'[t] = arrows[t]
        BY <1>2, <1>7, <2>2
      <3> QED BY <3>1 DEF ArrowsDerived, Derived
    <2> QED BY <2>1, <2>2
  <1>11. ASSUME NEW t \in Triples, rows[t] = NoRows, Own(batch, t)
         PROVE  Says(rows'[t], batch, Len(batch), t)
    BY <1>1, <1>2, <1>11 DEF Through
  <1> QED BY <1>4, <1>5, <1>9, <1>10, <1>11 DEF ArrowsDerived

-----------------------------------------------------------------------------
(* Edits *)

LEMMA FirstSaid ==
    ASSUME NEW batch \in Seq(Edge), NEW t \in TriplesOf(batch)
    PROVE  LET first == CHOOSE i \in DOMAIN batch :
                            /\ batch[i].triple = t
                            /\ \A j \in 1 .. i - 1 : batch[j].triple # t
           IN  first \in DOMAIN batch /\ batch[first].triple = t
  <1> DEFINE IsFirst(i) == /\ batch[i].triple = t
                           /\ \A j \in 1 .. i - 1 : batch[j].triple # t
             mine == {i \in DOMAIN batch : batch[i].triple = t}
  <1>1. DOMAIN batch = 1 .. Len(batch) /\ Len(batch) \in Nat
    OBVIOUS
  <1>2. mine \in SUBSET Nat /\ mine # {}
    BY <1>1 DEF TriplesOf
  <1>3. PICK i \in mine : \A j \in mine : i <= j
    BY <1>2, SmallestExists
  <1>4. i \in 1 .. Len(batch) /\ batch[i].triple = t
    BY <1>1, <1>3
  <1>5. \A j \in 1 .. i - 1 : batch[j].triple # t
    <2> SUFFICES ASSUME NEW j \in 1 .. i - 1, batch[j].triple = t PROVE FALSE
      OBVIOUS
    <2>1. j \in mine
      BY <1>1, <1>4
    <2> QED BY <1>3, <1>4, <2>1
  <1>6. \E j \in DOMAIN batch : IsFirst(j)
    BY <1>1, <1>4, <1>5
  <1> QED BY <1>6

LEMMA CandidateEdited ==
    ASSUME NEW batch \in Seq(Edge), NEW first \in DOMAIN batch, NEW conf \in Weights
    PROVE  LET edited == [batch EXCEPT ![first].conf = conf]
           IN  /\ edited \in Seq(Edge) /\ DOMAIN edited = DOMAIN batch
               /\ Len(edited) = Len(batch) /\ edited[first].conf = conf
               /\ \A i \in DOMAIN batch : /\ edited[i].triple = batch[i].triple
                                          /\ edited[i].source = batch[i].source
                                          /\ i # first => edited[i] = batch[i]
  <1> DEFINE e == [batch[first] EXCEPT !.conf = conf]
             edited == [batch EXCEPT ![first].conf = conf]
  <1>1. DOMAIN batch = 1 .. Len(batch) /\ Len(batch) \in Nat
    OBVIOUS
  <1>2. batch[first] \in Edge
    OBVIOUS
  <1>3. /\ e \in Edge /\ e.conf = conf /\ e.triple = batch[first].triple
        /\ e.source = batch[first].source
    BY <1>2 DEF Edge
  <1>4. edited = [batch EXCEPT ![first] = e]
    OBVIOUS
  <1> HIDE DEF e, edited
  <1>5. /\ edited \in Seq(Edge) /\ DOMAIN edited = DOMAIN batch /\ Len(edited) = Len(batch)
        /\ edited[first] = e /\ \A i \in DOMAIN batch : i # first => edited[i] = batch[i]
    BY <1>1, <1>3, <1>4
  <1> QED BY <1>3, <1>5 DEF edited

\* An edit keeps the triples of the delta: it changes one candidate of one of
\* them and drops the others that say the same.
LEMMA PropagateKeepsTriples ==
    ASSUME NEW batch \in Seq(Edge), NEW t \in TriplesOf(batch), NEW conf \in Weights
    PROVE  /\ Propagate(batch, t, conf) \in Seq(Edge)
           /\ TriplesOf(Propagate(batch, t, conf)) = TriplesOf(batch)
  <1> DEFINE first == CHOOSE i \in DOMAIN batch :
                          /\ batch[i].triple = t
                          /\ \A j \in 1 .. i - 1 : batch[j].triple # t
             kept  == {i \in DOMAIN batch : i = first \/ batch[i].triple # t}
             edited == [batch EXCEPT ![first].conf = conf]
  <1>1. first \in DOMAIN batch /\ batch[first].triple = t
    BY FirstSaid
  <1>2. Propagate(batch, t, conf) = Picked(edited, kept)
    BY DEF Propagate
  <1> HIDE DEF first
  <1>3. /\ edited \in Seq(Edge) /\ DOMAIN edited = DOMAIN batch
        /\ \A i \in DOMAIN batch : edited[i].triple = batch[i].triple
    BY <1>1, CandidateEdited
  <1> HIDE DEF edited
  <1>4. kept \in SUBSET DOMAIN edited
    BY <1>3
  <1>5. /\ Picked(edited, kept) \in Seq(Edge)
        /\ ToSet(Picked(edited, kept)) = {edited[i] : i \in kept}
    <2> HIDE DEF kept
    <2> QED BY <1>3, <1>4, PickedMembers, PickedSet
  <1>6. \A s : TriplesOf(s) = {e.triple : e \in ToSet(s)}
    BY DEF TriplesOf, ToSet
  <1>7. {e.triple : e \in {edited[i] : i \in kept}} = TriplesOf(batch)
    BY <1>1, <1>3 DEF TriplesOf
  <1> QED BY <1>2, <1>5, <1>6, <1>7

\* An edit changes an edge the delta shows.
LEMMA EditableIsShown ==
    ASSUME NEW delta, delta.candidates \in Seq(Edge), DOMAIN delta.new # {},
           DOMAIN delta.new \subseteq TriplesOf(delta.candidates)
    PROVE  Editable(delta) \in DOMAIN delta.new
  <1> DEFINE batch == delta.candidates
             Shown(i) == /\ batch[i].triple \in DOMAIN delta.new
                         /\ \A j \in 1 .. i - 1 : batch[j].triple \notin DOMAIN delta.new
             mine == {i \in DOMAIN batch : batch[i].triple \in DOMAIN delta.new}
  <1>1. DOMAIN batch = 1 .. Len(batch) /\ Len(batch) \in Nat
    OBVIOUS
  <1>2. mine \in SUBSET Nat /\ mine # {}
    BY <1>1 DEF TriplesOf
  <1>3. PICK i \in mine : \A j \in mine : i <= j
    BY <1>2, SmallestExists
  <1>4. \A j \in 1 .. i - 1 : batch[j].triple \notin DOMAIN delta.new
    <2> SUFFICES ASSUME NEW j \in 1 .. i - 1, j \in mine PROVE FALSE
      BY <1>1, <1>3
    <2> QED BY <1>1, <1>3
  <1>5. \E k \in DOMAIN batch : Shown(k)
    BY <1>3, <1>4
  <1> QED BY <1>5 DEF Editable

-----------------------------------------------------------------------------
(* Confidences, merged and aggregated *)

\* One more row is what Plus adds.
LEMMA AggregateMore ==
    ASSUME NEW rs \in TripleRows, IsFiniteSet(Support(rs)),
           NEW s \in Sources, rs[s] = NoRow, NEW c \in Weights
    PROVE  LET new == [rs EXCEPT ![s] = [conf |-> c, scope |-> NoScope]]
           IN  /\ Aggregate(new) = Plus(Aggregate(rs), c)
               /\ Support(new) = Support(rs) \cup {s}
  <1> DEFINE row == [conf |-> c, scope |-> NoScope]
             new == [rs EXCEPT ![s] = row]
             T == Support(rs)
  <1>1. row \in Row /\ row # NoRow /\ row.conf = c
    BY StoreAssumption, SentinelAssumption DEF Row
  <1>2. rs \in [Sources -> Row \cup {NoRow}] /\ T = {x \in Sources : rs[x] # NoRow}
    BY DEF TripleRows, Support
  <1> HIDE DEF row
  <1>3. /\ new \in [Sources -> Row \cup {NoRow}] /\ new[s] = row
        /\ \A x \in Sources : x # s => new[x] = rs[x]
    BY <1>1, <1>2
  <1> HIDE DEF new
  <1>4. Support(new) = T \cup {s} /\ s \notin T
    BY <1>1, <1>2, <1>3 DEF Support
  <1>5. \A x \in T : new[x] = rs[x] /\ rs[x] \in Row /\ rs[x].conf \in Nat
    BY <1>2, <1>3, <1>4, StoreAssumption DEF Row
  <1> HIDE DEF T
  <1>6. CASE c = Certain \/ \E x \in T : rs[x].conf = Certain
    <2>1. \E x \in Support(new) : new[x].conf = Certain
      BY <1>1, <1>3, <1>4, <1>5, <1>6
    <2>2. c # Certain => Aggregate(rs) = Certain
      BY <1>6 DEF Aggregate, T
    <2> QED BY <1>4, <2>1, <2>2 DEF Aggregate, Plus, new, row, T
  <1>7. CASE ~(c = Certain \/ \E x \in T : rs[x].conf = Certain)
    <2> DEFINE f == [x \in T \cup {s} |-> new[x].conf]
               f0 == [x \in T |-> rs[x].conf]
    <2>1. Aggregate(rs) = SumFunctionOnSet(f0, T) /\ Aggregate(rs) # Certain
      <3>1. Aggregate(rs) = SumFunctionOnSet(f0, T)
        BY <1>7 DEF Aggregate, SumFunction, T
      <3>2. Aggregate(rs) # Certain
        BY <1>7, CertainAssumption DEF T
      <3> QED BY <3>1, <3>2
    <2>2. Aggregate(new) = SumFunctionOnSet(f, T \cup {s})
      <3>1. ~ \E x \in Support(new) : new[x].conf = Certain
        BY <1>1, <1>3, <1>4, <1>5, <1>7
      <3> QED BY <1>4, <3>1 DEF Aggregate, SumFunction
    <2>3. SumFunctionOnSet(f, T \cup {s}) = f[s] + SumFunctionOnSet(f0, T)
          /\ SumFunctionOnSet(f0, T) \in Nat
      <3>1. \A y \in T \cup {s} : f[y] \in Nat
        BY <1>1, <1>3, <1>4, <1>5, StoreAssumption
      <3>2. \A y \in T : f0[y] = f[y]
        BY <1>5
      <3>3. IsFiniteSet(T)
        BY DEF T
      <3> HIDE DEF f, f0
      <3> QED BY <1>4, <3>1, <3>2, <3>3, SumAdds
    <2>4. f[s] = c /\ c \in Nat
      BY <1>1, <1>3, StoreAssumption
    <2> HIDE DEF f, f0
    <2>5. Aggregate(new) = Aggregate(rs) + c
      BY <2>1, <2>2, <2>3, <2>4
    <2>6. Plus(Aggregate(rs), c) = Aggregate(rs) + c
      BY <1>7, <2>1 DEF Plus
    <2> QED BY <1>4, <2>5, <2>6 DEF new, row, T
  <1> QED BY <1>6, <1>7

\* One row is its own aggregate.
LEMMA AggregateOne ==
    ASSUME NEW s \in Sources, NEW c \in Weights
    PROVE  LET one == [NoRows EXCEPT ![s] = [conf |-> c, scope |-> NoScope]]
           IN  Aggregate(one) = c /\ Support(one) = {s}
  <1>1. /\ NoRows \in TripleRows /\ NoRows[s] = NoRow /\ Support(NoRows) = {}
        /\ IsFiniteSet(Support(NoRows))
    <2>1. NoRows \in TripleRows /\ NoRows[s] = NoRow /\ Support(NoRows) = {}
      BY DEF NoRows, TripleRows, Support
    <2> QED BY <2>1, FS_EmptySet
  <1>2. Aggregate(NoRows) = 0
    BY <1>1, SumOfNone DEF Aggregate, SumFunction
  <1>3. Certain # 0
    BY <1>1, <1>2, CertainAssumption
  <1>4. Plus(0, c) = c
    BY <1>3, StoreAssumption DEF Plus
  <1> QED BY <1>1, <1>2, <1>4, AggregateMore

\* What a list comprehension that keeps all of t's candidates says of t.
LEMMA SaysPicked ==
    ASSUME NEW seq \in Seq(Edge), NEW in \in SUBSET DOMAIN seq, NEW t,
           \A i \in DOMAIN seq : seq[i].triple = t => i \in in,
           NEW rs
    PROVE  Says(rs, Picked(seq, in), Len(Picked(seq, in)), t) <=> Says(rs, seq, Len(seq), t)
  <1> DEFINE out == Picked(seq, in)
             Hit(e, s) == e.triple = t /\ e.source = s
             Row1(e) == [conf |-> e.conf, scope |-> NoScope]
  <1>1. /\ DOMAIN seq = 1 .. Len(seq) /\ Len(seq) \in Nat
        /\ DOMAIN out = 1 .. Len(out) /\ Len(out) \in Nat
        /\ \A i \in in : Rank(in, i) \in DOMAIN out /\ out[Rank(in, i)] = seq[i]
        /\ \A k \in DOMAIN out : \E i \in in : Rank(in, i) = k
        /\ \A i, j \in in : i < j => Rank(in, i) < Rank(in, j)
    <2>1. Picked(seq, in) \in Seq(Edge)
      BY PickedMembers
    <2> QED BY <2>1, PickedMembers
  <1> HIDE DEF out
  <1>2. \A s : \A i \in DOMAIN seq : Hit(seq[i], s) => i \in in
    OBVIOUS
  <1>3. \A i \in in : i \in Nat
    BY <1>1
  <1> DEFINE First(q, i, s) == Hit(q[i], s) /\ \A j \in 1 .. i - 1 : ~Hit(q[j], s)
  <1> HIDE DEF Hit, Row1
  <1>4. ASSUME NEW s
        PROVE  (\A i \in 1 .. Len(seq) : ~Hit(seq[i], s))
                  <=> (\A k \in 1 .. Len(out) : ~Hit(out[k], s))
    BY <1>1, <1>2
  <1>5. ASSUME NEW i \in in, NEW s
        PROVE  First(seq, i, s) <=> First(out, Rank(in, i), s)
    <2> DEFINE k == Rank(in, i)
    <2>1. k \in 1 .. Len(out) /\ out[k] = seq[i] /\ i \in 1 .. Len(seq)
      BY <1>1
    <2>2. ASSUME NEW j \in 1 .. i - 1, Hit(seq[j], s)
          PROVE  \E l \in 1 .. k - 1 : Hit(out[l], s)
      <3>1. j \in DOMAIN seq /\ j \in in /\ j < i
        BY <1>1, <1>2, <2>1, <2>2
      <3>2. /\ Rank(in, j) < k /\ Rank(in, j) \in 1 .. Len(out)
            /\ out[Rank(in, j)] = seq[j]
        BY <1>1, <3>1
      <3>3. Rank(in, j) \in 1 .. k - 1
        BY <1>1, <2>1, <3>2
      <3> QED BY <2>2, <3>2, <3>3
    <2>3. ASSUME NEW l \in 1 .. k - 1, Hit(out[l], s)
          PROVE  \E j \in 1 .. i - 1 : Hit(seq[j], s)
      <3>1. l \in DOMAIN out /\ l < k
        BY <1>1, <2>1
      <3>2. PICK j \in in : Rank(in, j) = l
        BY <1>1, <3>1
      <3>3. j \in Nat /\ i \in Nat /\ j # i /\ ~(i < j)
        <4>1. i < j => k < l
          BY <1>1, <3>2
        <4>2. l \in Nat /\ k \in Nat
          BY <1>1, <2>1, <3>1
        <4> QED BY <1>3, <3>1, <3>2, <4>1, <4>2
      <3>4. j \in 1 .. i - 1
        BY <1>1, <3>2, <3>3
      <3>5. out[l] = seq[j]
        BY <1>1, <3>2
      <3> QED BY <2>3, <3>4, <3>5
    <2> HIDE DEF k
    <2>4. (\A j \in 1 .. i - 1 : ~Hit(seq[j], s)) <=> (\A l \in 1 .. k - 1 : ~Hit(out[l], s))
      BY <2>2, <2>3
    <2> QED BY <2>1, <2>4 DEF k
  <1> DEFINE Both(q, i, s) == First(q, i, s) /\ rs[s] = Row1(q[i])
  <1>6. ASSUME NEW s
        PROVE  (\E i \in 1 .. Len(seq) : Both(seq, i, s))
                  <=> (\E k \in 1 .. Len(out) : Both(out, k, s))
    <2>1. ASSUME NEW i \in 1 .. Len(seq), Both(seq, i, s)
          PROVE  \E k \in 1 .. Len(out) : Both(out, k, s)
      <3>1. i \in in
        BY <1>1, <1>2, <2>1
      <3>2. First(out, Rank(in, i), s)
        <4> HIDE DEF First
        <4> QED BY <1>5, <2>1, <3>1
      <3> QED BY <1>1, <2>1, <3>1, <3>2
    <2>2. ASSUME NEW k \in 1 .. Len(out), Both(out, k, s)
          PROVE  \E i \in 1 .. Len(seq) : Both(seq, i, s)
      <3>1. PICK i \in in : Rank(in, i) = k
        BY <1>1
      <3>2. First(seq, i, s)
        <4> HIDE DEF First
        <4> QED BY <1>5, <2>2, <3>1
      <3> QED BY <1>1, <2>2, <3>1, <3>2
    <2> QED BY <2>1, <2>2
  <1>7. \A q : Says(rs, q, Len(q), t) <=>
           /\ rs \in TripleRows /\ IsFiniteSet(Support(rs))
           /\ \A s \in Sources :
                 IF rs[s] = NoRow THEN \A i \in 1 .. Len(q) : ~Hit(q[i], s)
                 ELSE \E i \in 1 .. Len(q) : Both(q, i, s)
    BY DEF Says, Hit, Row1
  <1> HIDE DEF Both
  <1> QED BY <1>4, <1>6, <1>7 DEF out

\* A confidence is what the candidates of a triple aggregate to.
Quoted(batch, t, conf) ==
    \E rs : Says(rs, batch, Len(batch), t) /\ conf = Aggregate(rs)

\* The edges reduce_edges has after each of mine.
Merged(mine, m) ==
    CHOOSE upTo : upTo = [n \in 1 .. m |->
        IF n = 1 THEN [conf |-> mine[1].conf, source |-> mine[1].source,
                       seen |-> {mine[1].source}]
        ELSE Merge(upTo[n - 1], mine[n])]

LEMMA MergedRuns ==
    ASSUME NEW mine, NEW m \in Nat, m >= 1
    PROVE  LET upTo == Merged(mine, m)
           IN  /\ upTo[1] = [conf |-> mine[1].conf, source |-> mine[1].source,
                             seen |-> {mine[1].source}]
               /\ \A n \in 2 .. m : upTo[n] = Merge(upTo[n - 1], mine[n])
  <1> DEFINE first == [conf |-> mine[1].conf, source |-> mine[1].source,
                       seen |-> {mine[1].source}]
             Next1(f, n) == IF n = 1 THEN first ELSE Merge(f[n - 1], mine[n])
             T == {k \in Nat : \E f : f = [n \in 1 .. k |-> Next1(f, n)]}
  <1> HIDE DEF first
  <1>1. 0 \in T
    <2> DEFINE f == [n \in 1 .. 0 |-> first]
    <2>1. f = [n \in 1 .. 0 |-> Next1(f, n)]
      OBVIOUS
    <2> QED BY <2>1
  <1>2. ASSUME NEW k \in T PROVE k + 1 \in T
    <2>1. PICK f : f = [n \in 1 .. k |-> Next1(f, n)]
      OBVIOUS
    <2> DEFINE g == [n \in 1 .. k + 1 |->
                        IF n = 1 THEN first
                        ELSE IF n = k + 1 THEN Merge(f[k], mine[n]) ELSE f[n]]
    <2>2. \A n \in 1 .. k + 1 : g[n] = Next1(g, n)
      <3>1. \A n \in 1 .. k : f[n] = Next1(f, n)
        BY <2>1
      <3>2. \A n \in 1 .. k : g[n] = f[n]
        BY <3>1
      <3>3. k # 0 => g[k + 1] = Merge(g[k], mine[k + 1])
        BY <3>2
      <3>4. g[1] = first
        OBVIOUS
      <3> HIDE DEF g
      <3>5. ASSUME NEW n \in 1 .. k + 1 PROVE g[n] = Next1(g, n)
        <4>1. CASE n = 1
          BY <3>4, <4>1
        <4>2. CASE n # 1 /\ n = k + 1
          BY <3>3, <4>2
        <4>3. CASE n # 1 /\ n # k + 1
          BY <3>1, <3>2, <4>3
        <4> QED BY <4>1, <4>2, <4>3
      <3> QED BY <3>5
    <2>3. g = [n \in 1 .. k + 1 |-> Next1(g, n)]
      BY <2>2
    <2> HIDE DEF g
    <2> QED BY <2>3
  <1>3. m \in T
    <2> HIDE DEF T
    <2>1. T \in SUBSET Nat
      BY DEF T
    <2> QED BY <1>1, <1>2, <2>1, Induct
  <1>4. Merged(mine, m) = [n \in 1 .. m |-> Next1(Merged(mine, m), n)]
    BY <1>3 DEF Merged, first
  <1> DEFINE upTo == Merged(mine, m)
  <1> HIDE DEF upTo
  <1>5. upTo = [n \in 1 .. m |-> Next1(upTo, n)]
    BY <1>4 DEF upTo
  <1>6. upTo[1] = first /\ \A n \in 2 .. m : upTo[n] = Merge(upTo[n - 1], mine[n])
    BY <1>5
  <1> QED BY <1>6 DEF upTo, first

\* The delta's confidence, merged candidate by candidate, is the ledger's,
\* aggregated from the rows the candidates leave.
LEMMA ReducedIsQuoted ==
    ASSUME NEW batch \in Seq(Edge), NEW t \in TriplesOf(batch)
    PROVE  Quoted(batch, t, Reduced(batch, t).conf)
  <1> DEFINE in == {i \in DOMAIN batch : batch[i].triple = t}
             mine == Picked(batch, in)
             m == Len(mine)
             upTo == Merged(mine, m)
             Good(n) == \E rs : /\ Says(rs, mine, n, t)
                                /\ upTo[n].conf = Aggregate(rs) /\ upTo[n].seen = Support(rs)
             T == {n \in Nat : n + 1 <= m => Good(n + 1)}
  <1>1. /\ mine \in Seq(Edge) /\ m \in Nat /\ DOMAIN mine = 1 .. m
        /\ \A k \in 1 .. m : mine[k] \in Edge /\ mine[k].triple = t
        /\ m >= 1
    <2>1. in \in SUBSET DOMAIN batch /\ in # {}
      BY DEF TriplesOf
    <2>2. \A i \in in : batch[i].triple = t
      OBVIOUS
    <2> HIDE DEF in
    <2>3. /\ mine \in Seq(Edge) /\ m = Cardinality(in) /\ m \in Nat
          /\ \A i \in in : Rank(in, i) \in DOMAIN mine /\ mine[Rank(in, i)] = batch[i]
          /\ \A k \in DOMAIN mine : \E i \in in : Rank(in, i) = k
      BY <2>1, PickedMembers
    <2> HIDE DEF mine
    <2>4. DOMAIN mine = 1 .. m /\ \A k \in 1 .. m : mine[k] \in Edge
      BY <2>3
    <2>5. \A k \in 1 .. m : mine[k].triple = t
      BY <2>2, <2>3, <2>4
    <2>6. m >= 1
      BY <2>1, <2>3, <2>4
    <2> QED BY <2>3, <2>4, <2>5, <2>6
  <1>2. Reduced(batch, t) = upTo[m]
    BY DEF Reduced, Merged
  <1> HIDE DEF mine, m
  <1>3. /\ upTo[1] = [conf |-> mine[1].conf, source |-> mine[1].source,
                      seen |-> {mine[1].source}]
        /\ \A n \in 2 .. m : upTo[n] = Merge(upTo[n - 1], mine[n])
    BY <1>1, MergedRuns
  <1> HIDE DEF upTo
  <1>4. 0 \in T
    <2> DEFINE e == mine[1]
               rs == [NoRows EXCEPT ![e.source] = [conf |-> e.conf, scope |-> NoScope]]
    <2>1. e.triple = t /\ e.source \in Sources /\ e.conf \in Weights
      <3>1. e \in Edge /\ e.triple = t
        BY <1>1
      <3> QED BY <3>1 DEF Edge
    <2>2. NoRows[e.source] = NoRow
      BY <2>1 DEF NoRows
    <2>3. Says(rs, mine, 1, t)
      <3>1. 0 + 1 \in DOMAIN mine /\ Says(NoRows, mine, 0, t) /\ 0 + 1 = 1
        BY <1>1, SaysNothing
      <3>2. Says(IF mine[0 + 1].triple = t /\ NoRows[mine[0 + 1].source] = NoRow
                 THEN [NoRows EXCEPT ![mine[0 + 1].source] =
                         [conf |-> mine[0 + 1].conf, scope |-> NoScope]]
                 ELSE NoRows, mine, 0 + 1, t)
        BY <1>1, <3>1, SaysMore
      <3> QED BY <2>1, <2>2, <3>1, <3>2
    <2>4. Aggregate(rs) = e.conf /\ Support(rs) = {e.source}
      BY <2>1, AggregateOne
    <2>5. upTo[1].conf = e.conf /\ upTo[1].seen = {e.source}
      BY <1>3
    <2> HIDE DEF rs, e
    <2>6. Good(1)
      BY <2>3, <2>4, <2>5
    <2> HIDE DEF Good
    <2> QED BY <2>6
  <1>5. ASSUME NEW n \in T PROVE n + 1 \in T
    <2>1. SUFFICES ASSUME n + 2 <= m PROVE Good(n + 2)
      <3>1. n \in Nat /\ (n + 1) + 1 = n + 2
        OBVIOUS
      <3> HIDE DEF Good
      <3> QED BY <3>1
    <2> DEFINE k == n + 1
               e == mine[k + 1]
               prior == upTo[k]
    <2>2. n \in Nat /\ k \in Nat /\ k + 1 \in 2 .. m /\ k + 1 \in 1 .. m /\ k + 1 = n + 2
          /\ (k + 1) - 1 = k /\ n + 1 <= m
      BY <1>1, <2>1
    <2>3. Good(k)
      <3> HIDE DEF Good
      <3> QED BY <2>2
    <2>4. PICK rs : Says(rs, mine, k, t) /\ prior.conf = Aggregate(rs) /\ prior.seen = Support(rs)
      BY <2>3
    <2>5. e.triple = t /\ e.source \in Sources /\ e.conf \in Weights
      <3>1. e \in Edge /\ e.triple = t
        BY <1>1, <2>2
      <3> QED BY <3>1 DEF Edge
    <2> DEFINE new == [rs EXCEPT ![e.source] = [conf |-> e.conf, scope |-> NoScope]]
    <2>6. Says(IF e.triple = t /\ rs[e.source] = NoRow THEN new ELSE rs, mine, k + 1, t)
      BY <1>1, <2>2, <2>4, SaysMore
    <2>7. upTo[k + 1] = Merge(prior, e)
      BY <1>3, <2>2
    <2>8. rs \in TripleRows /\ IsFiniteSet(Support(rs))
      BY <2>4 DEF Says
    <2>9. e.source \in Support(rs) <=> rs[e.source] # NoRow
      BY <2>5, <2>8 DEF Support, TripleRows
    <2> HIDE DEF e, k, prior
    <2>10. CASE rs[e.source] = NoRow
      <3>1. /\ Aggregate(new) = Plus(Aggregate(rs), e.conf)
            /\ Support(new) = Support(rs) \cup {e.source}
        <4> DEFINE s == e.source
                   c == e.conf
        <4>1. s \in Sources /\ c \in Weights /\ rs[s] = NoRow
          BY <2>5, <2>10
        <4> HIDE DEF s, c
        <4>2. LET more == [rs EXCEPT ![s] = [conf |-> c, scope |-> NoScope]]
              IN  /\ Aggregate(more) = Plus(Aggregate(rs), c)
                  /\ Support(more) = Support(rs) \cup {s}
          BY <2>8, <4>1, AggregateMore
        <4> QED BY <4>2 DEF s, c
      <3>2. Says(new, mine, k + 1, t)
        BY <2>5, <2>6, <2>10
      <3> HIDE DEF new
      <3>3. upTo[k + 1].conf = Aggregate(new) /\ upTo[k + 1].seen = Support(new)
        BY <2>4, <2>7, <2>9, <2>10, <3>1 DEF Merge
      <3> QED BY <2>2, <3>2, <3>3
    <2>11. CASE rs[e.source] # NoRow
      <3>1. Says(rs, mine, k + 1, t)
        BY <2>6, <2>11
      <3>2. upTo[k + 1].conf = Aggregate(rs) /\ upTo[k + 1].seen = Support(rs)
        BY <2>4, <2>7, <2>9, <2>11 DEF Merge
      <3> QED BY <2>2, <3>1, <3>2
    <2> QED BY <2>10, <2>11
  <1>6. T = Nat
    <2> HIDE DEF Good
    <2>1. T \in SUBSET Nat
      OBVIOUS
    <2> HIDE DEF T
    <2> QED BY <1>4, <1>5, <2>1, Induct
  <1>7. Good(m)
    <2> HIDE DEF Good
    <2>1. m - 1 \in Nat /\ (m - 1) + 1 = m /\ m <= m
      BY <1>1
    <2>2. m - 1 \in T
      <3> HIDE DEF T
      <3> QED BY <1>6, <2>1
    <2> QED BY <2>1, <2>2
  <1>8. PICK rs : Says(rs, mine, m, t) /\ upTo[m].conf = Aggregate(rs)
    BY <1>7
  <1>9. Says(rs, batch, Len(batch), t)
    <2>1. in \in SUBSET DOMAIN batch /\ \A i \in DOMAIN batch : batch[i].triple = t => i \in in
      OBVIOUS
    <2>2. Says(rs, Picked(batch, in), Len(Picked(batch, in)), t)
      BY <1>8 DEF mine, m
    <2> HIDE DEF in
    <2> QED BY <2>1, <2>2, SaysPicked
  <1> QED BY <1>2, <1>8, <1>9 DEF Quoted

\* An edit leaves its triple one candidate, at the confidence typed in, and
\* what the other triples say.
LEMMA PropagateQuotes ==
    ASSUME NEW batch \in Seq(Edge), NEW t \in TriplesOf(batch), NEW conf \in Weights
    PROVE  /\ Quoted(Propagate(batch, t, conf), t, conf)
           /\ \A u, c : u # t /\ Quoted(batch, u, c) => Quoted(Propagate(batch, t, conf), u, c)
  <1> DEFINE IsFirst(i) == /\ batch[i].triple = t
                           /\ \A j \in 1 .. i - 1 : batch[j].triple # t
             first == CHOOSE i \in DOMAIN batch : IsFirst(i)
             kept  == {i \in DOMAIN batch : i = first \/ batch[i].triple # t}
             edited == [batch EXCEPT ![first].conf = conf]
             out == Picked(edited, kept)
  <1>1. first \in DOMAIN batch /\ batch[first].triple = t
    BY FirstSaid
  <1>2. Propagate(batch, t, conf) = out
    BY DEF Propagate
  <1> HIDE DEF first
  <1>3. /\ edited \in Seq(Edge) /\ DOMAIN edited = DOMAIN batch /\ Len(edited) = Len(batch)
        /\ edited[first].conf = conf
        /\ \A i \in DOMAIN batch : /\ edited[i].triple = batch[i].triple
                                   /\ edited[i].source = batch[i].source
                                   /\ i # first => edited[i] = batch[i]
    BY <1>1, CandidateEdited
  <1> HIDE DEF edited
  <1>4. kept \in SUBSET DOMAIN edited
    BY <1>3
  <1>5. /\ out \in Seq(Edge) /\ DOMAIN out = 1 .. Len(out) /\ Len(out) \in Nat
        /\ \A i \in kept : Rank(kept, i) \in DOMAIN out /\ out[Rank(kept, i)] = edited[i]
        /\ \A k \in DOMAIN out : \E i \in kept : Rank(kept, i) = k
    <2> HIDE DEF kept
    <2>1. out \in Seq(Edge)
      BY <1>3, <1>4, PickedMembers
    <2> QED BY <1>3, <1>4, <2>1, PickedMembers
  <1>6. first \in kept /\ \A i \in kept : edited[i].triple = t => i = first
    BY <1>1, <1>3
  <1>7. Quoted(out, t, conf)
    <2> DEFINE k == Rank(kept, first)
               s == edited[first].source
               rs == [NoRows EXCEPT ![s] = [conf |-> conf, scope |-> NoScope]]
    <2>1. /\ k \in 1 .. Len(out) /\ out[k] = edited[first]
          /\ \A l \in 1 .. Len(out) : out[l].triple = t => l = k
      <3> HIDE DEF kept, out
      <3> QED BY <1>5, <1>6
    <2>2. edited[first].triple = t /\ s \in Sources /\ edited[first].conf = conf
      <3>1. edited[first] \in Edge
        BY <1>1, <1>3
      <3> QED BY <1>1, <1>3, <3>1 DEF Edge
    <2>3. Aggregate(rs) = conf /\ Support(rs) = {s}
      <3> HIDE DEF s
      <3> QED BY <2>2, AggregateOne
    <2>4. /\ rs \in TripleRows /\ rs[s] = [conf |-> conf, scope |-> NoScope]
          /\ \A x \in Sources : rs[x] = NoRow <=> x # s
      <3>1. [conf |-> conf, scope |-> NoScope] \in Row
        BY StoreAssumption DEF Row
      <3> HIDE DEF s
      <3> QED BY <2>2, <3>1, SentinelAssumption DEF NoRows, TripleRows
    <2>5. IsFiniteSet(Support(rs))
      BY <2>3, FS_Singleton
    <2> HIDE DEF rs, s, out, k
    <2>6. Says(rs, out, Len(out), t)
      BY <1>5, <2>1, <2>2, <2>4, <2>5 DEF Says, s
    <2> QED BY <2>3, <2>6 DEF Quoted
  <1>8. ASSUME NEW u, NEW c, u # t, Quoted(batch, u, c) PROVE Quoted(out, u, c)
    <2>1. PICK rs : Says(rs, batch, Len(batch), u) /\ c = Aggregate(rs)
      BY <1>8 DEF Quoted
    <2>2. \A i \in 1 .. Len(batch) :
             /\ edited[i].triple = batch[i].triple /\ edited[i].source = batch[i].source
             /\ batch[i].triple = u => edited[i] = batch[i]
      BY <1>1, <1>3, <1>8
    <2>3. Says(rs, edited, Len(edited), u)
      <3> DEFINE m == Len(batch)
      <3>1. m \in Nat /\ Len(edited) = m /\ \A i \in 1 .. m : \A j \in 1 .. i - 1 : j \in 1 .. m
        BY <1>3
      <3> HIDE DEF m
      <3>2. \A s : \A i \in 1 .. m :
               /\ (edited[i].triple = u /\ edited[i].source = s) <=>
                     (batch[i].triple = u /\ batch[i].source = s)
               /\ batch[i].triple = u => edited[i].conf = batch[i].conf
        BY <2>2 DEF m
      <3>3. ASSUME NEW s \in Sources, rs[s] # NoRow
            PROVE  \E i \in 1 .. m :
                      /\ edited[i].triple = u /\ edited[i].source = s
                      /\ rs[s] = [conf |-> edited[i].conf, scope |-> NoScope]
                      /\ \A j \in 1 .. i - 1 : ~(edited[j].triple = u /\ edited[j].source = s)
        <4>1. PICK i \in 1 .. m :
                 /\ batch[i].triple = u /\ batch[i].source = s
                 /\ rs[s] = [conf |-> batch[i].conf, scope |-> NoScope]
                 /\ \A j \in 1 .. i - 1 : ~(batch[j].triple = u /\ batch[j].source = s)
          BY <2>1, <3>3 DEF Says, m
        <4>2. \A j \in 1 .. i - 1 : ~(edited[j].triple = u /\ edited[j].source = s)
          BY <3>1, <3>2, <4>1
        <4> QED BY <3>2, <4>1, <4>2
      <3>4. ASSUME NEW s \in Sources, rs[s] = NoRow
            PROVE  \A i \in 1 .. m : ~(edited[i].triple = u /\ edited[i].source = s)
        BY <2>1, <3>2, <3>4 DEF Says, m
      <3> QED BY <2>1, <3>1, <3>3, <3>4 DEF Says
    <2>4. \A i \in DOMAIN edited : edited[i].triple = u => i \in kept
      BY <1>3, <1>8
    <2> HIDE DEF kept
    <2>5. Says(rs, out, Len(out), u)
      BY <1>3, <1>4, <2>3, <2>4, SaysPicked
    <2> QED BY <2>1, <2>5 DEF Quoted
  <1> HIDE DEF out
  <1> QED BY <1>2, <1>7, <1>8

-----------------------------------------------------------------------------
(* Sessions *)

\* The fields a delta and a session have, and what replacing some leaves.
DeltaShape(d) == d \in [new : {d.new}, changes : {d.changes}, candidates : {d.candidates}]

SessionShape(x) ==
    /\ x \in [phase : {x.phase}, delta : {x.delta}, extracted : {x.extracted},
              edits : {x.edits}, alone : {x.alone}]
    /\ DeltaShape(x.delta)

LEMMA SessionMade ==
    ASSUME NEW phase, NEW d, NEW extracted, NEW edits, NEW alone, DeltaShape(d)
    PROVE  SessionShape([phase |-> phase, delta |-> d, extracted |-> extracted,
                         edits |-> edits, alone |-> alone])
  BY DEF SessionShape

LEMMA DeltaMade ==
    ASSUME NEW new, NEW changes, NEW candidates
    PROVE  DeltaShape([new |-> new, changes |-> changes, candidates |-> candidates])
  BY DEF DeltaShape

LEMMA SessionEnded ==
    ASSUME NEW x, SessionShape(x), NEW phase
    PROVE  LET y == [x EXCEPT !.phase = phase]
           IN  /\ SessionShape(y) /\ y.phase = phase /\ y.delta = x.delta
               /\ y.extracted = x.extracted /\ y.alone = x.alone
  BY DEF SessionShape

LEMMA SessionDisturbed ==
    ASSUME NEW x, SessionShape(x)
    PROVE  LET y == [x EXCEPT !.alone = FALSE]
           IN  /\ SessionShape(y) /\ y.phase = x.phase /\ y.delta = x.delta
               /\ y.extracted = x.extracted /\ y.alone = FALSE
  BY DEF SessionShape

LEMMA DeltaEdited ==
    ASSUME NEW delta, DeltaShape(delta), NEW conf
    PROVE  LET t == Editable(delta)
           IN  /\ DeltaShape(Edited(delta, conf))
               /\ Edited(delta, conf).new = [delta.new EXCEPT ![t] = conf]
               /\ Edited(delta, conf).candidates = Propagate(delta.candidates, t, conf)
  BY DEF DeltaShape, Edited

\* What a review keeps of its batch, edits included: the triples.
Faithful(x) ==
    /\ x.extracted \in Seq(Edge) /\ x.delta.candidates \in Seq(Edge)
    /\ TriplesOf(x.delta.candidates) = TriplesOf(x.extracted)
    /\ DOMAIN x.delta.new \subseteq TriplesOf(x.delta.candidates)

\* The ledger has every candidate of the session, and the log its delta.
Landed(x, ledger) ==
    \A i \in DOMAIN x.delta.candidates :
        LET e == x.delta.candidates[i] IN ledger[Canon[e.triple]][e.source] # NoRow

Logged(x, log) == \E r \in log : r.delta = x.delta

Session(x, ledger, log) ==
    /\ SessionShape(x)
    /\ x.phase # "idle" => Faithful(x)
    /\ x.phase = "committed" => Landed(x, ledger)
    /\ x.phase = "rejected" => Logged(x, log)

RInv ==
    /\ LedgerTypes /\ ArrowsDerived
    /\ session = [p \in Procs |-> session[p]]
    /\ \A p \in Procs : Session(session[p], rows, rejected)

LEMMA RInvInit == Init => RInv
  <1> SUFFICES ASSUME Init PROVE RInv
    OBVIOUS
  <1>1. LedgerTypes /\ ArrowsDerived
    BY DEF Init, LedgerTypes, ArrowsDerived, Derived, Support, TripleRows, NoRows
  <1>2. Session(Idle, rows, rejected)
    <2>1. SessionShape(Idle)
      BY SessionMade, DeltaMade DEF Idle, NoDelta
    <2>2. Idle.phase = "idle"
      BY DEF Idle
    <2> QED BY <2>1, <2>2 DEF Session
  <1>3. session = [p \in Procs |-> session[p]] /\ \A p \in Procs : session[p] = Idle
    BY DEF Init
  <1> QED BY <1>1, <1>2, <1>3 DEF RInv

\* While rows and records only gather, a session keeps what it has, whether or
\* not another has committed meanwhile.
LEMMA OthersStay ==
    ASSUME NEW ledger, NEW ledger1, NEW log, NEW log1, log \subseteq log1,
           \A t \in Triples, s \in Sources : ledger[t][s] # NoRow => ledger1[t][s] # NoRow,
           NEW x, Session(x, ledger, log), NEW y, SessionShape(y),
           y.phase = x.phase, y.delta = x.delta, y.extracted = x.extracted
    PROVE  Session(y, ledger1, log1)
  <1>1. x.phase = "committed" => Landed(y, ledger1)
    <2> SUFFICES ASSUME x.phase = "committed" PROVE Landed(y, ledger1)
      OBVIOUS
    <2> DEFINE batch == x.delta.candidates
    <2>1. Landed(x, ledger) /\ batch \in Seq(Edge)
      BY DEF Session, Faithful
    <2>2. ASSUME NEW i \in DOMAIN batch
          PROVE  ledger1[Canon[batch[i].triple]][batch[i].source] # NoRow
      <3>1. batch[i] \in Edge
        BY <2>1
      <3>2. Canon[batch[i].triple] \in Triples /\ batch[i].source \in Sources
        BY <3>1, ReviewAssumption DEF Edge
      <3> QED BY <2>1, <3>2 DEF Landed
    <2> QED BY <2>2 DEF Landed
  <1>2. x.phase = "rejected" => Logged(y, log1)
    BY DEF Session, Logged
  <1>3. x.phase # "idle" => Faithful(y)
    BY DEF Session, Faithful
  <1> QED BY <1>1, <1>2, <1>3 DEF Session

LEMMA ExtractKeeps ==
    ASSUME RInv, NEW p \in Procs, Extract(p) PROVE RInv'
  <1>1. PICK batch \in Batches :
           session' = [session EXCEPT ![p] =
              [phase |-> "review", delta |-> Assemble(batch),
               extracted |-> batch, edits |-> 0, alone |-> TRUE]]
    BY DEF Extract
  <1> DEFINE x == [phase |-> "review", delta |-> Assemble(batch),
                   extracted |-> batch, edits |-> 0, alone |-> TRUE]
  <1>2. UNCHANGED <<rows, newest, arrows, rejected>>
    BY DEF Extract
  <1>3. batch \in Seq(Edge)
    BY ReviewAssumption DEF Batches
  <1>4. /\ Assemble(batch).candidates = batch
        /\ DOMAIN Assemble(batch).new \subseteq TriplesOf(batch)
        /\ DeltaShape(Assemble(batch))
    BY DeltaMade DEF Assemble
  <1>5. SessionShape(x) /\ Faithful(x) /\ x.phase = "review"
    BY <1>3, <1>4, SessionMade DEF Faithful
  <1>6. /\ session' = [q \in Procs |-> session'[q]] /\ session'[p] = x
        /\ \A q \in Procs : q # p => session'[q] = session[q]
    BY <1>1 DEF RInv
  <1> HIDE DEF x
  <1>7. ASSUME NEW q \in Procs PROVE Session(session'[q], rows', rejected')
    <2>1. Session(x, rows', rejected')
      BY <1>5 DEF Session
    <2>2. q # p => Session(session'[q], rows', rejected')
      BY <1>2, <1>6 DEF RInv
    <2> QED BY <1>6, <2>1, <2>2
  <1>8. LedgerTypes' /\ ArrowsDerived'
    BY <1>2 DEF RInv, LedgerTypes, ArrowsDerived
  <1> QED BY <1>6, <1>7, <1>8 DEF RInv

LEMMA EditKeeps ==
    ASSUME RInv, NEW p \in Procs, Edit(p) PROVE RInv'
  <1> DEFINE x == session[p]
  <1>1. PICK conf \in Weights :
           session' = [session EXCEPT ![p].delta = Edited(@, conf), ![p].edits = @ + 1]
    BY DEF Edit
  <1> DEFINE d == Edited(x.delta, conf)
             n == x.edits + 1
             y == [x EXCEPT !.delta = d, !.edits = n]
             t == Editable(x.delta)
  <1>2. UNCHANGED <<rows, newest, arrows, rejected>>
    BY DEF Edit
  <1>3. x.phase = "review" /\ DOMAIN x.delta.new # {} /\ SessionShape(x) /\ Faithful(x)
    BY DEF Edit, RInv, Session
  <1>4. t \in DOMAIN x.delta.new /\ t \in TriplesOf(x.delta.candidates)
    BY <1>3, EditableIsShown DEF Faithful
  <1>5. /\ Propagate(x.delta.candidates, t, conf) \in Seq(Edge)
        /\ TriplesOf(Propagate(x.delta.candidates, t, conf)) = TriplesOf(x.delta.candidates)
    BY <1>3, <1>4, PropagateKeepsTriples DEF Faithful
  <1>6. /\ DeltaShape(d) /\ DOMAIN d.new = DOMAIN x.delta.new
        /\ d.candidates = Propagate(x.delta.candidates, t, conf)
    <2>1. DeltaShape(x.delta)
      BY <1>3 DEF SessionShape
    <2> HIDE DEF x
    <2>2. /\ DeltaShape(d) /\ d.new = [x.delta.new EXCEPT ![t] = conf]
          /\ d.candidates = Propagate(x.delta.candidates, t, conf)
      BY <2>1, DeltaEdited
    <2> QED BY <2>2
  <1>7. /\ session' = [q \in Procs |-> session'[q]] /\ session'[p] = y
        /\ \A q \in Procs : q # p => session'[q] = session[q]
    BY <1>1 DEF RInv
  <1> HIDE DEF x, d, n
  <1>8. /\ SessionShape(y) /\ y.phase = x.phase /\ y.delta = d /\ y.extracted = x.extracted
    <2>1. SessionShape(x) /\ DeltaShape(d)
      BY <1>3, <1>6
    <2> QED BY <2>1 DEF SessionShape
  <1> HIDE DEF y, t
  <1>9. ASSUME NEW q \in Procs PROVE Session(session'[q], rows', rejected')
    <2>1. Session(y, rows', rejected')
      BY <1>3, <1>5, <1>6, <1>8 DEF Session, Faithful
    <2>2. q # p => Session(session'[q], rows', rejected')
      BY <1>2, <1>7 DEF RInv
    <2> QED BY <1>7, <2>1, <2>2
  <1>10. LedgerTypes' /\ ArrowsDerived'
    BY <1>2 DEF RInv, LedgerTypes, ArrowsDerived
  <1> QED BY <1>7, <1>9, <1>10 DEF RInv

LEMMA RejectKeeps ==
    ASSUME RInv, NEW p \in Procs, Reject(p) PROVE RInv'
  <1> DEFINE x == session[p]
             y == [x EXCEPT !.phase = "rejected"]
  <1>1. /\ session' = [session EXCEPT ![p].phase = "rejected"]
        /\ rejected' = rejected \cup Records(x.delta) /\ x.phase = "review"
        /\ UNCHANGED <<rows, newest, arrows>>
    BY DEF Reject
  <1>2. SessionShape(x) /\ Faithful(x)
    BY <1>1 DEF RInv, Session
  <1>3. /\ session' = [q \in Procs |-> session'[q]] /\ session'[p] = y
        /\ \A q \in Procs : q # p => session'[q] = session[q]
    BY <1>1 DEF RInv
  <1>4. \E r \in Records(x.delta) : r.delta = x.delta
    <2>1. PICK t : t \in IF DOMAIN x.delta.new = {} THEN {NoArrow} ELSE DOMAIN x.delta.new
      OBVIOUS
    <2>2. [edge |-> t, delta |-> x.delta] \in Records(x.delta)
      BY <2>1 DEF Records
    <2> QED BY <2>2
  <1> HIDE DEF x
  <1>5. /\ SessionShape(y) /\ y.phase = "rejected" /\ y.delta = x.delta
        /\ y.extracted = x.extracted
    BY <1>2, SessionEnded
  <1> HIDE DEF y
  <1>6. ASSUME NEW q \in Procs PROVE Session(session'[q], rows', rejected')
    <2>1. Session(y, rows', rejected')
      BY <1>1, <1>2, <1>4, <1>5 DEF Session, Faithful, Logged
    <2>2. CASE q # p
      <3>1. session'[q] = session[q] /\ Session(session[q], rows, rejected)
        BY <1>3, <2>2 DEF RInv
      <3>2. SessionShape(session[q])
        BY <3>1 DEF Session
      <3> QED BY <1>1, <3>1, <3>2, OthersStay
    <2> QED BY <1>3, <2>1, <2>2
  <1>7. LedgerTypes' /\ ArrowsDerived'
    BY <1>1 DEF RInv, LedgerTypes, ArrowsDerived
  <1> QED BY <1>3, <1>6, <1>7 DEF RInv

LEMMA ApproveKeeps ==
    ASSUME RInv, NEW p \in Procs, Approve(p) PROVE RInv'
  <1> DEFINE x == session[p]
             y == [x EXCEPT !.phase = "committed"]
  <1>1. /\ Commit(x.delta.candidates) /\ x.phase = "review" /\ rejected' = rejected
        /\ session' = [q \in Procs |->
              IF q = p THEN y ELSE [session[q] EXCEPT !.alone = FALSE]]
    BY DEF Approve
  <1>2. SessionShape(x) /\ Faithful(x)
    BY <1>1 DEF RInv, Session
  <1>3. /\ session' = [q \in Procs |-> session'[q]] /\ session'[p] = y
        /\ \A q \in Procs : q # p => session'[q] = [session[q] EXCEPT !.alone = FALSE]
    BY <1>1
  <1> HIDE DEF x
  <1>4. /\ SessionShape(y) /\ y.phase = "committed" /\ y.delta = x.delta
        /\ y.extracted = x.extracted
    BY <1>2, SessionEnded
  <1> HIDE DEF y
  <1>5. /\ LedgerTypes' /\ ArrowsDerived' /\ Landed(x, rows')
        /\ \A t \in Triples, s \in Sources : rows[t][s] # NoRow => rows'[t][s] # NoRow
    BY <1>1, <1>2, CommitWrites DEF RInv, Faithful, Landed
  <1>6. ASSUME NEW q \in Procs PROVE Session(session'[q], rows', rejected')
    <2>1. Session(y, rows', rejected')
      BY <1>2, <1>4, <1>5 DEF Session, Faithful, Landed
    <2>2. CASE q # p
      <3>1. /\ session'[q] = [session[q] EXCEPT !.alone = FALSE]
            /\ Session(session[q], rows, rejected)
        BY <1>3, <2>2 DEF RInv
      <3>2. /\ SessionShape(session'[q]) /\ session'[q].phase = session[q].phase
            /\ session'[q].delta = session[q].delta
            /\ session'[q].extracted = session[q].extracted
        BY <3>1, SessionDisturbed DEF Session
      <3> DEFINE z == session'[q]
                 old == session[q]
      <3>3. rejected \subseteq rejected'
        BY <1>1
      <3> HIDE DEF z, old
      <3>4. /\ Session(old, rows, rejected) /\ SessionShape(z) /\ z.phase = old.phase
            /\ z.delta = old.delta /\ z.extracted = old.extracted
        BY <3>1, <3>2 DEF z, old
      <3>5. Session(z, rows', rejected')
        BY <1>5, <3>3, <3>4, OthersStay
      <3> QED BY <3>5 DEF z
    <2> QED BY <1>3, <2>1, <2>2
  <1> QED BY <1>3, <1>5, <1>6 DEF RInv

LEMMA RInvStep == RInv /\ [Next]_vars => RInv'
  <1> SUFFICES ASSUME RInv, [Next]_vars PROVE RInv'
    OBVIOUS
  <1>1. CASE UNCHANGED vars
    BY <1>1 DEF vars, RInv, LedgerTypes, ArrowsDerived
  <1>2. CASE Next
    BY <1>2, ExtractKeeps, EditKeeps, RejectKeeps, ApproveKeeps DEF Next
  <1> QED BY <1>1, <1>2

\* What was extracted and approved is in the graph: every candidate has its
\* row, every triple its arrow, and every arrow says what its rows say,
\* however the reviews of several ingests interleave.
THEOREM ApprovalLosesNothing == Spec => []ApprovedIsRecorded
  <1>1. RInv => ApprovedIsRecorded
    <2> SUFFICES ASSUME RInv PROVE ApprovedIsRecorded
      OBVIOUS
    <2>1. ASSUME NEW p \in Procs, session[p].phase = "committed",
                 NEW t \in TriplesOf(session[p].extracted)
          PROVE  arrows[Canon[t]] # NoArrow
      <3> DEFINE batch == session[p].delta.candidates
      <3>1. Landed(session[p], rows) /\ Faithful(session[p])
        BY <2>1 DEF RInv, Session
      <3>2. PICK i \in DOMAIN batch : batch[i].triple = t
        BY <3>1 DEF Faithful, TriplesOf
      <3>3. batch[i] \in Edge
        BY <3>1 DEF Faithful
      <3>4. t \in Triples /\ Canon[t] \in Triples /\ batch[i].source \in Sources
        BY <3>2, <3>3, ReviewAssumption DEF Edge
      <3>5. rows[Canon[t]][batch[i].source] # NoRow
        BY <3>1, <3>2 DEF Landed
      <3>6. batch[i].source \in Support(rows[Canon[t]])
        BY <3>4, <3>5 DEF Support, RInv, LedgerTypes, TripleRows
      <3> QED BY <3>4, <3>6 DEF RInv, ArrowsDerived, Derived
    <2>2. ASSUME NEW p \in Procs, session[p].phase = "committed"
          PROVE  Landed(session[p], rows)
      BY <2>2 DEF RInv, Session
    <2> QED BY <2>1, <2>2 DEF ApprovedIsRecorded, RInv, ArrowsDerived, Landed
  <1> QED BY <1>1, RInvInit, RInvStep, PTL DEF Spec

\* What was extracted and rejected is in the log: the record of a review
\* holds every triple of its batch, whatever was edited before.
THEOREM RejectionLosesNothing == Spec => []RejectedTriplesLogged
  <1>1. RInv => RejectedTriplesLogged
    <2> SUFFICES ASSUME RInv, NEW p \in Procs, session[p].phase = "rejected",
                        NEW t \in TriplesOf(session[p].extracted)
                 PROVE  \E r \in rejected : t \in TriplesOf(r.delta.candidates)
      BY DEF RejectedTriplesLogged
    <2>1. Logged(session[p], rejected) /\ Faithful(session[p])
      BY DEF RInv, Session
    <2> QED BY <2>1 DEF Logged, Faithful
  <1> QED BY <1>1, RInvInit, RInvStep, PTL DEF Spec

-----------------------------------------------------------------------------
(* What the prompt shows *)

\* Only t itself is t in the ledger, of what the document says.
Sole(x, t) == {u \in TriplesOf(x.extracted) : Canon[u] = t} = {t}

\* Every new edge on show has the confidence its candidates aggregate to; as
\* long as no other ingest commits, its arrow is absent until it is approved,
\* and has that confidence from then on.
Shows(x, edges) ==
    x.phase # "idle" => \A t \in DOMAIN x.delta.new :
        /\ Quoted(x.delta.candidates, t, x.delta.new[t])
        /\ x.alone /\ x.phase # "committed" => edges[t] = NoArrow
        /\ x.alone /\ x.phase = "committed" /\ Sole(x, t) =>
              edges[t] # NoArrow /\ edges[t].conf = x.delta.new[t]

QInv == RInv /\ \A p \in Procs : Shows(session[p], arrows)

LEMMA QInvInit == Init => QInv
  <1>1. ASSUME Init, NEW p \in Procs PROVE session[p].phase = "idle"
    BY <1>1 DEF Init, Idle
  <1> QED BY <1>1, RInvInit DEF QInv, Shows

LEMMA ExtractShows ==
    ASSUME QInv, NEW p \in Procs, Extract(p), NEW q \in Procs
    PROVE  Shows(session'[q], arrows')
  <1>1. PICK batch \in Batches :
           session' = [session EXCEPT ![p] =
              [phase |-> "review", delta |-> Assemble(batch),
               extracted |-> batch, edits |-> 0, alone |-> TRUE]]
    BY DEF Extract
  <1> DEFINE x == [phase |-> "review", delta |-> Assemble(batch),
                   extracted |-> batch, edits |-> 0, alone |-> TRUE]
             d == Assemble(batch)
  <1>2. batch \in Seq(Edge)
    BY ReviewAssumption DEF Batches
  <1>3. /\ DOMAIN d.new = {t \in TriplesOf(batch) : arrows[t] = NoArrow}
        /\ d.candidates = batch
        /\ \A t \in DOMAIN d.new : d.new[t] = Reduced(batch, t).conf
    BY DEF Assemble
  <1>4. \A t \in DOMAIN d.new : Quoted(d.candidates, t, d.new[t]) /\ arrows[t] = NoArrow
    BY <1>2, <1>3, ReducedIsQuoted
  <1> HIDE DEF d
  <1>5. x.delta = d /\ x.phase = "review" /\ arrows' = arrows
    BY DEF Extract, d
  <1>6. session'[q] = IF q = p THEN x ELSE session[q]
    BY <1>1 DEF QInv, RInv
  <1> HIDE DEF x
  <1>7. Shows(x, arrows)
    BY <1>4, <1>5 DEF Shows
  <1> QED BY <1>5, <1>6, <1>7 DEF QInv

LEMMA EditShows ==
    ASSUME QInv, NEW p \in Procs, Edit(p), NEW q \in Procs
    PROVE  Shows(session'[q], arrows')
  <1> DEFINE x == session[p]
  <1>1. PICK conf \in Weights :
           session' = [session EXCEPT ![p].delta = Edited(@, conf), ![p].edits = @ + 1]
    BY DEF Edit
  <1> DEFINE d == Edited(x.delta, conf)
             n == x.edits + 1
             y == [x EXCEPT !.delta = d, !.edits = n]
             t == Editable(x.delta)
             old == x.delta.candidates
  <1>2. x.phase = "review" /\ DOMAIN x.delta.new # {} /\ SessionShape(x) /\ Faithful(x)
        /\ Shows(x, arrows)
    BY DEF Edit, QInv, RInv, Session
  <1>3. t \in DOMAIN x.delta.new /\ t \in TriplesOf(old) /\ old \in Seq(Edge)
    BY <1>2, EditableIsShown DEF Faithful
  <1>4. /\ Quoted(Propagate(old, t, conf), t, conf)
        /\ \A u, c : u # t /\ Quoted(old, u, c) => Quoted(Propagate(old, t, conf), u, c)
    BY <1>3, PropagateQuotes
  <1>5. arrows' = arrows
    BY DEF Edit
  <1>6. session'[q] = IF q = p THEN y ELSE session[q]
    BY <1>1 DEF QInv, RInv
  <1>7. DeltaShape(x.delta)
    BY <1>2 DEF SessionShape
  <1> HIDE DEF x
  <1>8. /\ DeltaShape(d) /\ d.new = [x.delta.new EXCEPT ![t] = conf]
        /\ d.candidates = Propagate(old, t, conf)
    BY <1>7, DeltaEdited
  <1> HIDE DEF d, n
  <1>9. y.phase = "review" /\ y.delta = d /\ y.alone = x.alone
    <2>1. SessionShape(x) /\ x.phase = "review"
      BY <1>2
    <2> QED BY <2>1 DEF SessionShape
  <1> HIDE DEF y, t, old
  <1>10. DOMAIN d.new = DOMAIN x.delta.new /\ \A u \in DOMAIN d.new :
            d.new[u] = IF u = t THEN conf ELSE x.delta.new[u]
    BY <1>8
  <1>11. \A u \in DOMAIN d.new : Quoted(d.candidates, u, d.new[u])
    BY <1>2, <1>4, <1>8, <1>10 DEF Shows, old
  <1>12. Shows(y, arrows)
    BY <1>2, <1>9, <1>10, <1>11 DEF Shows
  <1> QED BY <1>5, <1>6, <1>12 DEF QInv

LEMMA RejectShows ==
    ASSUME QInv, NEW p \in Procs, Reject(p), NEW q \in Procs
    PROVE  Shows(session'[q], arrows')
  <1> DEFINE x == session[p]
             y == [x EXCEPT !.phase = "rejected"]
  <1>1. arrows' = arrows /\ x.phase = "review" /\ SessionShape(x) /\ Shows(x, arrows)
    BY DEF Reject, QInv, RInv, Session
  <1>2. session'[q] = IF q = p THEN y ELSE session[q]
    BY DEF QInv, RInv, Reject
  <1> HIDE DEF x
  <1>3. y.phase = "rejected" /\ y.delta = x.delta /\ y.alone = x.alone
    BY <1>1, SessionEnded
  <1> HIDE DEF y
  <1>4. Shows(y, arrows)
    BY <1>1, <1>3 DEF Shows
  <1> QED BY <1>1, <1>2, <1>4 DEF QInv

LEMMA ApproveShows ==
    ASSUME QInv, NEW p \in Procs, Approve(p), NEW q \in Procs
    PROVE  Shows(session'[q], arrows')
  <1> DEFINE x == session[p]
             y == [x EXCEPT !.phase = "committed"]
             batch == x.delta.candidates
  <1>1. /\ Commit(batch) /\ x.phase = "review" /\ SessionShape(x) /\ Faithful(x)
        /\ Shows(x, arrows)
    BY DEF Approve, QInv, RInv, Session
  <1>2. session'[q] = IF q = p THEN y ELSE [session[q] EXCEPT !.alone = FALSE]
    BY DEF Approve
  <1> HIDE DEF x
  <1>3. y.phase = "committed" /\ y.delta = x.delta /\ y.extracted = x.extracted
        /\ y.alone = x.alone
    BY <1>1, SessionEnded
  <1> HIDE DEF y
  <1>4. /\ ArrowsDerived' /\ LedgerTypes'
        /\ \A i \in DOMAIN batch : rows'[Canon[batch[i].triple]][batch[i].source] # NoRow
        /\ \A t \in Triples : rows[t] = NoRows /\ Own(batch, t) =>
              Says(rows'[t], batch, Len(batch), t)
    BY <1>1, CommitWrites DEF QInv, RInv, Faithful
  <1>5. ASSUME NEW t \in DOMAIN x.delta.new, x.alone, Sole(x, t)
        PROVE  arrows'[t] # NoArrow /\ arrows'[t].conf = x.delta.new[t]
    <2>1. /\ batch \in Seq(Edge) /\ TriplesOf(batch) = TriplesOf(x.extracted)
          /\ t \in TriplesOf(batch)
      BY <1>1 DEF Faithful
    <2>2. PICK i \in DOMAIN batch : batch[i].triple = t
      BY <2>1 DEF TriplesOf
    <2>3. t \in Triples /\ batch[i].source \in Sources
      <3>1. batch[i] \in Edge
        BY <2>1
      <3> QED BY <2>2, <3>1 DEF Edge
    <2>4. Canon[t] = t /\ Own(batch, t)
      BY <1>5, <2>1 DEF Sole, Own, TriplesOf
    <2>5. arrows[t] = NoArrow
      BY <1>1, <1>5 DEF Shows
    <2>6. rows[t] = NoRows
      <3>1. rows[t] \in TripleRows /\ Derived(arrows[t], rows[t])
        BY <2>3 DEF QInv, RInv, LedgerTypes, ArrowsDerived
      <3>2. Support(rows[t]) = {}
        BY <2>5, <3>1 DEF Derived
      <3> QED BY <3>1, <3>2 DEF Support, TripleRows, NoRows
    <2>7. Says(rows'[t], batch, Len(batch), t)
      BY <1>4, <2>3, <2>4, <2>6
    <2>8. x.delta.new[t] = Aggregate(rows'[t])
      <3>1. PICK rs : Says(rs, batch, Len(batch), t) /\ x.delta.new[t] = Aggregate(rs)
        BY <1>1, <1>5 DEF Shows, Quoted
      <3>2. Len(batch) \in Nat
        BY <2>1
      <3> HIDE DEF batch
      <3> QED BY <2>7, <3>1, <3>2, SaysOne
    <2>9. batch[i].source \in Support(rows'[t])
      BY <1>4, <2>2, <2>3, <2>4 DEF Support, LedgerTypes, TripleRows
    <2> QED BY <1>4, <2>3, <2>8, <2>9 DEF ArrowsDerived, Derived
  <1>6. Shows(y, arrows')
    BY <1>1, <1>3, <1>5 DEF Shows, Sole
  <1>7. q # p => Shows(session'[q], arrows')
    <2> DEFINE z == session'[q]
               old == session[q]
    <2> SUFFICES ASSUME q # p PROVE Shows(z, arrows')
      OBVIOUS
    <2>1. SessionShape(old) /\ Shows(old, arrows)
      BY DEF QInv, RInv, Session
    <2>2. z = [old EXCEPT !.alone = FALSE]
      BY <1>2
    <2> HIDE DEF z, old
    <2>3. z.phase = old.phase /\ z.delta = old.delta /\ z.alone = FALSE
      BY <2>1, <2>2, SessionDisturbed
    <2> QED BY <2>1, <2>3 DEF Shows
  <1> QED BY <1>2, <1>6, <1>7

LEMMA QInvStep == QInv /\ [Next]_vars => QInv'
  <1> SUFFICES ASSUME QInv, [Next]_vars PROVE QInv'
    OBVIOUS
  <1>1. RInv'
    BY RInvStep DEF QInv
  <1>2. CASE UNCHANGED vars
    BY <1>1, <1>2 DEF vars, QInv
  <1>3. CASE Next
    <2>1. \A q \in Procs : Shows(session'[q], arrows')
      BY <1>3, ExtractShows, EditShows, RejectShows, ApproveShows DEF Next
    <2> QED BY <1>1, <2>1 DEF QInv
  <1> QED BY <1>2, <1>3

\* A new edge lands at the confidence the prompt showed, although the prompt
\* merged candidates one by one and the ledger aggregates the rows they leave.
THEOREM ShownIsWhatLands == Spec => []NewEdgesLandAsShown
  <1>1. QInv => NewEdgesLandAsShown
    BY DEF QInv, Shows, Sole, NewEdgesLandAsShown
  <1> QED BY <1>1, QInvInit, QInvStep, PTL DEF Spec
-----------------------------------------------------------------------------
(* The arithmetic the model's Plus and Aggregate stand for *)

LEMMA ClampType ==
    ASSUME NEW n \in Int
    PROVE  /\ Clamp(n) \in 0 .. Unit /\ Unit - Clamp(n) \in Int
           /\ n \in 0 .. Unit => Clamp(n) = n
  BY AggregationAssumption DEF Clamp

\* f[n] is the product of the first n factors.
Multiplies(f, factors) ==
    /\ f \in [0 .. Len(factors) -> Int] /\ f[0] = 1
    /\ \A n \in 1 .. Len(factors) : f[n] = f[n - 1] * factors[n]

LEMMA ProductRuns ==
    ASSUME NEW factors \in Seq(Int)
    PROVE  \E f : Multiplies(f, factors) /\ Product(factors) = f[Len(factors)]
  <1> DEFINE m == Len(factors)
             step == [n \in 1 .. m |-> [x \in Int |-> x * factors[n]]]
             Body(f, n) == IF n = 0 THEN 1 ELSE f[n - 1] * factors[n]
             upTo == CHOOSE f : f = [n \in 0 .. m |-> Body(f, n)]
  <1>1. m \in Nat /\ \A n \in 1 .. m : factors[n] \in Int
    OBVIOUS
  <1>2. step \in [1 .. m -> [Int -> Int]]
    BY <1>1
  <1>3. PICK f : Passes(f, Int, 1, m, step)
    <2>1. 1 \in Int
      OBVIOUS
    <2> HIDE DEF m, step
    <2> QED BY <1>1, <1>2, <2>1, RunExists
  <1>4. f \in [0 .. m -> Int] /\ f[0] = 1 /\ \A n \in 1 .. m : f[n] = step[n][f[n - 1]]
    <2> HIDE DEF m, step
    <2> QED BY <1>3 DEF Passes
  <1>5. ASSUME NEW n \in 1 .. m PROVE f[n] = f[n - 1] * factors[n]
    <2>1. n - 1 \in 0 .. m
      BY <1>1
    <2>2. f[n - 1] \in Int
      <3> HIDE DEF m, step
      <3> QED BY <1>4, <2>1
    <2> QED BY <1>4, <2>2
  <1>6. \A n \in 0 .. m : f[n] = Body(f, n)
    BY <1>1, <1>4, <1>5
  <1>7. f = [n \in 0 .. m |-> Body(f, n)]
    <2> HIDE DEF Body, step
    <2> QED BY <1>4, <1>6
  <1>8. upTo = [n \in 0 .. m |-> Body(upTo, n)]
    <2> HIDE DEF Body
    <2> QED BY <1>7
  <1>9. Product(factors) = upTo[m]
    BY DEF Product
  <1> HIDE DEF upTo
  <1>10. \A n \in 0 .. m : upTo[n] = Body(upTo, n)
    <2> HIDE DEF Body
    <2> QED BY <1>8
  <1> HIDE DEF m
  <1>11. upTo[0] = 1 /\ \A n \in 1 .. m : upTo[n] = upTo[n - 1] * factors[n]
    BY <1>1, <1>10
  <1> DEFINE T == {n \in Nat : n <= m => upTo[n] = f[n]}
  <1>12. 0 \in T
    BY <1>4, <1>11
  <1>13. ASSUME NEW n \in T PROVE n + 1 \in T
    <2>1. SUFFICES ASSUME n + 1 <= m PROVE upTo[n + 1] = f[n + 1]
      BY <1>13
    <2>2. n + 1 \in 1 .. m /\ (n + 1) - 1 = n /\ upTo[n] = f[n]
      BY <1>1, <1>13, <2>1
    <2> QED BY <1>5, <1>11, <2>2
  <1>14. T = Nat
    <2> HIDE DEF T
    <2>1. T \in SUBSET Nat
      BY DEF T
    <2> QED BY <1>12, <1>13, <2>1, Induct
  <1>15. upTo[m] = f[m]
    BY <1>1, <1>14
  <1> QED BY <1>4, <1>5, <1>9, <1>15 DEF Multiplies, m

\* Lists that agree have products that agree, factor by factor.
LEMMA ProductsAgree ==
    ASSUME NEW few \in Seq(Int), NEW many \in Seq(Int), Len(few) <= Len(many),
           \A n \in 1 .. Len(few) : many[n] = few[n],
           NEW f, Multiplies(f, few), NEW g, Multiplies(g, many)
    PROVE  \A n \in 0 .. Len(few) : f[n] = g[n]
  <1> DEFINE T == {n \in Nat : n <= Len(few) => f[n] = g[n]}
  <1>1. 0 \in T
    BY DEF Multiplies
  <1>2. ASSUME NEW n \in T PROVE n + 1 \in T
    <2>1. SUFFICES ASSUME n + 1 <= Len(few) PROVE f[n + 1] = g[n + 1]
      BY <1>2
    <2>2. /\ n + 1 \in 1 .. Len(few) /\ n + 1 \in 1 .. Len(many) /\ (n + 1) - 1 = n
          /\ f[n] = g[n] /\ many[n + 1] = few[n + 1]
      BY <1>2, <2>1
    <2>3. f[n + 1] = f[n] * few[n + 1] /\ g[n + 1] = g[n] * many[n + 1]
      BY <2>2 DEF Multiplies
    <2> QED BY <2>2, <2>3
  <1>3. T = Nat
    <2> HIDE DEF T
    <2>1. T \in SUBSET Nat
      BY DEF T
    <2> QED BY <1>1, <1>2, <2>1, Induct
  <1> QED BY <1>3

LEMMA ProductGrows ==
    ASSUME NEW few \in Seq(Int), NEW many \in Seq(Int), Len(many) = Len(few) + 1,
           \A n \in 1 .. Len(few) : many[n] = few[n]
    PROVE  /\ Product(few) \in Int
           /\ Product(many) = Product(few) * many[Len(few) + 1]
  <1> DEFINE k == Len(few)
  <1>1. k \in Nat /\ k <= k + 1 /\ k + 1 \in 1 .. k + 1 /\ (k + 1) - 1 = k /\ k \in 0 .. k
    OBVIOUS
  <1>2. PICK f : Multiplies(f, few) /\ Product(few) = f[k]
    BY ProductRuns
  <1>3. PICK g : Multiplies(g, many) /\ Product(many) = g[k + 1]
    BY ProductRuns
  <1>4. f[k] = g[k]
    BY <1>1, <1>2, <1>3, ProductsAgree
  <1>5. f[k] \in Int
    BY <1>1, <1>2 DEF Multiplies
  <1>6. g[k + 1] = g[k] * many[k + 1]
    BY <1>1, <1>3 DEF Multiplies
  <1> QED BY <1>2, <1>3, <1>4, <1>5, <1>6

LEMMA PowerGrows ==
    ASSUME NEW base \in Int, NEW k \in Nat
    PROVE  /\ Power(base, 0) = 1 /\ Power(base, k) \in Int
           /\ Power(base, k + 1) = Power(base, k) * base
  <1> DEFINE bases(j) == [n \in 1 .. j |-> base]
  <1>1. \A j \in Nat : /\ bases(j) \in Seq(Int) /\ Len(bases(j)) = j
                       /\ \A n \in 1 .. j : bases(j)[n] = base
    OBVIOUS
  <1>2. \A j \in Nat : Power(base, j) = Product(bases(j))
    BY DEF Power
  <1> HIDE DEF bases
  <1>3. Product(bases(0)) = 1
    <2>1. PICK f : Multiplies(f, bases(0)) /\ Product(bases(0)) = f[0]
      BY <1>1, ProductRuns
    <2> QED BY <2>1 DEF Multiplies
  <1>4. /\ Product(bases(k)) \in Int
        /\ Product(bases(k + 1)) = Product(bases(k)) * bases(k + 1)[k + 1]
    <2>1. k + 1 \in Nat /\ \A n \in 1 .. k : n \in 1 .. k + 1
      OBVIOUS
    <2>2. /\ bases(k) \in Seq(Int) /\ bases(k + 1) \in Seq(Int)
          /\ Len(bases(k)) = k /\ Len(bases(k + 1)) = k + 1
          /\ \A n \in 1 .. k : bases(k + 1)[n] = bases(k)[n]
      BY <1>1, <2>1
    <2> QED BY <2>2, ProductGrows
  <1>5. bases(k + 1)[k + 1] = base
    BY <1>1
  <1> QED BY <1>2, <1>3, <1>4, <1>5

LEMMA PowersMultiply ==
    ASSUME NEW base \in Int, NEW a \in Nat, NEW b \in Nat
    PROVE  Power(base, a + b) = Power(base, a) * Power(base, b)
  <1> DEFINE T == {n \in Nat : Power(base, a + n) = Power(base, a) * Power(base, n)}
  <1>1. 0 \in T
    BY PowerGrows
  <1>2. ASSUME NEW n \in T PROVE n + 1 \in T
    <2>1. Power(base, a + n) = Power(base, a) * Power(base, n)
      BY <1>2
    <2>2. a + n \in Nat /\ (a + n) + 1 = a + (n + 1) /\ n + 1 \in Nat
      BY <1>2
    <2>3. /\ Power(base, a + (n + 1)) = Power(base, a + n) * base
          /\ Power(base, n + 1) = Power(base, n) * base
          /\ Power(base, a) \in Int /\ Power(base, n) \in Int
      BY <1>2, <2>2, PowerGrows
    <2>4. \A x, y, z \in Int : (x * y) * z = x * (y * z)
      OBVIOUS
    <2>5. Power(base, a + (n + 1)) = Power(base, a) * Power(base, n + 1)
      BY <2>1, <2>3, <2>4
    <2> QED BY <2>2, <2>5
  <1>3. T = Nat
    <2> HIDE DEF T
    <2>1. T \in SUBSET Nat
      BY DEF T
    <2> QED BY <1>1, <1>2, <2>1, Induct
  <1> QED BY <1>3

-----------------------------------------------------------------------------

\* What a list of confidences leaves of the doubt, confidence by confidence.
Left(cs) == [n \in 1 .. Len(cs) |-> Unit - Clamp(cs[n])]

LEMMA LeftType ==
    ASSUME NEW cs \in Seq(Int)
    PROVE  /\ Left(cs) \in Seq(Int) /\ Len(Left(cs)) = Len(cs) /\ Len(cs) \in Nat
           /\ \A n \in 1 .. Len(cs) : Left(cs)[n] = Unit - Clamp(cs[n])
           /\ Doubt(cs) = Product(Left(cs))
  <1>1. \A n \in 1 .. Len(cs) : cs[n] \in Int
    OBVIOUS
  <1>2. \A n \in 1 .. Len(cs) : Unit - Clamp(cs[n]) \in Int
    BY <1>1, ClampType
  <1> QED BY <1>2 DEF Left, Doubt

\* What reduce_edges reaches edge by edge is what the ledger computes at once.
LEMMA IncrementsAgree ==
    ASSUME confidences \in Seq(Int) PROVE IncrementalIsBatch
  <1> DEFINE cs == confidences
             k == Len(cs) - 1
             few == Front(cs)
             d == Doubt(few)
             left == Unit - Clamp(Last(cs))
  <1> SUFFICES ASSUME cs # <<>>
               PROVE  ComplementAggregate(cs) =
                        AggregateConfidence(k, ComplementAggregate(few), Last(cs))
    BY DEF IncrementalIsBatch
  <1>1. /\ k \in Nat /\ Len(cs) = k + 1 /\ few \in Seq(Int) /\ Len(few) = k
        /\ \A n \in 1 .. k : few[n] = cs[n]
        /\ Last(cs) = cs[k + 1]
    <2>1. /\ Len(cs) \in Nat /\ Len(cs) >= 1 /\ Len(cs) - 1 \in Nat
          /\ \A n \in 1 .. Len(cs) : cs[n] \in Int
      OBVIOUS
    <2>2. few = SubSeq(cs, 1, k)
      BY DEF Front
    <2>3. few \in Seq(Int) /\ Len(few) = k /\ \A n \in 1 .. k : few[n] = cs[n]
      <3> HIDE DEF k, few
      <3>1. /\ k \in Nat /\ 1 \in Int /\ (k - 1) + 1 = k
            /\ \A n \in 1 .. k : cs[n] \in Int /\ (1 + n) - 1 = n
        BY <2>1 DEF k
      <3>2. /\ SubSeq(cs, 1, k) \in Seq(Int)
            /\ Len(SubSeq(cs, 1, k)) = IF 1 <= k THEN (k - 1) + 1 ELSE 0
            /\ \A n \in 1 .. (k - 1) + 1 : SubSeq(cs, 1, k)[n] = cs[(1 + n) - 1]
        BY <3>1, SubSeqProperties
      <3> QED BY <2>2, <3>1, <3>2
    <2> QED BY <2>1, <2>3 DEF Last
  <1> HIDE DEF k, few
  <1>2. d \in Int /\ Doubt(cs) = d * left
    <2>1. /\ Left(few) \in Seq(Int) /\ Left(cs) \in Seq(Int)
          /\ Len(Left(few)) = k /\ Len(Left(cs)) = k + 1
          /\ \A n \in 1 .. k : n \in 1 .. k + 1
          /\ k + 1 \in 1 .. k + 1
      BY <1>1, LeftType
    <2>2. /\ \A n \in 1 .. k : Left(few)[n] = Unit - Clamp(few[n])
          /\ \A n \in 1 .. k + 1 : Left(cs)[n] = Unit - Clamp(cs[n])
      BY <1>1, LeftType
    <2>4. /\ \A n \in 1 .. k : Left(cs)[n] = Left(few)[n]
          /\ Left(cs)[k + 1] = left
      BY <1>1, <2>1, <2>2
    <2>3. Doubt(few) = Product(Left(few)) /\ Doubt(cs) = Product(Left(cs))
      BY <1>1, LeftType
    <2> HIDE DEF left
    <2> QED BY <1>1, <2>1, <2>3, <2>4, ProductGrows
  <1>3. Power(Unit, k) \in Int
    BY <1>1, AggregationAssumption, PowerGrows
  <1>4. Power(Unit, k) - (Power(Unit, k) - d) = d
    BY <1>2, <1>3
  <1> HIDE DEF d
  <1>5. ComplementAggregate(few) = Power(Unit, k) - d
    BY <1>1 DEF ComplementAggregate, d
  <1>6. ComplementAggregate(cs) = Power(Unit, k + 1) - d * left
    BY <1>1, <1>2 DEF ComplementAggregate
  <1>7. AggregateConfidence(k, Power(Unit, k) - d, Last(cs)) = Power(Unit, k + 1) - d * left
    BY <1>4 DEF AggregateConfidence
  <1> QED BY <1>5, <1>6, <1>7

-----------------------------------------------------------------------------

\* h[n] is the weight of the first n rows.
LEMMA WeightRuns ==
    ASSUME NEW cs, NEW m \in Nat, Len(cs) = m, \A n \in 1 .. m : Weight(cs[n]) \in Nat
    PROVE  \E h \in [0 .. m -> Nat] :
              /\ h[0] = 0 /\ TotalWeight(cs) = h[m]
              /\ \A n \in 1 .. m : h[n] = h[n - 1] + Weight(cs[n])
  <1> DEFINE w(n) == Weight(cs[n])
             step == [n \in 1 .. m |-> [x \in Nat |-> x + w(n)]]
             Body(f, n) == IF n = 0 THEN 0 ELSE f[n - 1] + w(n)
             upTo == CHOOSE f : f = [n \in 0 .. Len(cs) |-> Body(f, n)]
  <1>1. TotalWeight(cs) = upTo[m]
    BY DEF TotalWeight
  <1> HIDE DEF w
  <1>2. \A n \in 1 .. m : w(n) \in Nat
    BY DEF w
  <1>3. PICK f : Passes(f, Nat, 0, m, step)
    <2>1. step \in [1 .. m -> [Nat -> Nat]] /\ 0 \in Nat
      BY <1>2
    <2> HIDE DEF step
    <2> QED BY <2>1, RunExists
  <1>4. f \in [0 .. m -> Nat] /\ f[0] = 0 /\ \A n \in 1 .. m : f[n] = step[n][f[n - 1]]
    <2> HIDE DEF step
    <2> QED BY <1>3 DEF Passes
  <1>5. ASSUME NEW n \in 1 .. m PROVE f[n] = f[n - 1] + w(n)
    <2>1. n - 1 \in 0 .. m
      OBVIOUS
    <2>2. f[n - 1] \in Nat
      <3> HIDE DEF step
      <3> QED BY <1>4, <2>1
    <2> QED BY <1>4, <2>2
  <1>6. \A n \in 0 .. m : f[n] = Body(f, n)
    BY <1>4, <1>5
  <1>7. f = [n \in 0 .. Len(cs) |-> Body(f, n)]
    <2> HIDE DEF Body, step
    <2> QED BY <1>4, <1>6
  <1>8. upTo = [n \in 0 .. Len(cs) |-> Body(upTo, n)]
    <2> HIDE DEF Body
    <2> QED BY <1>7
  <1> HIDE DEF upTo
  <1>9. \A n \in 0 .. m : upTo[n] = Body(upTo, n)
    <2> HIDE DEF Body
    <2> QED BY <1>8
  <1>10. upTo[0] = 0 /\ \A n \in 1 .. m : upTo[n] = upTo[n - 1] + w(n)
    BY <1>9
  <1> DEFINE T == {n \in Nat : n <= m => upTo[n] = f[n]}
  <1>11. 0 \in T
    BY <1>4, <1>10
  <1>12. ASSUME NEW n \in T PROVE n + 1 \in T
    <2>1. SUFFICES ASSUME n + 1 <= m PROVE upTo[n + 1] = f[n + 1]
      BY <1>12
    <2>2. n + 1 \in 1 .. m /\ (n + 1) - 1 = n /\ upTo[n] = f[n]
      BY <1>12, <2>1
    <2> QED BY <1>5, <1>10, <2>2
  <1>13. T = Nat
    <2> HIDE DEF T
    <2>1. T \in SUBSET Nat
      BY DEF T
    <2> QED BY <1>11, <1>12, <2>1, Induct
  <1>14. upTo[m] = f[m]
    BY <1>13
  <1> QED BY <1>1, <1>4, <1>5, <1>14 DEF w

\* One certain row leaves no doubt, wherever it stands.
LEMMA CertainAbsorbs ==
    ASSUME NEW fs \in Seq(Int), NEW i \in 1 .. Len(fs), fs[i] = 0
    PROVE  Product(fs) = 0
  <1>1. PICK f : Multiplies(f, fs) /\ Product(fs) = f[Len(fs)]
    BY ProductRuns
  <1> DEFINE T == {n \in Nat : i <= n /\ n <= Len(fs) => f[n] = 0}
  <1>2. 0 \in T
    OBVIOUS
  <1>3. ASSUME NEW n \in T PROVE n + 1 \in T
    <2>1. SUFFICES ASSUME i <= n + 1, n + 1 <= Len(fs) PROVE f[n + 1] = 0
      BY <1>3
    <2>2. n + 1 \in 1 .. Len(fs) /\ (n + 1) - 1 = n /\ n \in 0 .. Len(fs)
      BY <1>3, <2>1
    <2>3. /\ f[n + 1] = f[n] * fs[n + 1] /\ f[n] \in Int /\ fs[n + 1] \in Int
      <3>1. /\ f \in [0 .. Len(fs) -> Int]
            /\ \A j \in 1 .. Len(fs) : f[j] = f[j - 1] * fs[j] /\ fs[j] \in Int
        BY <1>1 DEF Multiplies
      <3> HIDE DEF T
      <3> QED BY <2>2, <3>1
    <2>4. f[n] = 0 \/ fs[n + 1] = 0
      BY <1>3, <2>1
    <2> QED BY <2>3, <2>4
  <1>4. T = Nat
    <2> HIDE DEF T
    <2>1. T \in SUBSET Nat
      BY DEF T
    <2> QED BY <1>2, <1>3, <2>1, Induct
  <1>5. Len(fs) \in T
    BY <1>4
  <1> QED BY <1>1, <1>5

\* v weighs the factors, and h[n] is the weight of the first n.
AddUp(fs, v, h) ==
    /\ \A n \in 1 .. Len(fs) : v[n] \in Nat /\ fs[n] * Power(2, v[n]) = Unit
    /\ h \in [0 .. Len(fs) -> Nat] /\ h[0] = 0
    /\ \A n \in 1 .. Len(fs) : h[n] = h[n - 1] + v[n]

\* Factors whose weights are known multiply to the factor of the summed weight.
LEMMA WeightsAdd ==
    ASSUME NEW fs \in Seq(Int), NEW f, Multiplies(f, fs), NEW v, NEW h, AddUp(fs, v, h)
    PROVE  f[Len(fs)] * Power(2, h[Len(fs)]) = Power(Unit, Len(fs))
  <1> DEFINE m == Len(fs)
             T == {n \in Nat : n <= m => f[n] * Power(2, h[n]) = Power(Unit, n)}
  <1>0. /\ m \in Nat /\ m = Len(fs) /\ f \in [0 .. m -> Int] /\ f[0] = 1
        /\ \A n \in 1 .. m : f[n] = f[n - 1] * fs[n] /\ fs[n] \in Int
        /\ \A n \in 1 .. m : v[n] \in Nat /\ fs[n] * Power(2, v[n]) = Unit
        /\ h \in [0 .. m -> Nat] /\ h[0] = 0 /\ \A n \in 1 .. m : h[n] = h[n - 1] + v[n]
    BY DEF Multiplies, AddUp
  <1> HIDE DEF m
  <1>1. 0 \in T
    <2>1. Power(2, 0) = 1 /\ Power(Unit, 0) = 1
      BY AggregationAssumption, PowerGrows
    <2> QED BY <1>0, <2>1
  <1>2. ASSUME NEW n \in T PROVE n + 1 \in T
    <2>1. SUFFICES ASSUME n + 1 <= m
                   PROVE  f[n + 1] * Power(2, h[n + 1]) = Power(Unit, n + 1)
      BY <1>2
    <2> DEFINE k == n + 1
    <2>2. k \in 1 .. m /\ k - 1 = n /\ n \in 0 .. m /\ n \in Nat
      BY <1>0, <1>2, <2>1
    <2> HIDE DEF k
    <2>3. f[k] = f[n] * fs[k] /\ f[n] \in Int /\ fs[k] \in Int
      BY <1>0, <2>2
    <2>4. h[k] = h[n] + v[k] /\ h[n] \in Nat /\ v[k] \in Nat /\ fs[k] * Power(2, v[k]) = Unit
      BY <1>0, <2>2
    <2>5. Power(2, h[k]) = Power(2, h[n]) * Power(2, v[k])
      <3>1. 2 \in Int /\ h[n] \in Nat /\ v[k] \in Nat
        BY <2>4
      <3>2. Power(2, h[n] + v[k]) = Power(2, h[n]) * Power(2, v[k])
        BY <3>1, PowersMultiply
      <3> QED BY <2>4, <3>2
    <2>6. Power(2, h[n]) \in Int /\ Power(2, v[k]) \in Int
      <3>1. 2 \in Int
        OBVIOUS
      <3> QED BY <2>4, <3>1, PowerGrows
    <2>7. f[n] * Power(2, h[n]) = Power(Unit, n)
      BY <1>2, <2>1, <2>2
    <2>8. Power(Unit, n + 1) = Power(Unit, n) * Unit
      BY <2>2, AggregationAssumption, PowerGrows
    <2>9. \A a, b, c, d \in Int : (a * b) * (c * d) = (a * c) * (b * d)
      OBVIOUS
    <2>10. f[k] * Power(2, h[k]) = (f[n] * Power(2, h[n])) * (fs[k] * Power(2, v[k]))
      BY <2>3, <2>5, <2>6, <2>9
    <2> QED BY <2>4, <2>7, <2>8, <2>10 DEF k
  <1>3. T = Nat
    <2> HIDE DEF T
    <2>1. T \in SUBSET Nat
      BY DEF T
    <2> QED BY <1>1, <1>2, <2>1, Induct
  <1> QED BY <1>0, <1>3 DEF m

\* What Plus does with weights is what the product does with confidences.
LEMMA WeightsStandForConfidences ==
    ASSUME confidences \in Seq(Int) PROVE LogDomainAgrees
  <1> DEFINE k == Len(confidences)
             cs == [i \in 1 .. k |-> Clamp(confidences[i])]
  <1>1. k \in Nat /\ \A i \in 1 .. k : confidences[i] \in Int
    OBVIOUS
  <1>2. \A i \in 1 .. k : cs[i] \in 0 .. Unit /\ cs[i] \in Int /\ Clamp(cs[i]) = cs[i]
    <2>1. \A i \in 1 .. k : Clamp(confidences[i]) \in 0 .. Unit
      BY <1>1, ClampType
    <2>2. \A c \in 0 .. Unit : c \in Int /\ Clamp(c) = c
      BY AggregationAssumption, ClampType
    <2> QED BY <2>1, <2>2
  <1>3. cs \in Seq(Int) /\ Len(cs) = k
    BY <1>1, <1>2
  <1> SUFFICES IF \E i \in 1 .. k : cs[i] = Unit
               THEN ComplementAggregate(cs) = Power(Unit, k)
               ELSE (\A i \in 1 .. k : \E w \in 0 .. Unit : Weighs(cs[i], w)) =>
                    (Power(Unit, k) - ComplementAggregate(cs)) * Power(2, TotalWeight(cs))
                        = Power(Unit, k)
    BY DEF LogDomainAgrees
  <1> HIDE DEF k, cs
  <1> DEFINE fs == Left(cs)
  <1>4. /\ fs \in Seq(Int) /\ Len(fs) = k /\ Doubt(cs) = Product(fs)
        /\ \A n \in 1 .. k : fs[n] = Unit - cs[n]
    BY <1>2, <1>3, LeftType
  <1>5. Power(Unit, k) \in Int /\ Unit \in Nat
    BY <1>1, AggregationAssumption, PowerGrows
  <1>6. ComplementAggregate(cs) = Power(Unit, k) - Product(fs)
    BY <1>3, <1>4 DEF ComplementAggregate
  <1> HIDE DEF fs
  <1>7. ASSUME NEW i \in 1 .. k, cs[i] = Unit PROVE ComplementAggregate(cs) = Power(Unit, k)
    <2>1. fs[i] = 0
      BY <1>4, <1>5, <1>7
    <2>2. Product(fs) = 0
      BY <1>4, <2>1, CertainAbsorbs
    <2> QED BY <1>5, <1>6, <2>2
  <1>8. ASSUME \A i \in 1 .. k : \E w \in 0 .. Unit : Weighs(cs[i], w)
        PROVE  (Power(Unit, k) - ComplementAggregate(cs)) * Power(2, TotalWeight(cs))
                  = Power(Unit, k)
    <2> DEFINE v == [i \in 1 .. k |-> Weight(cs[i])]
    <2>1. \A i \in 1 .. k : Weight(cs[i]) \in 0 .. Unit /\ Weighs(cs[i], Weight(cs[i]))
      BY <1>8 DEF Weight
    <2>2. \A i \in 1 .. k : Weight(cs[i]) \in Nat /\ v[i] = Weight(cs[i])
      BY <1>5, <2>1
    <2>3. PICK h \in [0 .. k -> Nat] :
             /\ h[0] = 0 /\ TotalWeight(cs) = h[k]
             /\ \A n \in 1 .. k : h[n] = h[n - 1] + Weight(cs[n])
      BY <1>1, <1>3, <2>2, WeightRuns
    <2>4. PICK f : Multiplies(f, fs) /\ Product(fs) = f[k]
      BY <1>4, ProductRuns
    <2>5. \A n \in 1 .. k : fs[n] * Power(2, v[n]) = Unit
      BY <1>4, <2>1, <2>2 DEF Weighs
    <2>6. /\ \A n \in 1 .. k : v[n] \in Nat /\ fs[n] * Power(2, v[n]) = Unit
          /\ \A n \in 1 .. k : h[n] = h[n - 1] + v[n]
      BY <2>2, <2>3, <2>5
    <2> HIDE DEF v
    <2>7. f[k] * Power(2, h[k]) = Power(Unit, k)
      <3>1. k = Len(fs) /\ h \in [0 .. k -> Nat] /\ h[0] = 0
        BY <1>4, <2>3
      <3>2. fs \in Seq(Int) /\ Multiplies(f, fs)
        BY <1>4, <2>4
      <3>3. AddUp(fs, v, h)
        BY <2>3, <2>6, <3>1 DEF AddUp
      <3>4. f[Len(fs)] * Power(2, h[Len(fs)]) = Power(Unit, Len(fs))
        BY <3>2, <3>3, WeightsAdd
      <3> QED BY <3>1, <3>4
    <2>8. f[k] \in Int
      BY <1>1, <1>4, <2>4 DEF Multiplies
    <2>9. Power(Unit, k) - (Power(Unit, k) - f[k]) = f[k]
      BY <1>5, <2>8
    <2> QED BY <1>6, <2>3, <2>4, <2>7, <2>9
  <1> QED BY <1>7, <1>8

\* Whatever rows an extractor reports, in whatever order they are added: the
\* ledger's one product, the delta's steps and the summed weights of these
\* models give one confidence.
THEOREM ConfidencesAgree ==
    NothingReported /\ [][\E n \in Reported : AddRow(n)]_confidences => []AggregatesAgree
  <1> DEFINE Reports == confidences \in Seq(Reported)
  <1>1. NothingReported => Reports
    BY DEF NothingReported
  <1>2. Reports /\ [\E n \in Reported : AddRow(n)]_confidences => Reports'
    BY DEF AddRow
  <1>3. Reports => AggregatesAgree
    <2> SUFFICES ASSUME Reports PROVE AggregatesAgree
      OBVIOUS
    <2>1. confidences \in Seq(Int)
      <3>1. confidences \in [1 .. Len(confidences) -> Reported] /\ Len(confidences) \in Nat
        OBVIOUS
      <3>2. confidences \in [1 .. Len(confidences) -> Int]
        BY <3>1, AggregationAssumption
      <3> QED BY <3>1, <3>2
    <2> QED BY <2>1, IncrementsAgree, WeightsStandForConfidences DEF AggregatesAgree
  <1> QED BY <1>1, <1>2, <1>3, PTL

-----------------------------------------------------------------------------
(* The answer to a query *)

\* Before is a strict order of S; some members may be left unordered.
Orders(before, S) ==
    /\ \A c \in S : <<c, c>> \notin before
    /\ \A b, c, d \in S : <<b, c>> \in before /\ <<c, d>> \in before => <<b, d>> \in before

LEMMA FirstExists ==
    ASSUME NEW S, IsFiniteSet(S), NEW before, Orders(before, S), NEW T \in SUBSET S, T # {}
    PROVE  \E c \in T : \A d \in T : <<d, c>> \notin before
  <1> DEFINE Ahead(c) == {d \in T : <<d, c>> \in before}
             Counts == {Cardinality(Ahead(c)) : c \in T}
  <1>1. IsFiniteSet(T)
    BY FS_Subset
  <1>2. \A c \in T : Ahead(c) \in SUBSET T
    OBVIOUS
  <1>3. \A c \in T : IsFiniteSet(Ahead(c)) /\ Cardinality(Ahead(c)) \in Nat
    <2> HIDE DEF Ahead
    <2> QED BY <1>1, <1>2, FS_Subset, FS_CardinalityType
  <1>4. PICK c \in T : \A d \in T : Cardinality(Ahead(c)) <= Cardinality(Ahead(d))
    <2>1. Counts \in SUBSET Nat /\ Counts # {}
      <3> HIDE DEF Ahead
      <3> QED BY <1>3
    <2>2. PICK n \in Counts : \A m \in Counts : n <= m
      <3> HIDE DEF Counts
      <3> QED BY <2>1, SmallestExists
    <2> HIDE DEF Ahead
    <2> QED BY <2>2
  <1>5. ASSUME NEW d \in T, <<d, c>> \in before PROVE FALSE
    <2>1. Ahead(d) \in SUBSET Ahead(c) /\ d \in Ahead(c) /\ d \notin Ahead(d)
      BY <1>5 DEF Orders
    <2>2. /\ Cardinality(Ahead(d)) <= Cardinality(Ahead(c))
          /\ Cardinality(Ahead(d)) # Cardinality(Ahead(c))
      <3> HIDE DEF Ahead
      <3> QED BY <1>3, <2>1, FS_Subset
    <2>3. /\ Cardinality(Ahead(c)) <= Cardinality(Ahead(d))
          /\ Cardinality(Ahead(c)) \in Nat /\ Cardinality(Ahead(d)) \in Nat
      <3> HIDE DEF Ahead
      <3> QED BY <1>3, <1>4
    <2> HIDE DEF Ahead
    <2> QED BY <2>2, <2>3
  <1> QED BY <1>5

\* A list of members of S, once each, and none after one it is before; what
\* is not in it is before none of them.
Ranked(r, S, before) ==
    /\ r \in Seq(S)
    /\ \A i, j \in DOMAIN r : i < j => r[i] # r[j] /\ <<r[j], r[i]>> \notin before
    /\ \A i \in DOMAIN r : \A d \in S \ ToSet(r) : <<d, r[i]>> \notin before

\* A list without repetitions that has as many members as S has all of them.
LEMMA FullList ==
    ASSUME NEW S, IsFiniteSet(S), NEW r \in Seq(S),
           \A i, j \in DOMAIN r : i < j => r[i] # r[j]
    PROVE  /\ Len(r) = Cardinality(S) => ToSet(r) = S
           /\ ToSet(r) = S => Len(r) = Cardinality(S)
  <1>1. Len(r) \in Nat /\ DOMAIN r = 1 .. Len(r) /\ r \in [1 .. Len(r) -> S]
    OBVIOUS
  <1>2. \A i, j \in 1 .. Len(r) : r[i] = r[j] => i = j
    <2> SUFFICES ASSUME NEW i \in 1 .. Len(r), NEW j \in 1 .. Len(r), i # j
                 PROVE  r[i] # r[j]
      OBVIOUS
    <2>1. i < j \/ j < i
      OBVIOUS
    <2> QED BY <1>1, <2>1
  <1>3. r \in Injection(1 .. Len(r), S)
    BY <1>1, <1>2 DEF Injection, IsInjective
  <1>4. IsFiniteSet(1 .. Len(r)) /\ Cardinality(1 .. Len(r)) = Len(r)
    BY <1>1, FS_Interval
  <1>5. Len(r) = Cardinality(S) <=> r \in Surjection(1 .. Len(r), S)
    BY <1>3, <1>4, FS_Injection
  <1> QED BY <1>1, <1>5 DEF Surjection, ToSet

LEMMA RankedAppend ==
    ASSUME NEW S, NEW before, NEW r, Ranked(r, S, before),
           NEW c \in S \ ToSet(r), \A d \in S \ ToSet(r) : <<d, c>> \notin before
    PROVE  Ranked(Append(r, c), S, before)
  <1> DEFINE s == Append(r, c)
  <1>1. /\ r \in Seq(S) /\ Len(r) \in Nat /\ DOMAIN r = 1 .. Len(r)
        /\ s \in Seq(S) /\ DOMAIN s = 1 .. Len(r) + 1
        /\ \A i \in 1 .. Len(r) : s[i] = r[i] /\ r[i] \in ToSet(r)
        /\ s[Len(r) + 1] = c
    BY DEF Ranked, ToSet
  <1>2. ToSet(s) = ToSet(r) \cup {c}
    BY <1>1, ToSetAppend
  <1> HIDE DEF s
  <1>3. \A i \in DOMAIN s : i \in DOMAIN r \/ i = Len(r) + 1
    BY <1>1
  <1>4. ASSUME NEW i \in DOMAIN s, NEW j \in DOMAIN s, i < j
        PROVE  s[i] # s[j] /\ <<s[j], s[i]>> \notin before
    <2>1. i \in DOMAIN r
      BY <1>1, <1>3, <1>4
    <2>2. CASE j \in DOMAIN r
      BY <1>1, <1>4, <2>1, <2>2 DEF Ranked
    <2>3. CASE j = Len(r) + 1
      <3>1. s[j] = c /\ s[i] = r[i] /\ r[i] \in ToSet(r)
        BY <1>1, <2>1, <2>3
      <3> QED BY <2>1, <3>1 DEF Ranked
    <2> QED BY <1>3, <2>2, <2>3
  <1>5. ASSUME NEW i \in DOMAIN s, NEW d \in S \ ToSet(s) PROVE <<d, s[i]>> \notin before
    <2>1. d \in S \ ToSet(r)
      BY <1>2, <1>5
    <2>2. CASE i \in DOMAIN r
      BY <1>1, <2>1, <2>2 DEF Ranked
    <2>3. CASE i = Len(r) + 1
      BY <1>1, <2>1, <2>3
    <2> QED BY <1>3, <2>2, <2>3
  <1>6. Ranked(s, S, before)
    BY <1>1, <1>4, <1>5 DEF Ranked
  <1> QED BY <1>6 DEF s

LEMMA RankingRanks ==
    ASSUME NEW S, IsFiniteSet(S), NEW before, Orders(before, S)
    PROVE  Ranked(Ranking(S, before), S, before) /\ ToSet(Ranking(S, before)) = S
  <1> DEFINE first(T) == CHOOSE c \in T : \A d \in T : <<d, c>> \notin before
             m == Cardinality(S)
             All == S \cup {first({})}
             more(r) == Append(r, first(S \ ToSet(r)))
             step == [n \in 1 .. m |-> [r \in Seq(All) |-> more(r)]]
             Body(f, n) == IF n = 0 THEN <<>> ELSE more(f[n - 1])
             upTo == CHOOSE f : f = [n \in 0 .. m |-> Body(f, n)]
  <1>1. Ranking(S, before) = upTo[m]
    BY DEF Ranking
  <1>2. \A T \in SUBSET S : T # {} => first(T) \in T /\ \A d \in T : <<d, first(T)>> \notin before
    BY FirstExists
  <1> HIDE DEF first
  <1>3. m \in Nat
    BY FS_CardinalityType
  <1>4. \A T \in SUBSET S : first(T) \in All
    <2> SUFFICES ASSUME NEW T \in SUBSET S PROVE first(T) \in All
      OBVIOUS
    <2>1. CASE T = {}
      BY <2>1
    <2>2. CASE T # {}
      BY <1>2, <2>2
    <2> QED BY <2>1, <2>2
  <1>5. PICK f : Passes(f, Seq(All), <<>>, m, step)
    <2>1. \A r \in Seq(All) : S \ ToSet(r) \in SUBSET S
      OBVIOUS
    <2>2. \A r \in Seq(All) : Append(r, first(S \ ToSet(r))) \in Seq(All)
      <3> HIDE DEF All
      <3> QED BY <1>4, <2>1
    <2>3. step \in [1 .. m -> [Seq(All) -> Seq(All)]] /\ <<>> \in Seq(All)
      <3> HIDE DEF All, m
      <3> QED BY <2>2
    <2> HIDE DEF step, m, All
    <2> QED BY <1>3, <2>3, RunExists
  <1> HIDE DEF m
  <1>6. /\ f \in [0 .. m -> Seq(All)] /\ f[0] = <<>>
        /\ \A n \in 1 .. m : f[n] = step[n][f[n - 1]]
    <2> HIDE DEF step, All
    <2> QED BY <1>5 DEF Passes
  <1> HIDE DEF All
  <1>7. ASSUME NEW n \in 1 .. m PROVE f[n] = more(f[n - 1])
    <2>1. n - 1 \in 0 .. m
      BY <1>3
    <2>2. f[n - 1] \in Seq(All)
      <3> HIDE DEF step
      <3> QED BY <1>6, <2>1
    <2> QED BY <1>6, <2>2
  <1> HIDE DEF step, more
  <1>8. \A n \in 0 .. m : f[n] = Body(f, n)
    BY <1>3, <1>6, <1>7
  <1>9. f = [n \in 0 .. m |-> Body(f, n)]
    <2> HIDE DEF Body
    <2> QED BY <1>6, <1>8
  <1>10. upTo = [n \in 0 .. m |-> Body(upTo, n)]
    <2> HIDE DEF Body
    <2> QED BY <1>9
  <1> HIDE DEF upTo
  <1>11. \A n \in 0 .. m : upTo[n] = Body(upTo, n)
    <2> HIDE DEF Body
    <2> QED BY <1>10
  <1>12. /\ upTo[0] = <<>>
         /\ \A n \in 1 .. m : upTo[n] = more(upTo[n - 1])
    BY <1>3, <1>11
  <1> HIDE DEF Body
  <1> DEFINE Good(n) == Ranked(upTo[n], S, before) /\ Len(upTo[n]) = n
             T == {n \in Nat : n <= m => Good(n)}
  <1>13. 0 \in T
    <2>1. Ranked(<<>>, S, before) /\ Len(<<>>) = 0
      BY DEF Ranked
    <2> QED BY <1>12, <2>1
  <1>14. ASSUME NEW n \in T PROVE n + 1 \in T
    <2>1. SUFFICES ASSUME n + 1 <= m PROVE Good(n + 1)
      <3> HIDE DEF Good
      <3> QED BY <1>14
    <2> DEFINE r == upTo[n]
               left == S \ ToSet(r)
    <2>2. n \in Nat /\ n + 1 \in 1 .. m /\ (n + 1) - 1 = n /\ Good(n)
      <3> HIDE DEF Good
      <3> QED BY <1>3, <1>14, <2>1
    <2>3. upTo[n + 1] = Append(r, first(left))
      BY <1>12, <2>2 DEF more
    <2>4. r \in Seq(S) /\ Ranked(r, S, before) /\ Len(r) = n
      BY <2>2 DEF Ranked
    <2> HIDE DEF r
    <2>5. left # {}
      <3> SUFFICES ASSUME left = {} PROVE FALSE
        OBVIOUS
      <3>1. ToSet(r) = S
        BY <2>4 DEF ToSet
      <3>2. Len(r) = Cardinality(S)
        BY <2>4, <3>1, FullList DEF Ranked
      <3> QED BY <1>3, <2>1, <2>2, <2>4, <3>2 DEF m
    <2>6. first(left) \in left /\ \A d \in left : <<d, first(left)>> \notin before
      BY <1>2, <2>5
    <2>7. Ranked(Append(r, first(left)), S, before)
      BY <2>4, <2>6, RankedAppend
    <2>8. Len(Append(r, first(left))) = n + 1
      BY <2>4
    <2> QED BY <2>3, <2>7, <2>8
  <1>15. T = Nat
    <2> HIDE DEF T
    <2>1. T \in SUBSET Nat
      BY DEF T
    <2> QED BY <1>13, <1>14, <2>1, Induct
  <1>16. Good(m)
    <2> HIDE DEF Good
    <2> QED BY <1>3, <1>15
  <1>17. ToSet(upTo[m]) = S
    BY <1>16, FullList DEF Ranked, m
  <1> QED BY <1>1, <1>16, <1>17

-----------------------------------------------------------------------------

QueryTypes ==
    /\ graph \in Seq(GraphEdge)
    /\ exact \in SUBSET Entities
    /\ similarity \in [Entities -> Scores \cup {NoVector}]

Seed == [entity : Entities, score : Nat]

Direction == [seed : Entities, relation : Relations, neighbor : Names,
              confidence : Grades, score : Nat]

LEMMA ExactScoreType == ExactScore \in Nat
  <1> DEFINE T == {Threshold} \cup Scores
  <1>1. T \in SUBSET Nat /\ IsFiniteSet(T) /\ T # {}
    <2>1. IsFiniteSet(Scores \cup {Threshold})
      BY FanoutAssumption, FS_AddElement
    <2>2. T = Scores \cup {Threshold}
      OBVIOUS
    <2> QED BY <2>1, <2>2, FanoutAssumption
  <1> HIDE DEF T
  <1>2. \E x \in T : \A y \in T : y <= x
    BY <1>1, LargestExists
  <1>3. \E x \in T : \A y \in T : x >= y
    BY <1>1, <1>2
  <1>4. Max(T) \in T
    BY <1>3 DEF Max
  <1> QED BY <1>1, <1>4 DEF ExactScore, T

\* Seeds are finitely many, and sort.
LEMMA SeedsRank ==
    ASSUME QueryTypes
    PROVE  MatchSeeds \in Seq(Seed)
  <1> DEFINE before == {p \in Seeds \X Seeds : Sooner(p[1], p[2])}
             scoreOf == [e \in Entities |-> IF exact # {} THEN ExactScore ELSE similarity[e]]
             seedOf == [e \in Entities |-> [entity |-> e, score |-> scoreOf[e]]]
  <1>1. Seeds \in SUBSET Seed
    <2>1. \A e \in exact : e \in Entities /\ ExactScore \in Nat
      BY ExactScoreType DEF QueryTypes
    <2>2. \A e \in Entities : similarity[e] # NoVector => similarity[e] \in Nat
      BY FanoutAssumption DEF QueryTypes
    <2> QED BY <2>1, <2>2 DEF Seeds, Seed
  <1>2. IsFiniteSet(Seeds)
    <2> DEFINE from == {e \in Entities : seedOf[e] \in Seeds}
    <2>1. IsFiniteSet(from)
      <3> HIDE DEF seedOf
      <3> QED BY FanoutAssumption, FS_Subset
    <2>2. \A x \in Seeds : \E e \in Entities : x = seedOf[e]
      BY DEF Seeds, QueryTypes
    <2> HIDE DEF seedOf
    <2>3. [e \in from |-> seedOf[e]] \in Surjection(from, Seeds)
      BY <2>2 DEF Surjection
    <2> QED BY <2>1, <2>3, FS_Surjection
  <1>3. Orders(before, Seeds)
    <2>1. \A x \in Seeds : x.score \in Nat /\ x.entity \in Nat
      BY <1>1, FanoutAssumption DEF Seed
    <2>2. \A c, d \in Seeds : <<c, d>> \in before <=> Sooner(c, d)
      OBVIOUS
    <2>3. before \in SUBSET (Seeds \X Seeds)
      OBVIOUS
    <2> HIDE DEF before
    <2>4. \A c \in Seeds : <<c, c>> \notin before
      BY <2>1, <2>2 DEF Sooner
    <2>5. \A b, c, d \in Seeds :
             <<b, c>> \in before /\ <<c, d>> \in before => <<b, d>> \in before
      BY <2>1, <2>2 DEF Sooner
    <2> QED BY <2>4, <2>5 DEF Orders
  <1>4. MatchSeeds = Ranking(Seeds, before)
    BY DEF MatchSeeds
  <1> HIDE DEF before
  <1>5. MatchSeeds \in Seq(Seeds)
    BY <1>2, <1>3, <1>4, RankingRanks DEF Ranked
  <1> QED BY <1>1, <1>5

\* The arrows inspected around a seed are a list of arrows of the graph.
LEMMA InspectedType ==
    ASSUME QueryTypes, NEW seed
    PROVE  Inspected(seed) \in Seq(GraphEdge)
  <1> DEFINE in == {i \in DOMAIN graph :
                      NameOf[seed.entity] \in {graph[i].subject, graph[i].object}}
             touching == Picked(graph, in)
             k == Min({MaxEdges, Len(touching)})
  <1>1. touching \in Seq(GraphEdge)
    <2>1. graph \in Seq(GraphEdge) /\ in \in SUBSET DOMAIN graph
      BY DEF QueryTypes
    <2> HIDE DEF in
    <2> QED BY <2>1, PickedMembers
  <1>2. Inspected(seed) = SubSeq(touching, 1, k)
    BY DEF Inspected
  <1> HIDE DEF touching
  <1>3. k \in Nat /\ k <= Len(touching)
    <2>1. MaxEdges \in Nat /\ Len(touching) \in Nat
      BY <1>1, FanoutAssumption
    <2> QED BY <2>1 DEF Min
  <1> HIDE DEF k
  <1>4. 1 \in Int /\ k \in Int /\ \A i \in 1 .. k : touching[i] \in GraphEdge
    <2>1. Len(touching) \in Nat /\ \A i \in 1 .. Len(touching) : touching[i] \in GraphEdge
      BY <1>1
    <2> QED BY <1>3, <2>1
  <1>5. SubSeq(touching, 1, k) \in Seq(GraphEdge)
    BY <1>4, SubSeqProperties
  <1> QED BY <1>2, <1>5

LEMMA DirectionType ==
    ASSUME NEW seed \in Seed, NEW edge \in GraphEdge
    PROVE  DirectionOf(seed, edge) \in Direction
  BY DEF DirectionOf, Direction, Seed, GraphEdge

\* Candidates stand for what was offered: one per key, as good as any offer of it.
Stand(candidates, offers) ==
    /\ candidates \in SUBSET Direction /\ IsFiniteSet(candidates)
    /\ candidates \subseteq offers
    /\ \A c, d \in candidates : Key(c) = Key(d) => c = d
    /\ \A o \in offers : \E c \in candidates : Key(c) = Key(o) /\ ~Better(o, c)

LEMMA BetterOrders ==
    /\ \A c \in Direction : ~Better(c, c)
    /\ \A c, d \in Direction : Better(d, c) => ~Better(c, d)
    /\ \A b, c, d \in Direction : ~Better(c, b) /\ ~Better(d, c) => ~Better(d, b)
  <1>1. \A c \in Direction : c.confidence \in Nat /\ c.score \in Nat
    BY FanoutAssumption DEF Direction
  <1> QED BY <1>1 DEF Better

LEMMA OfferStands ==
    ASSUME NEW candidates, NEW offers \in SUBSET Direction, Stand(candidates, offers),
           NEW d \in Direction
    PROVE  Stand(Offer(candidates, d), offers \cup {d})
  <1> DEFINE prior == {c \in candidates : Key(c) = Key(d)}
             new == (candidates \ prior) \cup {d}
  <1>1. CASE \E c \in prior : ~Better(d, c)
    <2>1. PICK c \in prior : ~Better(d, c)
      BY <1>1
    <2>2. Offer(candidates, d) = candidates
      BY <2>1 DEF Offer
    <2>3. Key(c) = Key(d) /\ c \in candidates
      OBVIOUS
    <2> QED BY <2>1, <2>2, <2>3 DEF Stand
  <1>2. CASE \A c \in prior : Better(d, c)
    <2>2. Offer(candidates, d) = new
      BY <1>2 DEF Offer
    <2>3. new \in SUBSET Direction /\ new \subseteq offers \cup {d}
      BY DEF Stand
    <2>4. IsFiniteSet(new)
      <3>1. IsFiniteSet(candidates \ prior)
        <4>1. candidates \ prior \in SUBSET candidates /\ IsFiniteSet(candidates)
          BY DEF Stand
        <4> QED BY <4>1, FS_Subset
      <3> QED BY <3>1, FS_AddElement
    <2>5. \A b, c \in new : Key(b) = Key(c) => b = c
      BY DEF Stand
    <2>6. ASSUME NEW o \in offers \cup {d}
          PROVE  \E c \in new : Key(c) = Key(o) /\ ~Better(o, c)
      <3>1. CASE o = d
        <4>1. d \in new /\ ~Better(d, d)
          BY BetterOrders
        <4> QED BY <3>1, <4>1
      <3>2. CASE o \in offers
        <4>1. PICK c \in candidates : Key(c) = Key(o) /\ ~Better(o, c)
          BY <3>2 DEF Stand
        <4>2. CASE c \notin prior
          BY <4>1, <4>2
        <4>3. CASE c \in prior
          <5>1. c \in Direction /\ o \in Direction
            BY <3>2 DEF Stand
          <5>2. ~Better(o, d) /\ Key(d) = Key(o)
            BY <1>2, <4>1, <4>3, <5>1, BetterOrders
          <5> QED BY <5>2
        <4> QED BY <4>2, <4>3
      <3> QED BY <3>1, <3>2
    <2> HIDE DEF new
    <2> QED BY <2>2, <2>3, <2>4, <2>5, <2>6 DEF Stand
  <1> QED BY <1>1, <1>2

\* The directions around a seed.
Around(seed) == {DirectionOf(seed, edge) : edge \in ToSet(Inspected(seed))}

\* The inner loop offers them all.
LEMMA ExploreStands ==
    ASSUME QueryTypes, NEW seed \in Seed,
           NEW candidates, NEW offers \in SUBSET Direction, Stand(candidates, offers)
    PROVE  /\ Stand(Explore(candidates, seed), offers \cup Around(seed))
           /\ offers \cup Around(seed) \in SUBSET Direction
  <1> DEFINE edges == Inspected(seed)
             m == Len(edges)
             d(n) == DirectionOf(seed, edges[n])
             All == SUBSET Direction
             step == [n \in 1 .. m |-> [cs \in All |-> Offer(cs, d(n))]]
             Body(f, n) == IF n = 0 THEN candidates ELSE Offer(f[n - 1], d(n))
             upTo == CHOOSE f : f = [n \in 0 .. m |-> Body(f, n)]
  <1>1. Explore(candidates, seed) = upTo[m]
    BY DEF Explore
  <1>2. edges \in Seq(GraphEdge) /\ m \in Nat /\ DOMAIN edges = 1 .. m
    BY InspectedType
  <1>3. Around(seed) = {d(n) : n \in 1 .. m}
    BY <1>2 DEF Around, ToSet
  <1>4. \A n \in 1 .. m : d(n) \in Direction
    <2> SUFFICES ASSUME NEW n \in 1 .. m PROVE d(n) \in Direction
      OBVIOUS
    <2>1. edges[n] \in GraphEdge
      BY <1>2
    <2> HIDE DEF edges
    <2> QED BY <2>1, DirectionType
  <1> HIDE DEF edges, m, d
  <1>5. PICK f : Passes(f, All, candidates, m, step)
    <2>1. \A cs \in All, n \in 1 .. m : Offer(cs, d(n)) \in All
      BY <1>4 DEF Offer
    <2>2. step \in [1 .. m -> [All -> All]] /\ candidates \in All
      BY <2>1 DEF Stand
    <2> HIDE DEF step, All
    <2> QED BY <1>2, <2>2, RunExists
  <1>6. /\ f \in [0 .. m -> All] /\ f[0] = candidates
        /\ \A n \in 1 .. m : f[n] = step[n][f[n - 1]]
    <2> HIDE DEF step, All
    <2> QED BY <1>5 DEF Passes
  <1>7. ASSUME NEW n \in 1 .. m PROVE f[n] = Offer(f[n - 1], d(n))
    <2>1. n - 1 \in 0 .. m
      BY <1>2
    <2>2. f[n - 1] \in All
      <3> HIDE DEF step, All
      <3> QED BY <1>6, <2>1
    <2> HIDE DEF All
    <2> QED BY <1>6, <2>2
  <1> HIDE DEF step, All
  <1>8. \A n \in 0 .. m : f[n] = Body(f, n)
    BY <1>2, <1>6, <1>7
  <1>9. f = [n \in 0 .. m |-> Body(f, n)]
    <2> HIDE DEF Body
    <2> QED BY <1>6, <1>8
  <1>10. upTo = [n \in 0 .. m |-> Body(upTo, n)]
    <2> HIDE DEF Body
    <2> QED BY <1>9
  <1> HIDE DEF upTo
  <1>11. \A n \in 0 .. m : upTo[n] = Body(upTo, n)
    <2> HIDE DEF Body
    <2> QED BY <1>10
  <1>12. upTo[0] = candidates /\ \A n \in 1 .. m : upTo[n] = Offer(upTo[n - 1], d(n))
    BY <1>2, <1>11
  <1> HIDE DEF Body
  <1> DEFINE offered(n) == offers \cup {d(i) : i \in 1 .. n}
             Good(n) == Stand(upTo[n], offered(n)) /\ offered(n) \in SUBSET Direction
             T == {n \in Nat : n <= m => Good(n)}
  <1>13. 0 \in T
    <2>1. offered(0) = offers
      OBVIOUS
    <2> HIDE DEF offered
    <2> QED BY <1>12, <2>1
  <1>14. ASSUME NEW n \in T PROVE n + 1 \in T
    <2>1. SUFFICES ASSUME n + 1 <= m PROVE Good(n + 1)
      <3> HIDE DEF Good
      <3> QED BY <1>14
    <2>2. n \in Nat /\ n + 1 \in 1 .. m /\ (n + 1) - 1 = n /\ Good(n)
      <3> HIDE DEF Good
      <3> QED BY <1>2, <1>14, <2>1
    <2>3. offered(n + 1) = offered(n) \cup {d(n + 1)}
      <3>1. \A i \in 1 .. n + 1 : i \in 1 .. n \/ i = n + 1
        BY <2>2
      <3>2. \A i \in 1 .. n : i \in 1 .. n + 1
        BY <2>2
      <3>3. n + 1 \in 1 .. n + 1
        BY <2>2
      <3> QED BY <3>1, <3>2, <3>3
    <2>4. d(n + 1) \in Direction /\ upTo[n + 1] = Offer(upTo[n], d(n + 1))
      BY <1>4, <1>12, <2>2
    <2> HIDE DEF offered
    <2>5. Stand(upTo[n + 1], offered(n) \cup {d(n + 1)})
      BY <2>2, <2>4, OfferStands
    <2> QED BY <2>2, <2>3, <2>4, <2>5
  <1>15. T = Nat
    <2> HIDE DEF T
    <2>1. T \in SUBSET Nat
      BY DEF T
    <2> QED BY <1>13, <1>14, <2>1, Induct
  <1>16. Good(m)
    <2> HIDE DEF Good
    <2> QED BY <1>2, <1>15
  <1> QED BY <1>1, <1>3, <1>16

\* The outer loop does so for every seed.
LEMMA CandidatesStand ==
    ASSUME QueryTypes
    PROVE  /\ Stand(Candidates, UNION {Around(s) : s \in ToSet(MatchSeeds)})
           /\ UNION {Around(s) : s \in ToSet(MatchSeeds)} \in SUBSET Direction
  <1> DEFINE seeds == MatchSeeds
             m == Len(seeds)
             All == SUBSET Direction
             more(cs, n) == Explore(cs, seeds[n])
             Body(f, n) == IF n = 0 THEN {} ELSE more(f[n - 1], n)
             upTo == CHOOSE f : f = [n \in 0 .. m |-> Body(f, n)]
             offered(n) == UNION {Around(seeds[i]) : i \in 1 .. n}
             Good(cs, n) == Stand(cs, offered(n)) /\ offered(n) \in SUBSET Direction
  <1>1. Candidates = upTo[m]
    BY DEF Candidates
  <1>2. seeds \in Seq(Seed) /\ m \in Nat /\ DOMAIN seeds = 1 .. m
    BY SeedsRank
  <1>3. UNION {Around(s) : s \in ToSet(seeds)} = offered(m)
    BY <1>2 DEF ToSet
  <1> HIDE DEF seeds
  <1>4. \A n \in 1 .. m : seeds[n] \in Seed
    BY <1>2
  <1> HIDE DEF m
  <1>5. \A n \in 1 .. m : offered(n) = offered(n - 1) \cup Around(seeds[n])
    <2> SUFFICES ASSUME NEW n \in 1 .. m
                 PROVE  offered(n) = offered(n - 1) \cup Around(seeds[n])
      OBVIOUS
    <2>1. \A i \in 1 .. n : i \in 1 .. n - 1 \/ i = n
      BY <1>2
    <2>2. \A i \in 1 .. n - 1 : i \in 1 .. n
      BY <1>2
    <2>3. n \in 1 .. n
      BY <1>2
    <2> QED BY <2>1, <2>2, <2>3
  <1>6. Good({}, 0)
    <2>1. offered(0) = {}
      OBVIOUS
    <2>2. Stand({}, {})
      BY FS_EmptySet DEF Stand
    <2> HIDE DEF offered
    <2> QED BY <2>1, <2>2
  <1>7. \A n \in 1 .. m : \A cs : Good(cs, n - 1) => Good(more(cs, n), n)
    <2> SUFFICES ASSUME NEW n \in 1 .. m, NEW cs, Good(cs, n - 1)
                 PROVE  Good(more(cs, n), n)
      OBVIOUS
    <2>1. offered(n) = offered(n - 1) \cup Around(seeds[n]) /\ seeds[n] \in Seed
      BY <1>4, <1>5
    <2> HIDE DEF offered
    <2>2. /\ Stand(Explore(cs, seeds[n]), offered(n - 1) \cup Around(seeds[n]))
          /\ offered(n - 1) \cup Around(seeds[n]) \in SUBSET Direction
      BY <2>1, ExploreStands
    <2> QED BY <2>1, <2>2
  <1>8. \A cs, n : Good(cs, n) => cs \in All
    BY DEF Stand
  <1> HIDE DEF more, Good
  <1>9. \E f : f = [n \in 0 .. m |-> Body(f, n)]
    <2> DEFINE step == [n \in 1 .. m |-> [cs \in All |->
                           IF more(cs, n) \in All THEN more(cs, n) ELSE {}]]
    <2>1. PICK f : Passes(f, All, {}, m, step)
      <3>1. step \in [1 .. m -> [All -> All]] /\ {} \in All
        OBVIOUS
      <3> HIDE DEF step, All
      <3> QED BY <1>2, <3>1, RunExists
    <2>2. /\ f \in [0 .. m -> All] /\ f[0] = {}
          /\ \A n \in 1 .. m : f[n] = step[n][f[n - 1]]
      <3> HIDE DEF step, All
      <3> QED BY <2>1 DEF Passes
    <2> HIDE DEF All
    <2> DEFINE T == {n \in Nat : n <= m => Good(f[n], n)}
    <2>3. ASSUME NEW n \in 1 .. m, Good(f[n - 1], n - 1)
          PROVE  f[n] = more(f[n - 1], n) /\ Good(f[n], n)
      <3>1. Good(more(f[n - 1], n), n) /\ more(f[n - 1], n) \in All
        BY <1>7, <1>8, <2>3
      <3>2. f[n - 1] \in All
        BY <1>8, <2>3
      <3>3. f[n] = more(f[n - 1], n)
        BY <2>2, <3>1, <3>2
      <3> QED BY <3>1, <3>3
    <2> HIDE DEF step
    <2>4. 0 \in T
      BY <1>6, <2>2
    <2>5. ASSUME NEW n \in T PROVE n + 1 \in T
      <3>1. SUFFICES ASSUME n + 1 <= m PROVE Good(f[n + 1], n + 1)
        BY <2>5
      <3>2. n + 1 \in 1 .. m /\ (n + 1) - 1 = n /\ Good(f[n], n)
        BY <1>2, <2>5, <3>1
      <3> QED BY <2>3, <3>2
    <2>6. T = Nat
      <3> HIDE DEF T
      <3>1. T \in SUBSET Nat
        BY DEF T
      <3> QED BY <2>4, <2>5, <3>1, Induct
    <2>7. ASSUME NEW n \in 1 .. m PROVE f[n] = more(f[n - 1], n)
      <3>1. n - 1 \in T /\ n - 1 <= m
        BY <1>2, <2>6
      <3> QED BY <2>3, <3>1
    <2>8. \A n \in 0 .. m : f[n] = Body(f, n)
      BY <1>2, <2>2, <2>7
    <2> HIDE DEF Body
    <2> QED BY <2>2, <2>8
  <1>10. upTo = [n \in 0 .. m |-> Body(upTo, n)]
    <2> HIDE DEF Body
    <2> QED BY <1>9
  <1> HIDE DEF upTo
  <1>11. \A n \in 0 .. m : upTo[n] = Body(upTo, n)
    <2> HIDE DEF Body
    <2> QED BY <1>10
  <1>12. upTo[0] = {} /\ \A n \in 1 .. m : upTo[n] = more(upTo[n - 1], n)
    BY <1>2, <1>11
  <1> HIDE DEF Body
  <1> DEFINE T == {n \in Nat : n <= m => Good(upTo[n], n)}
  <1>13. 0 \in T
    BY <1>6, <1>12
  <1>14. ASSUME NEW n \in T PROVE n + 1 \in T
    <2>1. SUFFICES ASSUME n + 1 <= m PROVE Good(upTo[n + 1], n + 1)
      BY <1>14
    <2>2. n + 1 \in 1 .. m /\ (n + 1) - 1 = n /\ Good(upTo[n], n)
      BY <1>2, <1>14, <2>1
    <2> QED BY <1>7, <1>12, <2>2
  <1>15. T = Nat
    <2> HIDE DEF T
    <2>1. T \in SUBSET Nat
      BY DEF T
    <2> QED BY <1>13, <1>14, <2>1, Induct
  <1>16. Good(upTo[m], m)
    BY <1>2, <1>15
  <1>17. Stand(upTo[m], offered(m)) /\ offered(m) \in SUBSET Direction
    BY <1>16 DEF Good
  <1> HIDE DEF offered, upTo
  <1> QED BY <1>1, <1>3, <1>17 DEF seeds

LEMMA AboveOrders ==
    /\ \A c \in Direction : ~Above(c, c)
    /\ \A b, c, d \in Direction : Above(b, c) /\ Above(c, d) => Above(b, d)
    /\ \A c, d, o \in Direction : Key(c) = Key(o) /\ ~Better(o, c) /\ Above(o, d) => Above(c, d)
  <1>1. \A c \in Direction : c.confidence \in Nat /\ c.score \in Nat /\ c.neighbor \in Nat
    BY FanoutAssumption DEF Direction, Names
  <1>2. \A c, o \in Direction : Key(c) = Key(o) => c.neighbor = o.neighbor
    BY DEF Key
  <1> QED BY <1>1, <1>2 DEF Above, Better

LEMMA AnswerIsBest ==
    ASSUME QueryTypes PROVE AnswersAreBest
  <1> DEFINE offers == UNION {Around(s) : s \in ToSet(MatchSeeds)}
             cs == Candidates
             before == {p \in cs \X cs : Above(p[1], p[2])}
             ranked == Ranking(cs, before)
             w == Len(ranked)
             m == Min({TopK, w})
             answer == QueryDirections
  <1>1. Stand(cs, offers) /\ offers \in SUBSET Direction
    BY CandidatesStand
  <1>2. answer = SubSeq(ranked, 1, m)
    BY DEF QueryDirections
  <1>3. offers = UNION {{DirectionOf(s, edge) : edge \in ToSet(Inspected(s))} :
                           s \in ToSet(MatchSeeds)}
    BY DEF Around
  <1> SUFFICES
         /\ ToSet(answer) \subseteq offers
         /\ \A i, j \in DOMAIN answer : i < j =>
               Key(answer[i]) # Key(answer[j]) /\ ~Above(answer[j], answer[i])
         /\ \A o \in offers :
               \/ \E i \in DOMAIN answer : Key(answer[i]) = Key(o)
                                           /\ answer[i].confidence >= o.confidence
               \/ Len(answer) = TopK /\ \A i \in DOMAIN answer : ~Above(o, answer[i])
    BY <1>3 DEF AnswersAreBest
  <1> HIDE DEF offers, cs, answer
  <1>4. \A c, d \in cs : <<c, d>> \in before <=> Above(c, d)
    OBVIOUS
  <1> HIDE DEF before
  <1>5. cs \in SUBSET Direction /\ IsFiniteSet(cs)
    BY <1>1 DEF Stand
  <1>6. Orders(before, cs)
    BY <1>4, <1>5, AboveOrders DEF Orders
  <1>7. Ranked(ranked, cs, before) /\ ToSet(ranked) = cs
    BY <1>5, <1>6, RankingRanks
  <1> HIDE DEF ranked
  <1>8. ranked \in [1 .. w -> cs] /\ w \in Nat /\ DOMAIN ranked = 1 .. w
    BY <1>7 DEF Ranked
  <1> HIDE DEF w
  <1>9. m \in Nat /\ m <= w /\ m \in {TopK, w} /\ \A i \in 1 .. m : i \in 1 .. w
    <2>1. m \in {TopK, w} /\ m \in Nat /\ m <= w
      <3>1. TopK \in Nat
        BY FanoutAssumption
      <3>2. \E x \in {TopK, w} : \A y \in {TopK, w} : x <= y
        BY <1>8, <3>1
      <3>3. m \in {TopK, w} /\ \A y \in {TopK, w} : m <= y
        BY <3>2 DEF Min
      <3> HIDE DEF m
      <3> QED BY <1>8, <3>1, <3>3
    <2> HIDE DEF m
    <2> QED BY <1>8, <2>1
  <1> HIDE DEF m
  <1>10. /\ Len(answer) = m /\ DOMAIN answer = 1 .. m
        /\ \A i \in 1 .. m : answer[i] = ranked[i] /\ i \in DOMAIN ranked /\ ranked[i] \in cs
    <2>1. /\ 1 \in Int /\ m \in Int /\ (m - 1) + 1 = m /\ (m = 0 \/ 1 <= m)
          /\ \A i \in 1 .. m : (1 + i) - 1 = i
      BY <1>9
    <2>2. \A i \in 1 .. m : i \in DOMAIN ranked /\ ranked[i] \in cs
      BY <1>8, <1>9
    <2>3. /\ SubSeq(ranked, 1, m) \in Seq(cs)
          /\ Len(SubSeq(ranked, 1, m)) = IF 1 <= m THEN (m - 1) + 1 ELSE 0
          /\ \A i \in 1 .. (m - 1) + 1 : SubSeq(ranked, 1, m)[i] = ranked[(1 + i) - 1]
      BY <2>1, <2>2, SubSeqProperties
    <2>4. answer \in Seq(cs) /\ Len(answer) = m
      BY <1>2, <2>1, <2>3
    <2> QED BY <1>2, <2>1, <2>2, <2>3, <2>4
  <1>11. ToSet(answer) \subseteq offers
    BY <1>1, <1>10 DEF Stand, ToSet
  <1>12. ASSUME NEW i \in DOMAIN answer, NEW j \in DOMAIN answer, i < j
         PROVE  Key(answer[i]) # Key(answer[j]) /\ ~Above(answer[j], answer[i])
    <2>1. ranked[i] # ranked[j] /\ <<ranked[j], ranked[i]>> \notin before
      BY <1>7, <1>10, <1>12 DEF Ranked
    <2>2. answer[i] = ranked[i] /\ answer[j] = ranked[j] /\ ranked[i] \in cs /\ ranked[j] \in cs
      BY <1>10
    <2> QED BY <1>1, <1>4, <2>1, <2>2 DEF Stand
  <1>13. ASSUME NEW o \in offers
         PROVE  \/ \E i \in DOMAIN answer : Key(answer[i]) = Key(o)
                                            /\ answer[i].confidence >= o.confidence
                \/ Len(answer) = TopK /\ \A i \in DOMAIN answer : ~Above(o, answer[i])
    <2>1. PICK c \in cs : Key(c) = Key(o) /\ ~Better(o, c)
      BY <1>1 DEF Stand
    <2>2. c \in Direction /\ o \in Direction
      BY <1>1, <1>5
    <2>3. PICK k \in DOMAIN ranked : ranked[k] = c
      BY <1>7 DEF ToSet
    <2>4. CASE k <= m
      <3>1. k \in DOMAIN answer /\ answer[k] = c
        BY <1>8, <1>9, <1>10, <2>3, <2>4
      <3>2. c.confidence >= o.confidence
        <4>1. c.confidence \in Nat /\ o.confidence \in Nat
          BY <2>2, FanoutAssumption DEF Direction
        <4> QED BY <2>1, <4>1 DEF Better
      <3> QED BY <2>1, <3>1, <3>2
    <2>5. CASE ~(k <= m)
      <3>1. m = TopK
        BY <1>8, <1>9, <2>3, <2>5
      <3>2. ASSUME NEW i \in DOMAIN answer, Above(o, answer[i]) PROVE FALSE
        <4>1. answer[i] = ranked[i] /\ i \in DOMAIN ranked /\ ranked[i] \in cs /\ i < k
          BY <1>8, <1>9, <1>10, <2>3, <2>5
        <4>2. <<ranked[k], ranked[i]>> \notin before
          BY <1>7, <2>3, <4>1 DEF Ranked
        <4>3. ~Above(c, ranked[i])
          BY <1>4, <2>3, <4>1, <4>2
        <4>4. ranked[i] \in Direction
          BY <1>5, <4>1
        <4> QED BY <2>1, <2>2, <3>2, <4>1, <4>3, <4>4, AboveOrders
      <3> QED BY <1>10, <3>1, <3>2
    <2> QED BY <2>4, <2>5
  <1> QED BY <1>11, <1>12, <1>13

\* For every graph, listing its arrows in any order, and every query: an answer
\* is ranked, repeats nothing, and passes over an inspected arrow only for a
\* better one of its key or for a full answer of others that are not below it.
THEOREM AnswersStayBest ==
    QueryInit /\ [][\E edge \in GraphEdge : AddArrow(edge)]_<<graph, exact, similarity, embedded>>
       => []AnswersAreBest
  <1>1. QueryInit => QueryTypes
    BY DEF QueryInit, QueryTypes
  <1>2. /\ QueryTypes
        /\ [\E edge \in GraphEdge : AddArrow(edge)]_<<graph, exact, similarity, embedded>>
        => QueryTypes'
    BY DEF QueryTypes, AddArrow
  <1>3. QueryTypes => AnswersAreBest
    BY AnswerIsBest
  <1> QED BY <1>1, <1>2, <1>3, PTL
=============================================================================
