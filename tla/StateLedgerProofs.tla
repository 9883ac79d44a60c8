-------------------------- MODULE StateLedgerProofs --------------------------
(***************************************************************************)
(* For any number of processes, entities and deaths: every state map is    *)
(* derived from its rows, but for the map a death has left behind and the  *)
(* one set from rows another process has added to; and a map only advances *)
(* to later or surer rows, however often a document is ingested again.     *)
(***************************************************************************)
EXTENDS StateLedger, DataLemmas, TLAPS

\* The two facts about the data that MapsDerived rests on: as_of texts sort as
\* the dates they denote, and a graph cites finitely many sources.
TextsSortAsDates == \A a, b \in AsOfs : a > b <=> DateOf[a] > DateOf[b]

FiniteSources == IsFiniteSet(Sources)

-----------------------------------------------------------------------------
(* What the recomputation comes to. *)

KeyRows == [Sources -> Row \cup {NoRow}]

\* What CurrentMap says of one key.
Agrees(keyRows, entry) ==
    IF \A s \in Sources : keyRows[s] = NoRow THEN entry = NoEntry
    ELSE /\ entry # NoEntry
         /\ keyRows[entry.source] = entry.row
         /\ \A s \in Sources : keyRows[s] # NoRow => ~Later(keyRows[s], entry.row)

\* The order of the texts is the order the property speaks of.
LEMMA LaterIsBeats ==
    ASSUME TextsSortAsDates, NEW a \in Row, NEW b \in Row
    PROVE  Later(a, b) <=> Beats(a, b)
  <1>1. /\ a.asof \in AsOfs /\ b.asof \in AsOfs /\ a.asof \in Nat /\ b.asof \in Nat
        /\ DateOf[a.asof] \in Nat /\ DateOf[b.asof] \in Nat
    BY StateAssumption DEF Row
  <1>2. /\ a.asof > b.asof <=> DateOf[a.asof] > DateOf[b.asof]
        /\ b.asof > a.asof <=> DateOf[b.asof] > DateOf[a.asof]
    BY <1>1 DEF TextsSortAsDates
  <1>3. a.asof = b.asof <=> DateOf[a.asof] = DateOf[b.asof]
    BY <1>1, <1>2
  <1> QED BY <1>2, <1>3 DEF Later, Beats

\* Beats is a strict order, and two rows neither of which beats the other are
\* beaten by the same rows.
LEMMA BeatsOrders ==
    ASSUME NEW a \in Row, NEW b \in Row, NEW c \in Row
    PROVE  /\ ~Beats(a, a)
           /\ Beats(a, b) => ~Beats(b, a)
           /\ Beats(a, b) /\ ~Beats(c, b) => Beats(a, c)
  <1>1. /\ a.asof \in Nat /\ b.asof \in Nat /\ c.asof \in Nat
        /\ a.conf \in Nat /\ b.conf \in Nat /\ c.conf \in Nat
    BY StateAssumption DEF Row
  <1> QED BY <1>1 DEF Beats

\* max has something to return: a latest date, and the best grade on it.
LEMMA BestExists ==
    ASSUME FiniteSources, NEW keyRows \in KeyRows,
           NEW present \in Sources, keyRows[present] # NoRow
    PROVE  Best(keyRows) # {}
  <1> DEFINE There == {s \in Sources : keyRows[s] # NoRow}
             Dates == {keyRows[s].asof : s \in There}
  <1>1. \A s \in There : /\ keyRows[s] \in Row
                         /\ keyRows[s].asof \in Nat /\ keyRows[s].conf \in Nat
    BY StateAssumption DEF KeyRows, Row
  <1>2. \A U \in SUBSET There : IsFiniteSet(U)
    BY FS_Subset DEF FiniteSources
  <1>3. IsFiniteSet(Dates)
    <2>1. [s \in There |-> keyRows[s].asof] \in Surjection(There, Dates)
      BY DEF Surjection
    <2> QED BY <1>2, <2>1, FS_Surjection
  <1>4. PICK last \in Dates : \A d \in Dates : d <= last
    BY <1>1, <1>3, LargestExists
  <1> DEFINE Late == {r \in There : keyRows[r].asof = last}
             Grades == {keyRows[s].conf : s \in Late}
  <1>5. IsFiniteSet(Grades) /\ Grades # {}
    <2>1. [s \in Late |-> keyRows[s].conf] \in Surjection(Late, Grades)
      BY DEF Surjection
    <2>2. IsFiniteSet(Late)
      BY <1>2
    <2>3. Late # {}
      BY <1>4
    <2>4. IsFiniteSet(Grades)
      BY <2>1, <2>2, FS_Surjection
    <2>5. PICK r \in Late : TRUE
      BY <2>3
    <2>6. keyRows[r].conf \in Grades
      OBVIOUS
    <2> QED BY <2>4, <2>6
  <1>6. PICK top \in Grades : \A g \in Grades : g <= top
    BY <1>1, <1>5, LargestExists
  <1>7. PICK b \in There : keyRows[b].asof = last /\ keyRows[b].conf = top
    BY <1>6
  <1>8. ASSUME NEW r \in There PROVE ~Beats(keyRows[r], keyRows[b])
    <2>1. keyRows[r].asof <= last
      BY <1>4
    <2>2. keyRows[r].asof = last => keyRows[r].conf <= top
      BY <1>6
    <2>3. /\ keyRows[r].asof \in Nat /\ keyRows[r].conf \in Nat
          /\ last \in Nat /\ top \in Nat
      BY <1>1, <1>7
    <2> QED BY <2>1, <2>2, <2>3, <1>7 DEF Beats
  <1> QED BY <1>7, <1>8 DEF Best

LEMMA EntriesAgree ==
    ASSUME TextsSortAsDates, FiniteSources, NEW keyRows \in KeyRows, NEW entry \in Entries(keyRows)
    PROVE  Agrees(keyRows, entry) /\ entry \in Entry \cup {NoEntry}
  <1>1. CASE Best(keyRows) = {}
    <2>1. \A s \in Sources : keyRows[s] = NoRow
      BY <1>1, BestExists
    <2> QED BY <1>1, <2>1 DEF Entries, Agrees
  <1>2. CASE Best(keyRows) # {}
    <2>1. PICK b \in Best(keyRows) : entry = [source |-> b, row |-> keyRows[b]]
      BY <1>2 DEF Entries
    <2>2. b \in Sources /\ keyRows[b] # NoRow /\ keyRows[b] \in Row
      BY <2>1 DEF Best, KeyRows
    <2>3. entry \in Entry /\ entry # NoEntry
      BY <2>1, <2>2, StateAssumption DEF Entry
    <2>4. ASSUME NEW s \in Sources, keyRows[s] # NoRow
          PROVE  ~Later(keyRows[s], entry.row)
      <3>1. keyRows[s] \in Row /\ entry.row = keyRows[b]
        BY <2>1, <2>4 DEF KeyRows
      <3>2. ~Beats(keyRows[s], keyRows[b])
        BY <2>1, <2>4 DEF Best
      <3> QED BY <2>2, <3>1, <3>2, LaterIsBeats
    <2> QED BY <2>1, <2>2, <2>3, <2>4 DEF Agrees
  <1> QED BY <1>1, <1>2

\* The candidate takes the key, or is itself not later than the entry.
LEMMA EntriesWithAgree ==
    ASSUME TextsSortAsDates, FiniteSources, NEW keyRows \in KeyRows, NEW x \in State,
           keyRows[x.source] = NoRow, NEW entry \in EntriesWith(keyRows, x)
    PROVE  /\ Agrees([keyRows EXCEPT ![x.source] = x.row], entry)
           /\ entry \in Entry \cup {NoEntry}
  <1> DEFINE after == [keyRows EXCEPT ![x.source] = x.row]
  <1>1. x.source \in Sources /\ x.row \in Row /\ x.row # NoRow
    BY StateAssumption DEF State
  <1>2. /\ after[x.source] = x.row
        /\ \A s \in Sources : s # x.source => after[s] = keyRows[s]
        /\ \A s \in Sources : keyRows[s] # NoRow => keyRows[s] \in Row
    BY <1>1 DEF KeyRows
  <1> HIDE DEF after
  <1>3. CASE \A s \in Sources : keyRows[s] # NoRow => Beats(x.row, keyRows[s])
    <2>1. entry = [source |-> x.source, row |-> x.row]
      BY <1>3 DEF EntriesWith
    <2>2. entry \in Entry /\ entry # NoEntry
      BY <1>1, <2>1, StateAssumption DEF Entry
    <2>3. ASSUME NEW s \in Sources, after[s] # NoRow PROVE ~Later(after[s], x.row)
      <3>1. after[s] \in Row
        BY <1>1, <1>2, <2>3
      <3>2. ~Beats(after[s], x.row)
        BY <1>1, <1>2, <1>3, <2>3, <3>1, BeatsOrders
      <3> QED BY <1>1, <3>1, <3>2, LaterIsBeats
    <2> QED BY <1>1, <1>2, <2>1, <2>2, <2>3 DEF Agrees, after
  <1>4. CASE \E s \in Sources : keyRows[s] # NoRow /\ ~Beats(x.row, keyRows[s])
    <2>1. PICK s \in Sources : keyRows[s] # NoRow /\ ~Beats(x.row, keyRows[s])
      BY <1>4
    <2>2. entry \in Entries(keyRows)
      BY <1>4 DEF EntriesWith
    <2>3. Agrees(keyRows, entry) /\ entry \in Entry \cup {NoEntry}
      BY <2>2, EntriesAgree
    <2>4. /\ entry # NoEntry /\ keyRows[entry.source] = entry.row
          /\ \A r \in Sources : keyRows[r] # NoRow => ~Later(keyRows[r], entry.row)
      BY <2>1, <2>3 DEF Agrees
    <2>5. entry.row \in Row /\ entry.source \in Sources /\ entry.row # NoRow
      BY <2>3, <2>4, StateAssumption DEF Entry
    <2>6. ~Later(x.row, entry.row)
      <3>1. ~Beats(keyRows[s], entry.row)
        BY <1>2, <2>1, <2>4, <2>5, LaterIsBeats
      <3>2. Beats(x.row, entry.row) => Beats(x.row, keyRows[s])
        BY <1>1, <1>2, <2>1, <2>5, <3>1, BeatsOrders
      <3> QED BY <1>1, <2>1, <2>5, <3>2, LaterIsBeats
    <2>7. entry.source # x.source
      BY <2>4, <2>5
    <2>8. \A r \in Sources : after[r] # NoRow => ~Later(after[r], entry.row)
      BY <1>2, <2>4, <2>6
    <2> QED BY <1>1, <1>2, <2>3, <2>4, <2>5, <2>7, <2>8 DEF Agrees, after
  <1> QED BY <1>3, <1>4

\* An entity's rows once candidate x is recorded, if it is new.
After(loaded, x, new) ==
    IF new THEN [loaded EXCEPT ![CanonKey[x.key]][x.source] = x.row] ELSE loaded

RowsAgree(entityRows, entityMap) ==
    \A k \in Keys : Agrees(entityRows[k], entityMap[k])

\* A recomputed map is right for the rows there will be: the sibling keys are
\* taken from the rows loaded, the candidate's own with the candidate.
LEMMA MapsAgree ==
    ASSUME TextsSortAsDates, FiniteSources, NEW loaded \in EntityRows, NEW x \in State,
           NEW new \in BOOLEAN, new <=> loaded[CanonKey[x.key]][x.source] = NoRow,
           NEW m \in Maps(loaded, x, new)
    PROVE  m \in EntityMap /\ RowsAgree(After(loaded, x, new), m)
  <1> DEFINE c == CanonKey[x.key]
             choices == [k \in Keys |->
                IF new /\ k = c THEN EntriesWith(loaded[k], x) ELSE Entries(loaded[k])]
  <1>1. c \in Keys /\ x.source \in Sources /\ x.row \in Row
    BY StateAssumption DEF State
  <1>2. /\ m \in [Keys -> UNION {choices[k] : k \in Keys}]
        /\ \A k \in Keys : m[k] \in choices[k]
    <2>1. PICK g \in {choices} :
             m \in {f \in [Keys -> UNION {g[k] : k \in Keys}] : \A k \in Keys : f[k] \in g[k]}
      <3> HIDE DEF choices
      <3>1. m \in UNION {{f \in [Keys -> UNION {g[k] : k \in Keys}] :
                            \A k \in Keys : f[k] \in g[k]} : g \in {choices}}
        BY DEF Maps, choices
      <3> QED BY <3>1
    <2>2. g = choices
      OBVIOUS
    <2> QED BY <2>1, <2>2
  <1>3. ASSUME NEW k \in Keys
        PROVE  /\ m[k] \in Entry \cup {NoEntry}
               /\ Agrees(After(loaded, x, new)[k], m[k])
    <2>1. loaded[k] \in KeyRows
      BY DEF EntityRows, KeyRows
    <2>2. CASE new /\ k = c
      <3>1. m[k] \in EntriesWith(loaded[k], x) /\ loaded[k][x.source] = NoRow
        BY <1>2, <2>2
      <3>2. After(loaded, x, new)[k] = [loaded[k] EXCEPT ![x.source] = x.row]
        BY <1>1, <2>2 DEF After, EntityRows
      <3> QED BY <2>1, <3>1, <3>2, EntriesWithAgree
    <2>3. CASE ~(new /\ k = c)
      <3>1. m[k] \in Entries(loaded[k])
        BY <1>2, <2>3
      <3>2. After(loaded, x, new)[k] = loaded[k]
        BY <1>1, <2>3 DEF After, EntityRows
      <3> QED BY <2>1, <3>1, <3>2, EntriesAgree
    <2> QED BY <2>2, <2>3
  <1>4. m \in EntityMap
    BY <1>2, <1>3 DEF EntityMap
  <1> QED BY <1>3, <1>4 DEF RowsAgree

-----------------------------------------------------------------------------
(* The inductive invariant. *)

STypes ==
    /\ rows \in [Entities -> EntityRows]
    /\ map \in [Entities -> EntityMap]
    /\ phase \in [Writers -> {"idle", "load", "row", "map"}]
    /\ batch \in [Writers -> Seq(State)]
    /\ at \in [Writers -> Nat]
    /\ \A w \in Writers : phase[w] # "idle" => at[w] \in DOMAIN batch[w]
    /\ plan \in [Writers -> [create : BOOLEAN, map : EntityMap]]

\* What a process nobody has overtaken is about to do is right.
PlanFits(w) ==
    LET x == Current(w) e == x.entity
    IN  /\ phase[w] = "row" =>
              /\ plan[w].create <=> rows[e][CanonKey[x.key]][x.source] = NoRow
              /\ RowsAgree(After(rows[e], x, plan[w].create), plan[w].map)
        /\ phase[w] = "map" => RowsAgree(rows[e], plan[w].map)

Plans == \A w \in Writers : phase[w] \in {"row", "map"} /\ w \notin overtaken => PlanFits(w)

MapsFit == \A e \in Entities : RowsAgree(rows[e], map[e]) \/ e \in torn \cup raced

SInv == STypes /\ Plans /\ MapsFit

LEMMA CurrentIsState ==
    ASSUME STypes, NEW w \in Writers, phase[w] # "idle"
    PROVE  /\ Current(w) \in State /\ Current(w).entity \in Entities
           /\ CanonKey[Current(w).key] \in Keys /\ Current(w).source \in Sources
           /\ Current(w).row \in Row
  <1>1. batch[w] \in Seq(State) /\ at[w] \in DOMAIN batch[w]
    BY DEF STypes
  <1>2. batch[w][at[w]] \in State
    BY <1>1
  <1> QED BY <1>2, StateAssumption DEF Current, State

LEMMA CurrentMapIsAgree ==
    ASSUME NEW e \in Entities PROVE CurrentMap(e) <=> RowsAgree(rows[e], map[e])
  BY DEF CurrentMap, RowsAgree, Agrees

-----------------------------------------------------------------------------
(* One lemma per action that touches a row, a map or a plan. *)

\* Another process keeps what it is about to do while the rows of its entity
\* stay; it is overtaken when they do not.
LEMMA PlanKept ==
    ASSUME NEW w \in Writers, PlanFits(w),
           phase'[w] = phase[w], batch'[w] = batch[w], at'[w] = at[w],
           plan'[w] = plan[w], rows'[Current(w).entity] = rows[Current(w).entity]
    PROVE  PlanFits(w)'
  <1>1. Current(w)' = Current(w)
    BY DEF Current
  <1> QED BY <1>1 DEF PlanFits

LEMMA LoadKeeps ==
    ASSUME TextsSortAsDates, FiniteSources, SInv, NEW w \in Writers, Load(w)
    PROVE  SInv'
  <1> DEFINE x == Current(w)
             e == x.entity
             new == rows[e][CanonKey[x.key]][x.source] = NoRow
  <1>1. x \in State /\ e \in Entities /\ phase[w] = "load"
    BY CurrentIsState DEF SInv, Load
  <1>2. rows[e] \in EntityRows /\ new \in BOOLEAN
    BY <1>1 DEF SInv, STypes
  <1>3. PICK m \in Maps(rows[e], x, new) :
            plan' = [plan EXCEPT ![w] = [create |-> new, map |-> m]]
    BY DEF Load
  <1>4. m \in EntityMap /\ RowsAgree(After(rows[e], x, new), m)
    BY <1>1, <1>2, <1>3, MapsAgree
  <1>5. /\ phase' = [phase EXCEPT ![w] = "row"]
        /\ UNCHANGED <<rows, map, batch, at, torn, overtaken, raced>>
    BY DEF Load, storeVars, history
  <1>6. /\ STypes
        /\ plan'[w] = [create |-> new, map |-> m]
        /\ phase'[w] = "row"
        /\ \A v \in Writers : v # w => plan'[v] = plan[v] /\ phase'[v] = phase[v]
    BY <1>3, <1>5 DEF SInv, STypes
  <1>7. STypes'
    <2>1. plan' \in [Writers -> [create : BOOLEAN, map : EntityMap]]
      BY <1>2, <1>3, <1>4, <1>6 DEF STypes
    <2>2. \A v \in Writers : phase'[v] # "idle" => at'[v] \in DOMAIN batch'[v]
      BY <1>1, <1>5, <1>6 DEF STypes
    <2> QED BY <1>5, <2>1, <2>2 DEF SInv, STypes
  <1>8. Plans'
    <2> SUFFICES ASSUME NEW v \in Writers, phase'[v] \in {"row", "map"}, v \notin overtaken'
                 PROVE  PlanFits(v)'
      BY DEF Plans
    <2>1. CASE v = w
      <3>1. Current(w)' = x
        BY <1>5 DEF Current
      <3>2. plan'[w].create = new /\ plan'[w].map = m /\ rows' = rows
        BY <1>5, <1>6
      <3>3. RowsAgree(After(rows'[e], x, plan'[w].create), plan'[w].map)
        BY <1>4, <3>2
      <3>4. plan'[w].create <=> rows'[e][CanonKey[x.key]][x.source] = NoRow
        BY <3>2
      <3> QED BY <1>6, <2>1, <3>1, <3>3, <3>4 DEF PlanFits
    <2>2. CASE v # w
      <3>1. PlanFits(v)
        BY <1>5, <1>6, <2>2 DEF SInv, Plans
      <3> QED BY <1>5, <1>6, <2>2, <3>1, PlanKept
    <2> QED BY <2>1, <2>2
  <1>9. MapsFit'
    BY <1>5 DEF SInv, MapsFit
  <1> QED BY <1>7, <1>8, <1>9 DEF SInv

LEMMA CreateRowKeeps ==
    ASSUME SInv, NEW w \in Writers, CreateRow(w)
    PROVE  SInv'
  <1> DEFINE x == Current(w)
             e == x.entity
             k == CanonKey[x.key]
             missing == rows[e][k][x.source] = NoRow
  <1>1. /\ e \in Entities /\ k \in Keys /\ x.source \in Sources /\ x.row \in Row
        /\ phase[w] = "row"
    BY CurrentIsState DEF SInv, CreateRow
  <1>2. /\ phase' = [phase EXCEPT ![w] = "map"]
        /\ UNCHANGED <<map, batch, at, plan, raced>>
    BY DEF CreateRow
  <1>3. /\ STypes
        /\ phase'[w] = "map"
        /\ \A v \in Writers : v # w => phase'[v] = phase[v]
    BY <1>2 DEF SInv, STypes
  <1>4. Current(w)' = x
    BY <1>2 DEF Current
  <1>5. CASE plan[w].create /\ missing
    <2>1. /\ rows' = [rows EXCEPT ![e][k][x.source] = x.row]
          /\ torn' = torn \cup {e}
          /\ overtaken' = overtaken \cup
                {v \in Writers \ {w} : phase[v] \in {"row", "map"} /\ Current(v).entity = e}
      BY <1>5 DEF CreateRow, Recorded
    <2>2. /\ rows' \in [Entities -> EntityRows]
          /\ rows'[e] = [rows[e] EXCEPT ![k][x.source] = x.row]
          /\ \A f \in Entities : f # e => rows'[f] = rows[f]
      <3>1. rows \in [Entities -> EntityRows] /\ rows[e] \in EntityRows
        BY <1>1, <1>3 DEF STypes
      <3>2. [rows[e] EXCEPT ![k][x.source] = x.row] \in EntityRows
        BY <1>1, <3>1 DEF EntityRows
      <3> QED BY <1>1, <2>1, <3>1, <3>2
    <2>3. STypes'
      <3>1. phase' \in [Writers -> {"idle", "load", "row", "map"}]
        BY <1>2, <1>3 DEF STypes
      <3>2. \A v \in Writers : phase'[v] # "idle" => at'[v] \in DOMAIN batch'[v]
        BY <1>1, <1>2, <1>3 DEF STypes
      <3> QED BY <1>2, <1>3, <2>2, <3>1, <3>2 DEF STypes
    <2>4. Plans'
      <3> SUFFICES ASSUME NEW v \in Writers, phase'[v] \in {"row", "map"}, v \notin overtaken'
                   PROVE  PlanFits(v)'
        BY DEF Plans
      <3>1. CASE v = w
        <4>1. PlanFits(w)
          BY <1>1, <2>1, <3>1 DEF SInv, Plans
        <4>2. RowsAgree([rows[e] EXCEPT ![k][x.source] = x.row], plan[w].map)
          BY <1>1, <1>5, <4>1 DEF PlanFits, After
        <4> QED BY <1>2, <1>3, <1>4, <2>2, <3>1, <4>2 DEF PlanFits
      <3>2. CASE v # w
        <4>1. phase[v] \in {"row", "map"} /\ v \notin overtaken /\ Current(v).entity # e
          BY <1>3, <2>1, <3>2
        <4>2. Current(v).entity \in Entities
          BY <1>3, <4>1, CurrentIsState
        <4>3. PlanFits(v)
          BY <4>1 DEF SInv, Plans
        <4> QED BY <1>2, <1>3, <2>2, <3>2, <4>1, <4>2, <4>3, PlanKept
      <3> QED BY <3>1, <3>2
    <2>5. MapsFit'
      BY <1>2, <2>1, <2>2 DEF SInv, MapsFit
    <2> QED BY <2>3, <2>4, <2>5 DEF SInv
  <1>6. CASE ~(plan[w].create /\ missing)
    <2>1. UNCHANGED <<rows, torn, overtaken>>
      BY <1>6 DEF CreateRow
    <2>2. STypes'
      <3>1. phase' \in [Writers -> {"idle", "load", "row", "map"}]
        BY <1>2, <1>3 DEF STypes
      <3>2. \A v \in Writers : phase'[v] # "idle" => at'[v] \in DOMAIN batch'[v]
        BY <1>1, <1>2, <1>3 DEF STypes
      <3> QED BY <1>2, <1>3, <2>1, <3>1, <3>2 DEF STypes
    <2>3. Plans'
      <3> SUFFICES ASSUME NEW v \in Writers, phase'[v] \in {"row", "map"}, v \notin overtaken'
                   PROVE  PlanFits(v)'
        BY DEF Plans
      <3>1. CASE v = w
        <4>1. PlanFits(w)
          BY <1>1, <2>1, <3>1 DEF SInv, Plans
        <4>2. ~plan[w].create
          BY <1>1, <1>6, <4>1 DEF PlanFits
        <4>3. RowsAgree(rows[e], plan[w].map)
          BY <1>1, <4>1, <4>2 DEF PlanFits, After
        <4> QED BY <1>2, <1>3, <1>4, <2>1, <3>1, <4>3 DEF PlanFits
      <3>2. CASE v # w
        <4>1. PlanFits(v)
          BY <1>3, <2>1, <3>2 DEF SInv, Plans
        <4> QED BY <1>2, <1>3, <2>1, <3>2, <4>1, PlanKept
      <3> QED BY <3>1, <3>2
    <2>4. MapsFit'
      BY <1>2, <2>1 DEF SInv, MapsFit
    <2> QED BY <2>2, <2>3, <2>4 DEF SInv
  <1> QED BY <1>5, <1>6

LEMMA SetMapKeeps ==
    ASSUME SInv, NEW w \in Writers, SetMap(w)
    PROVE  SInv'
  <1> DEFINE x == Current(w)
             e == x.entity
  <1>1. e \in Entities /\ phase[w] = "map"
    BY CurrentIsState DEF SInv, SetMap
  <1>2. /\ map' = [map EXCEPT ![e] = plan[w].map]
        /\ torn' = torn \ {e}
        /\ raced' = IF w \in overtaken THEN raced \cup {e} ELSE raced \ {e}
        /\ plan' = [plan EXCEPT ![w] = NoPlan]
        /\ overtaken' = overtaken \ {w}
        /\ UNCHANGED rows
    BY DEF SetMap, Derived
  <1>3. /\ STypes /\ batch[w] \in Seq(State) /\ at[w] \in DOMAIN batch[w] /\ at[w] \in Nat
    BY <1>1 DEF SInv, STypes
  <1>4. /\ phase' \in [Writers -> {"idle", "load", "row", "map"}]
        /\ batch' \in [Writers -> Seq(State)]
        /\ at' \in [Writers -> Nat]
        /\ phase'[w] \in {"idle", "load"}
        /\ phase'[w] # "idle" => at'[w] \in DOMAIN batch'[w]
        /\ \A v \in Writers : v # w =>
              phase'[v] = phase[v] /\ batch'[v] = batch[v] /\ at'[v] = at[v]
    <2>1. CASE at[w] < Len(batch[w])
      <3>1. /\ at' = [at EXCEPT ![w] = @ + 1]
            /\ phase' = [phase EXCEPT ![w] = "load"]
            /\ UNCHANGED batch
        BY <2>1 DEF SetMap
      <3>2. at[w] + 1 \in DOMAIN batch[w]
        BY <1>3, <2>1
      <3> QED BY <1>3, <3>1, <3>2 DEF STypes
    <2>2. CASE ~(at[w] < Len(batch[w]))
      <3>1. /\ phase' = [phase EXCEPT ![w] = "idle"]
            /\ batch' = [batch EXCEPT ![w] = <<>>]
            /\ at' = [at EXCEPT ![w] = 1]
        BY <2>2 DEF SetMap, Idle
      <3> QED BY <1>3, <3>1 DEF STypes
    <2> QED BY <2>1, <2>2
  <1>5. NoPlan \in [create : BOOLEAN, map : EntityMap] /\ plan[w].map \in EntityMap
    BY <1>3 DEF NoPlan, NoMap, EntityMap, STypes
  <1>6. STypes'
    <2>1. map' \in [Entities -> EntityMap]
      BY <1>2, <1>3, <1>5 DEF STypes
    <2>2. plan' \in [Writers -> [create : BOOLEAN, map : EntityMap]]
      BY <1>2, <1>3, <1>5 DEF STypes
    <2>3. \A v \in Writers : phase'[v] # "idle" => at'[v] \in DOMAIN batch'[v]
      BY <1>3, <1>4 DEF STypes
    <2> QED BY <1>2, <1>3, <1>4, <2>1, <2>2, <2>3 DEF STypes
  <1>7. Plans'
    <2> SUFFICES ASSUME NEW v \in Writers, phase'[v] \in {"row", "map"}, v \notin overtaken'
                 PROVE  PlanFits(v)'
      BY DEF Plans
    <2>1. v # w
      BY <1>4
    <2>2. PlanFits(v)
      BY <1>2, <1>4, <2>1 DEF SInv, Plans
    <2>3. plan'[v] = plan[v]
      BY <1>2, <1>3, <2>1 DEF STypes
    <2> QED BY <1>2, <1>4, <2>1, <2>2, <2>3, PlanKept
  <1>8. MapsFit'
    <2> SUFFICES ASSUME NEW f \in Entities, f \notin torn', f \notin raced'
                 PROVE  RowsAgree(rows'[f], map'[f])
      BY DEF MapsFit
    <2>1. CASE f = e
      <3>1. w \notin overtaken
        BY <1>2, <2>1
      <3>2. RowsAgree(rows[e], plan[w].map)
        BY <1>1, <3>1 DEF SInv, Plans, PlanFits
      <3>3. map'[e] = plan[w].map
        BY <1>1, <1>2, <1>3 DEF STypes
      <3> QED BY <1>2, <2>1, <3>2, <3>3
    <2>2. CASE f # e
      <3>1. map'[f] = map[f] /\ f \notin torn /\ f \notin raced
        BY <1>2, <1>3, <2>2 DEF STypes
      <3> QED BY <1>2, <3>1 DEF SInv, MapsFit
    <2> QED BY <2>1, <2>2
  <1> QED BY <1>6, <1>7, <1>8 DEF SInv

-----------------------------------------------------------------------------
(* The theorem. *)

LEMMA SInvInitially == Init => SInv
  <1> SUFFICES ASSUME Init PROVE SInv
    OBVIOUS
  <1>1. NoMap \in EntityMap /\ NoRows \in EntityRows
    BY DEF NoMap, NoRows, EntityMap, EntityRows
  <1>2. STypes
    BY <1>1 DEF Init, STypes, NoPlan
  <1>3. Plans
    BY DEF Init, Plans
  <1>4. RowsAgree(NoRows, NoMap)
    BY DEF RowsAgree, Agrees, NoRows, NoMap
  <1>5. MapsFit
    BY <1>4 DEF Init, MapsFit
  <1> QED BY <1>2, <1>3, <1>5 DEF SInv

LEMMA OthersKeep ==
    ASSUME SInv, NEW w \in Writers, Crash(w) \/ (\E b \in Batches : Begin(w, b))
    PROVE  SInv'
  <1>1. /\ UNCHANGED <<rows, map, torn, raced>>
        /\ \A v \in Writers : v # w /\ v \notin overtaken' => v \notin overtaken
        /\ STypes
    BY DEF Crash, Begin, storeVars, history, SInv
  <1>2. /\ STypes'
        /\ phase'[w] \in {"idle", "load"}
        /\ \A v \in Writers : v # w => /\ phase'[v] = phase[v] /\ batch'[v] = batch[v]
                                       /\ at'[v] = at[v] /\ plan'[v] = plan[v]
    <2>1. CASE Crash(w)
      <3>1. NoPlan \in [create : BOOLEAN, map : EntityMap]
        BY DEF NoPlan, NoMap, EntityMap
      <3>2. /\ phase' = [phase EXCEPT ![w] = "idle"]
            /\ batch' = [batch EXCEPT ![w] = <<>>]
            /\ at' = [at EXCEPT ![w] = 1]
            /\ plan' = [plan EXCEPT ![w] = NoPlan]
        BY <2>1 DEF Crash, Idle
      <3> QED BY <1>1, <3>1, <3>2 DEF STypes
    <2>2. CASE \E b \in Batches : Begin(w, b)
      <3>1. PICK b \in Batches : Begin(w, b)
        BY <2>2
      <3>2. b \in Seq(State) /\ b # <<>> /\ 1 \in DOMAIN b
        BY <3>1, StateAssumption DEF Begin
      <3>3. /\ phase' = [phase EXCEPT ![w] = "load"]
            /\ batch' = [batch EXCEPT ![w] = b]
            /\ at' = [at EXCEPT ![w] = 1]
            /\ UNCHANGED plan
        BY <3>1 DEF Begin
      <3> QED BY <1>1, <3>2, <3>3 DEF STypes
    <2> QED BY <2>1, <2>2
  <1>3. Plans'
    <2> SUFFICES ASSUME NEW v \in Writers, phase'[v] \in {"row", "map"}, v \notin overtaken'
                 PROVE  PlanFits(v)'
      BY DEF Plans
    <2>1. v # w
      BY <1>2
    <2>2. PlanFits(v)
      BY <1>1, <1>2, <2>1 DEF SInv, Plans
    <2> QED BY <1>1, <1>2, <2>1, <2>2, PlanKept
  <1>4. MapsFit'
    BY <1>1 DEF SInv, MapsFit
  <1> QED BY <1>2, <1>3, <1>4 DEF SInv

LEMMA SInvIsKept ==
    ASSUME TextsSortAsDates, FiniteSources
    PROVE  SInv /\ [Next]_vars => SInv'
  <1> SUFFICES ASSUME SInv, [Next]_vars PROVE SInv'
    OBVIOUS
  <1>1. CASE Next
    <2>1. PICK w \in Writers :
             \/ \E b \in Batches : Begin(w, b)
             \/ Work(w)
             \/ Crash(w)
      BY <1>1 DEF Next
    <2>2. CASE Load(w)
      BY <2>2, LoadKeeps
    <2>3. CASE CreateRow(w)
      BY <2>3, CreateRowKeeps
    <2>4. CASE SetMap(w)
      BY <2>4, SetMapKeeps
    <2>5. CASE Crash(w) \/ (\E b \in Batches : Begin(w, b))
      BY <2>5, OthersKeep
    <2> QED BY <2>1, <2>2, <2>3, <2>4, <2>5 DEF Work
  <1>2. CASE UNCHANGED vars
    <2>1. /\ UNCHANGED <<rows, map, phase, batch, at, plan, torn, overtaken, raced>>
          /\ STypes
      BY <1>2 DEF vars, storeVars, history, SInv
    <2>2. STypes'
      BY <2>1 DEF STypes
    <2>3. Plans'
      <3> SUFFICES ASSUME NEW v \in Writers, phase'[v] \in {"row", "map"}, v \notin overtaken'
                   PROVE  PlanFits(v)'
        BY DEF Plans
      <3>1. PlanFits(v)
        BY <2>1 DEF SInv, Plans
      <3> QED BY <2>1, <3>1, PlanKept
    <2>4. MapsFit'
      BY <2>1 DEF SInv, MapsFit
    <2> QED BY <2>2, <2>3, <2>4 DEF SInv
  <1> QED BY <1>1, <1>2

\* ADR-0007's derived map, for any number of processes, entities, keys and
\* deaths: a map is what upsert_state_event would derive from the rows, sibling
\* keys included, unless a death has left it behind or its writer was
\* overtaken.  As_of texts are assumed to sort as the dates they denote.
THEOREM MapsAreDerived ==
    ASSUME TextsSortAsDates, FiniteSources
    PROVE  Spec => []MapsDerived
  <1>1. Init => SInv
    BY SInvInitially
  <1>2. SInv /\ [Next]_vars => SInv'
    BY SInvIsKept
  <1>3. SInv => MapsDerived
    BY CurrentMapIsAgree DEF SInv, MapsFit, MapsDerived
  <1> QED BY <1>1, <1>2, <1>3, PTL DEF Spec

-----------------------------------------------------------------------------
(* A map only advances: a re-ingest, a death and a tie never cost an entry. *)

\* An entry is a stored row still, for rows are never changed; also where the
\* map has fallen behind the rows created since.
Backed ==
    \A e \in Entities \ raced, k \in Keys :
        map[e][k] # NoEntry => rows[e][k][map[e][k].source] = map[e][k].row

LEMMA BackedInitially == Init => Backed
  BY DEF Init, Backed, NoMap

\* The rows a process adds were missing, and an entry rests on none of those.
LEMMA CreateRowBacks ==
    ASSUME STypes, Backed, NEW w \in Writers, CreateRow(w)
    PROVE  Backed'
  <1> DEFINE x == Current(w)
             c == CanonKey[x.key]
  <1>1. /\ x.entity \in Entities /\ c \in Keys /\ x.source \in Sources
        /\ map' = map /\ raced' = raced
    BY CurrentIsState DEF CreateRow
  <1>2. \/ rows' = rows
        \/ /\ rows[x.entity][c][x.source] = NoRow
           /\ rows' = [rows EXCEPT ![x.entity][c][x.source] = x.row]
    BY DEF CreateRow
  <1>3. ASSUME NEW e \in Entities, NEW k \in Keys, NEW s \in Sources,
               rows[e][k][s] # NoRow
        PROVE  rows'[e][k][s] = rows[e][k][s]
    <2>1. rows \in [Entities -> [Keys -> [Sources -> Row \cup {NoRow}]]]
      BY DEF STypes, EntityRows
    <2>2. ASSUME rows[x.entity][c][x.source] = NoRow,
                 rows' = [rows EXCEPT ![x.entity][c][x.source] = x.row]
          PROVE  rows'[e][k][s] = rows[e][k][s]
      <3> HIDE DEF x, c
      <3>1. CASE e = x.entity /\ k = c
        <4>1. s # x.source
          BY <1>3, <2>2, <3>1
        <4> QED BY <1>1, <2>1, <2>2, <3>1, <4>1
      <3>2. CASE e # x.entity \/ k # c
        BY <1>1, <2>1, <2>2, <3>2
      <3> QED BY <3>1, <3>2
    <2> QED BY <1>2, <2>2
  <1> SUFFICES ASSUME NEW e \in Entities \ raced, NEW k \in Keys, map[e][k] # NoEntry
               PROVE  rows'[e][k][map[e][k].source] = map[e][k].row
    BY <1>1 DEF Backed
  <1>4. map[e][k] \in Entry
    BY DEF STypes, EntityMap
  <1>5. /\ map[e][k].source \in Sources /\ map[e][k].row # NoRow
        /\ rows[e][k][map[e][k].source] = map[e][k].row
    BY <1>4, StateAssumption DEF Entry, Backed
  <1> QED BY <1>3, <1>5

\* What a process that sets a map writes, and whom it excepts.
LEMMA SetMapSets ==
    ASSUME SInv, NEW w \in Writers, SetMap(w), NEW e \in Entities, e \notin raced'
    PROVE  \/ map'[e] = map[e] /\ e \notin raced
           \/ map'[e] \in EntityMap /\ RowsAgree(rows[e], map'[e])
  <1>1. /\ phase[w] = "map" /\ Current(w).entity \in Entities
        /\ map' = [map EXCEPT ![Current(w).entity] = plan[w].map]
        /\ raced' = IF w \in overtaken THEN raced \cup {Current(w).entity}
                    ELSE raced \ {Current(w).entity}
    BY CurrentIsState DEF SetMap, Derived, SInv
  <1>2. map \in [Entities -> EntityMap] /\ plan[w].map \in EntityMap
    BY DEF SInv, STypes
  <1>3. CASE Current(w).entity = e
    <2>1. w \notin overtaken
      BY <1>1, <1>3
    <2>2. RowsAgree(rows[e], plan[w].map)
      BY <1>1, <1>3, <2>1 DEF SInv, Plans, PlanFits
    <2> QED BY <1>1, <1>2, <1>3, <2>2
  <1>4. CASE Current(w).entity # e
    BY <1>1, <1>2, <1>4
  <1> QED BY <1>3, <1>4

LEMMA BackedIsKept == SInv /\ Backed /\ [Next]_vars => Backed'
  <1> SUFFICES ASSUME SInv, Backed, [Next]_vars PROVE Backed'
    OBVIOUS
  <1>1. ASSUME NEW w \in Writers, CreateRow(w) PROVE Backed'
    BY <1>1, CreateRowBacks DEF SInv
  <1>2. ASSUME NEW w \in Writers, SetMap(w) PROVE Backed'
    <2> SUFFICES ASSUME NEW e \in Entities, e \notin raced', NEW k \in Keys,
                        map'[e][k] # NoEntry
                 PROVE  rows'[e][k][map'[e][k].source] = map'[e][k].row
      BY DEF Backed
    <2>1. rows' = rows
      BY <1>2 DEF SetMap
    <2>2. CASE map'[e] = map[e] /\ e \notin raced
      BY <2>1, <2>2 DEF Backed
    <2>3. CASE map'[e] \in EntityMap /\ RowsAgree(rows[e], map'[e])
      <3>1. map'[e][k] \in Entry /\ Agrees(rows[e][k], map'[e][k])
        BY <2>3 DEF EntityMap, RowsAgree
      <3> QED BY <2>1, <3>1 DEF Agrees
    <2> QED BY <1>2, <2>2, <2>3, SetMapSets
  <1>3. CASE UNCHANGED <<rows, map, raced>>
    BY <1>3 DEF Backed
  <1>4. \/ UNCHANGED <<rows, map, raced>>
        \/ \E w \in Writers : CreateRow(w) \/ SetMap(w)
    BY DEF Next, Work, Begin, Load, Crash, vars, storeVars, history
  <1> QED BY <1>1, <1>2, <1>3, <1>4

\* A map that is set is set to the best of rows its entries are among.
LEMMA StepAdvances ==
    ASSUME SInv, Backed, [Next]_vars, NEW e \in Entities, e \notin raced \cup raced',
           NEW k \in Keys, map[e][k] \notin {NoEntry, map'[e][k]}
    PROVE  /\ map'[e][k] # NoEntry /\ ~Later(map[e][k].row, map'[e][k].row)
           /\ CurrentMap(e) => ~Later(map'[e][k].row, map[e][k].row)
  <1>1. PICK w \in Writers : SetMap(w)
    BY DEF Next, Work, Begin, Load, CreateRow, Crash, vars, storeVars
  <1>2. map'[e] \in EntityMap /\ Agrees(rows[e][k], map'[e][k])
    BY <1>1, SetMapSets DEF RowsAgree
  <1>3. /\ map[e][k] \in Entry /\ map[e][k].source \in Sources
        /\ rows[e][k][map[e][k].source] = map[e][k].row /\ map[e][k].row # NoRow
    BY StateAssumption DEF SInv, STypes, EntityMap, Entry, Backed
  <1>4. /\ map'[e][k] # NoEntry
        /\ rows[e][k][map'[e][k].source] = map'[e][k].row
        /\ \A s \in Sources : rows[e][k][s] # NoRow => ~Later(rows[e][k][s], map'[e][k].row)
    BY <1>2, <1>3 DEF Agrees
  <1>5. map'[e][k].source \in Sources /\ map'[e][k].row # NoRow
    BY <1>2, <1>4, StateAssumption DEF EntityMap, Entry
  <1>6. CurrentMap(e) => ~Later(map'[e][k].row, map[e][k].row)
    BY <1>3, <1>4, <1>5 DEF CurrentMap
  <1> QED BY <1>3, <1>4, <1>6

\* "Re-ingesting the same document is a no-op" (ADR-0007) as far as the code
\* keeps it, for any number of processes and deaths: no entry of a map goes away
\* or gives way to a row that is less late or less sure, and in a map that is
\* current one gives way only to a row it ties with.  Ties are not assumed away.
THEOREM MapsOnlyAdvance ==
    ASSUME TextsSortAsDates, FiniteSources
    PROVE  Spec => MapOnlyAdvances
  <1>1. Init => SInv /\ Backed
    BY SInvInitially, BackedInitially
  <1>2. SInv /\ Backed /\ [Next]_vars => (SInv /\ Backed)'
    BY SInvIsKept, BackedIsKept
  <1>3. SInv /\ Backed /\ [Next]_vars =>
          [\A e \in Entities \ (raced \cup raced'), k \in Keys :
              LET old == map[e][k]
                  new == map'[e][k]
              IN  old \notin {NoEntry, new} =>
                    /\ new # NoEntry /\ ~Later(old.row, new.row)
                    /\ CurrentMap(e) => ~Later(new.row, old.row)]_vars
    BY StepAdvances
  <1> QED BY <1>1, <1>2, <1>3, PTL DEF Spec, MapOnlyAdvances
=============================================================================
