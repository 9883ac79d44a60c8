---------------------------- MODULE RegistryProofs ----------------------------
(***************************************************************************)
(* Canonicalization is idempotent under every valid registry, of any size: *)
(* the assumption pg normalize-relations (module Normalization) rests on.  *)
(* And over the life of the two files: whatever scans stage and humans     *)
(* edit, promote and release, what the file in force means is kept.        *)
(***************************************************************************)
EXTENDS RegistryLifecycle, DataLemmas, TLAPS

\* The winner among the declarers of an inverse, the last in the file.
LEMMA LastDeclarer ==
    ASSUME NEW d \in Docs, NEW x, Declarers(d, x) # {}
    PROVE  (CHOOSE i \in Declarers(d, x) : \A j \in Declarers(d, x) : j <= i)
              \in Declarers(d, x)
  <1> DEFINE I == Declarers(d, x)
  <1>1. I \in SUBSET (1 .. Len(Order(d))) /\ Len(Order(d)) \in Nat
    <2>1. Order(d) \in Seq(Names)
      BY DEF Order, Docs
    <2>2. DOMAIN Order(d) = 1 .. Len(Order(d)) /\ Len(Order(d)) \in Nat
      BY <2>1
    <2> QED BY <2>2 DEF Declarers
  <1> HIDE DEF I
  <1>2. IsFiniteSet(1 .. Len(Order(d)))
    BY <1>1, FS_Interval
  <1>3. IsFiniteSet(I)
    BY <1>1, <1>2, FS_Subset
  <1>4. I \in SUBSET Nat /\ I # {}
    BY <1>1 DEF I
  <1>5. \E i \in I : \A j \in I : j <= i
    BY <1>3, <1>4, LargestExists
  <1> QED BY <1>5 DEF I

\* It declares the inverse.
LEMMA FlipToDeclares ==
    ASSUME NEW d \in Docs, NEW x, Declarers(d, x) # {}
    PROVE  FlipTo(d, x) \in Labels(d) /\ d.inverse[FlipTo(d, x)] = x
  BY LastDeclarer DEF FlipTo, Declarers, Labels

\* A canonical label is no alias: it stands for itself.
LEMMA LabelsStandForThemselves ==
    ASSUME NEW d \in Docs, Valid(d), NEW n \in Labels(d)
    PROVE  CanonicalFor(d, n) = n
  <1>1. Owners(d, n) = {}
    BY DEF Owners, Valid, NamespaceValid
  <1> QED BY <1>1 DEF CanonicalFor

\* The verb a spelling is brought to is brought to itself, and not flipped:
\* an alias leads to a label, an inverse to a label that is nobody's inverse,
\* because validation forbids chains.
LEMMA MeaningIsFinal ==
    ASSUME NEW d \in Docs, Valid(d), NEW x \in Names
    PROVE  LET v == Meaning(d, x).verb IN Meaning(d, v) = [verb |-> v, flip |-> FALSE]
  <1> DEFINE c == CanonicalFor(d, x)
             v == Meaning(d, x).verb
  <1>1. CanonicalFor(d, c) = c
    <2>1. CASE Owners(d, x) = {}
      BY <2>1 DEF CanonicalFor
    <2>2. CASE Owners(d, x) # {}
      <3>1. c \in Owners(d, x)
        BY <2>2 DEF CanonicalFor
      <3>2. c \in Labels(d)
        BY <3>1 DEF Owners
      <3> QED BY <3>2, LabelsStandForThemselves
    <2> QED BY <2>1, <2>2
  <1>2. CASE Declarers(d, c) = {}
    <2>1. v = c
      BY <1>2 DEF Meaning
    <2> QED BY <1>1, <1>2, <2>1 DEF Meaning
  <1>3. CASE Declarers(d, c) # {}
    <2>1. v = FlipTo(d, c)
      BY <1>3 DEF Meaning
    <2>2. v \in Labels(d) /\ d.inverse[v] = c
      BY <1>3, <2>1, FlipToDeclares
    <2>3. c # NoInverse
      <3>1. CASE Owners(d, x) = {}
        BY <3>1, RegistryAssumption DEF CanonicalFor
      <3>2. CASE Owners(d, x) # {}
        <4>1. c \in Labels(d)
          BY <3>2 DEF CanonicalFor, Owners
        <4>2. Labels(d) \subseteq Names
          BY DEF Labels, Order, Docs
        <4> QED BY <4>1, <4>2, RegistryAssumption
      <3> QED BY <3>1, <3>2
    <2>4. CanonicalFor(d, v) = v
      BY <2>2, LabelsStandForThemselves
    <2>5. Declarers(d, v) = {}
      <3>1. SUFFICES ASSUME NEW i \in Declarers(d, v) PROVE FALSE
        OBVIOUS
      <3>2. Order(d)[i] \in Labels(d) /\ d.inverse[Order(d)[i]] = v
        BY <3>1 DEF Declarers, Labels
      <3>3. v # NoInverse
        <4>1. Labels(d) \subseteq Names
          BY DEF Labels, Order, Docs
        <4> QED BY <2>2, <4>1, RegistryAssumption
      <3>4. d.inverse[v] = NoInverse
        BY <3>2, <3>3 DEF Valid, NamespaceValid
      <3> QED BY <2>2, <2>3, <3>4
    <2> QED BY <2>4, <2>5 DEF Meaning
  <1> QED BY <1>2, <1>3

\* label_registry.py, normalization.py "a second run is an empty plan": one
\* canonicalization of any triple is final, whichever valid file is loaded.
THEOREM CanonicalizeIdempotent ==
    ASSUME NEW d \in Docs, Valid(d), NEW s, NEW x \in Names, NEW o
    PROVE  LET t == Canonicalize(d, s, x, o)
           IN  Canonicalize(d, t[1], t[2], t[3]) = t
  <1> DEFINE v == Meaning(d, x).verb
             t == Canonicalize(d, s, x, o)
  <1>1. Meaning(d, v) = [verb |-> v, flip |-> FALSE]
    BY MeaningIsFinal
  <1>2. Meaning(d, v).verb = v /\ Meaning(d, v).flip = FALSE
    BY <1>1
  <1>3. t[2] = v
    BY DEF Canonicalize
  <1>4. Canonicalize(d, t[1], v, t[3]) = <<t[1], v, t[3]>>
    BY <1>2 DEF Canonicalize
  <1>5. t = <<t[1], t[2], t[3]>>
    BY DEF Canonicalize
  <1> QED BY <1>3, <1>4, <1>5

-----------------------------------------------------------------------------
(* Documents *)

\* All that validation asks, but for what scan.py stages regardless: a name
\* that is no label, and entries beside a missing section.
ReadsBack(d) ==
    /\ d.labels # <<>> /\ Distinct(d) /\ NamespaceValid(d)
    /\ Section(d) \cap BadNames = {}
    /\ \A n \in Labels(d) :
          d.aliases[n] \cap BadNames = {} /\ n \notin d.aliases[n] /\ d.inverse[n] # n

Sound(d) == d \in Docs /\ ReadsBack(d) /\ EntriesInPlace(d)

LEMMA DocTypes ==
    ASSUME NEW d \in Docs
    PROVE  /\ d.labels \in Seq(Names) /\ d.staged \in Seq(Names)
           /\ Order(d) \in Seq(Names)
           /\ Labels(d) = Section(d) \cup ToSet(d.staged)
           /\ Labels(d) \subseteq Names /\ IsFiniteSet(Labels(d))
           /\ Section(d) \subseteq Names
  <1>1. d.labels \in Seq(Names) /\ d.staged \in Seq(Names) /\ Order(d) \in Seq(Names)
    BY DEF Docs, Order
  <1>2. ToSet(Order(d)) = ToSet(d.labels) \cup ToSet(d.staged)
    BY <1>1, ToSetConcat DEF Order
  <1>3. Labels(d) = ToSet(Order(d))
    BY DEF Labels, ToSet
  <1> QED BY <1>1, <1>2, <1>3, ToSetFinite DEF Section

\* Two lists one after the other name nothing twice if neither does and they
\* have nothing in common.
LEMMA DistinctConcat ==
    ASSUME NEW s \in Seq(Names), NEW t \in Seq(Names)
    PROVE  IsInjective(s \o t) <=> /\ IsInjective(s) /\ IsInjective(t)
                                   /\ ToSet(s) \cap ToSet(t) = {}
  <1>1. /\ Len(s) \in Nat /\ DOMAIN s = 1 .. Len(s)
        /\ Len(t) \in Nat /\ DOMAIN t = 1 .. Len(t)
        /\ DOMAIN (s \o t) = 1 .. Len(s) + Len(t)
        /\ \A i \in 1 .. Len(s) : (s \o t)[i] = s[i]
        /\ \A i \in 1 .. Len(s) + Len(t) : i > Len(s) => (s \o t)[i] = t[i - Len(s)]
    BY ConcatParts
  <1> DEFINE u == s \o t
             m == Len(s)
             n == Len(t)
  <1> HIDE DEF u, m, n
  <1>2. /\ m \in Nat /\ DOMAIN s = 1 .. m /\ n \in Nat /\ DOMAIN t = 1 .. n
        /\ DOMAIN u = 1 .. m + n /\ \A i \in 1 .. m : u[i] = s[i]
        /\ \A i \in 1 .. m + n : i > m => u[i] = t[i - m]
    BY <1>1 DEF u, m, n
  <1>3. \A k \in 1 .. n : m + k \in DOMAIN u /\ u[m + k] = t[k]
    BY <1>2
  <1>4. ASSUME \A i, j \in DOMAIN u : u[i] = u[j] => i = j
        PROVE  /\ \A i, j \in DOMAIN s : s[i] = s[j] => i = j
               /\ \A i, j \in DOMAIN t : t[i] = t[j] => i = j
               /\ ToSet(s) \cap ToSet(t) = {}
    <2>1. \A i, j \in DOMAIN s : s[i] = s[j] => i = j
      BY <1>2, <1>4
    <2>2. ASSUME NEW i \in DOMAIN t, NEW j \in DOMAIN t, t[i] = t[j] PROVE i = j
      <3>1. m + i = m + j
        BY <1>2, <1>3, <1>4, <2>2
      <3> QED BY <1>2, <3>1
    <2>3. ASSUME NEW i \in DOMAIN s, NEW j \in DOMAIN t, s[i] = t[j] PROVE FALSE
      <3>1. i \in DOMAIN u /\ u[i] = u[m + j] /\ m + j \in DOMAIN u
        BY <1>2, <1>3, <2>3
      <3>2. i = m + j
        BY <1>4, <3>1
      <3> QED BY <1>2, <3>2
    <2> QED BY <2>1, <2>2, <2>3 DEF ToSet
  <1>5. ASSUME /\ \A i, j \in DOMAIN s : s[i] = s[j] => i = j
               /\ \A i, j \in DOMAIN t : t[i] = t[j] => i = j
               /\ ToSet(s) \cap ToSet(t) = {},
               NEW i \in DOMAIN u, NEW j \in DOMAIN u, u[i] = u[j]
        PROVE  i = j
    <2>1. \A k \in DOMAIN s, l \in DOMAIN t : s[k] # t[l]
      BY <1>5 DEF ToSet
    <2>2. CASE i <= m /\ j <= m
      BY <1>2, <1>5, <2>2
    <2>3. CASE i > m /\ j > m
      <3>1. i - m \in DOMAIN t /\ j - m \in DOMAIN t /\ t[i - m] = t[j - m]
        BY <1>2, <1>5, <2>3
      <3>2. i - m = j - m
        BY <1>5, <3>1
      <3> QED BY <1>2, <3>2
    <2>4. CASE i <= m /\ j > m
      <3>1. i \in DOMAIN s /\ j - m \in DOMAIN t /\ s[i] = t[j - m]
        BY <1>2, <1>5, <2>4
      <3> QED BY <2>1, <3>1
    <2>5. CASE i > m /\ j <= m
      <3>1. j \in DOMAIN s /\ i - m \in DOMAIN t /\ s[j] = t[i - m]
        BY <1>2, <1>5, <2>5
      <3> QED BY <2>1, <3>1
    <2> QED BY <1>2, <2>2, <2>3, <2>4, <2>5
  <1> QED BY <1>4, <1>5 DEF u, IsInjective

\* A document that reads back is valid but for what scans stage regardless.
LEMMA SoundLoads ==
    ASSUME NEW d, Sound(d), d.stray = {}, Labels(d) \cap BadNames = {}
    PROVE  Valid(d)
  BY DEF Sound, ReadsBack, Valid, EntriesValid

LEMMA ValidIsSound ==
    ASSUME NEW d \in Docs, Valid(d), EntriesInPlace(d)
    PROVE  Sound(d)
  <1>1. Section(d) \subseteq Labels(d)
    BY DocTypes
  <1> QED BY <1>1 DEF Sound, ReadsBack, Valid, EntriesValid

-----------------------------------------------------------------------------
(* Staging *)

\* The same document, but for a longer staged list.
Extends(d, e) ==
    /\ e.labels = d.labels /\ e.aliases = d.aliases /\ e.inverse = d.inverse
    /\ Labels(d) \subseteq Labels(e)

\* What a scan appends is sound, if the names that are new are no alias.
LEMMA AppendedIsSound ==
    ASSUME Sound(working), NEW verbs \in SUBSET Names, IsFiniteSet(verbs),
           \A n \in Labels(working) : working.aliases[n] \cap verbs = {}
    PROVE  Sound(Appended(verbs)) /\ Extends(working, Appended(verbs))
  <1> DEFINE new == SetToSeq(Fresh(verbs))
             d == [working EXCEPT !.staged = new \o @]
             e == [working EXCEPT !.sectioned = TRUE, !.stray = @ \cup Fresh(verbs)]
  <1>0. working \in Docs
    BY DEF Sound
  <1>1. CASE Fresh(verbs) = {}
    BY <1>1 DEF Appended, Extends
  <1>2. CASE Fresh(verbs) # {} /\ working.sectioned
    <2>1. IsFiniteSet(Fresh(verbs)) /\ Fresh(verbs) \subseteq Names
      BY FS_Subset DEF Fresh
    <2>2. /\ new \in Seq(Names) /\ ToSet(new) = Fresh(verbs)
          /\ IsInjective(new)
      <3>1. new \in Seq(Fresh(verbs))
        BY <2>1, SetToSeqMembers
      <3>2. new \in Seq(Names)
        BY <2>1, <3>1
      <3> QED BY <2>1, <3>2, SetToSeqMembers DEF IsInjective
    <2>3. /\ working.labels \in Seq(Names) /\ working.staged \in Seq(Names)
          /\ Labels(working) = Section(working) \cup ToSet(working.staged)
      BY <1>0, DocTypes
    <2> HIDE DEF new
    <2>30. new \o working.staged \in Seq(Names)
      BY <2>2, <2>3
    <2>4. /\ d \in Docs /\ d.labels = working.labels /\ d.aliases = working.aliases
          /\ d.inverse = working.inverse /\ d.staged = new \o working.staged
      BY <1>0, <2>30 DEF Docs
    <2> HIDE DEF d
    <2>5. Labels(d) = Labels(working) \cup Fresh(verbs) /\ Section(d) = Section(working)
      <3>1. ToSet(d.staged) = Fresh(verbs) \cup ToSet(working.staged)
        BY <2>2, <2>3, <2>4, ToSetConcat
      <3>2. Section(d) = Section(working)
        BY <2>4 DEF Section
      <3> QED BY <2>3, <2>4, <3>1, <3>2, DocTypes
    <2>6. Distinct(d)
      <3>1. Distinct(working)
        BY DEF Sound, ReadsBack
      <3>2. /\ IsInjective(working.labels) /\ IsInjective(working.staged)
            /\ ToSet(working.labels) \cap ToSet(working.staged) = {}
        <4>1. IsInjective(working.labels \o working.staged)
          BY <3>1 DEF Distinct, Order, IsInjective
        <4> QED BY <2>3, <4>1, DistinctConcat
      <3>3. Fresh(verbs) \cap Labels(working) = {}
        BY DEF Fresh
      <3>4. /\ IsInjective(d.staged)
            /\ ToSet(d.staged) = Fresh(verbs) \cup ToSet(working.staged)
            /\ d.staged \in Seq(Names)
        <4>1. ToSet(new) \cap ToSet(working.staged) = {}
          BY <2>2, <2>3, <3>3
        <4> QED BY <2>2, <2>3, <2>4, <3>2, <4>1, DistinctConcat, ToSetConcat
      <3>5. ToSet(working.labels) \cap ToSet(d.staged) = {}
        BY <2>3, <3>2, <3>3, <3>4 DEF Section
      <3>6. IsInjective(d.labels \o d.staged)
        BY <2>3, <2>4, <3>2, <3>4, <3>5, DistinctConcat
      <3> QED BY <3>6 DEF Distinct, Order, IsInjective
    <2>7. \A n \in Fresh(verbs) : d.aliases[n] = {} /\ d.inverse[n] = NoInverse /\ n \in Names
      <3>1. \A n \in Fresh(verbs) : n \in Names /\ n \notin Labels(working)
        BY DEF Fresh
      <3>2. Section(working) \subseteq Labels(working)
        BY <2>3
      <3> QED BY <2>4, <3>1, <3>2 DEF Sound, EntriesInPlace
    <2>8. \A n \in Labels(working) : d.aliases[n] \cap Fresh(verbs) = {}
      BY <2>4 DEF Fresh
    <2>9. NamespaceValid(d)
      <3>1. NamespaceValid(working)
        BY DEF Sound, ReadsBack
      <3> QED BY <2>4, <2>5, <2>7, <2>8, <3>1 DEF NamespaceValid
    <2>10. \A n \in Labels(d) :
              d.aliases[n] \cap BadNames = {} /\ n \notin d.aliases[n] /\ d.inverse[n] # n
      BY <2>4, <2>5, <2>7, RegistryAssumption DEF Sound, ReadsBack
    <2>11. ReadsBack(d)
      BY <2>4, <2>5, <2>6, <2>9, <2>10 DEF Sound, ReadsBack
    <2>12. EntriesInPlace(d)
      BY <2>4, <2>5 DEF Sound, EntriesInPlace
    <2>13. Appended(verbs) = d
      BY <1>2 DEF Appended, d, new
    <2> QED BY <2>4, <2>5, <2>11, <2>12, <2>13 DEF Sound, Extends
  <1>3. CASE Fresh(verbs) # {} /\ ~working.sectioned
    <2>1. Fresh(verbs) \subseteq Names
      BY DEF Fresh
    <2>2. /\ e \in Docs /\ e.labels = working.labels /\ e.aliases = working.aliases
          /\ e.inverse = working.inverse /\ e.staged = working.staged
      BY <1>0, <2>1 DEF Docs
    <2> HIDE DEF e
    <2>3. /\ Order(e) = Order(working) /\ Labels(e) = Labels(working)
          /\ Section(e) = Section(working)
      BY <2>2 DEF Order, Labels, Section
    <2>4. Distinct(e) /\ NamespaceValid(e)
      BY <2>2, <2>3 DEF Sound, ReadsBack, Distinct, NamespaceValid
    <2>5. ReadsBack(e) /\ EntriesInPlace(e)
      BY <2>2, <2>3, <2>4 DEF Sound, ReadsBack, EntriesInPlace
    <2>6. Appended(verbs) = e
      BY <1>3 DEF Appended, e
    <2> QED BY <2>2, <2>3, <2>5, <2>6 DEF Sound, Extends
  <1> QED BY <1>1, <1>2, <1>3

\* Only reviewed labels declare an inverse, and they come first in the file.
LEMMA DeclarersAreReviewed ==
    ASSUME NEW d, Sound(d), NEW c \in Names
    PROVE  /\ Declarers(d, c) = {i \in DOMAIN d.labels : d.inverse[d.labels[i]] = c}
           /\ \A i \in Declarers(d, c) : Order(d)[i] = d.labels[i]
  <1>1. /\ d \in Docs /\ d.labels \in Seq(Names) /\ d.staged \in Seq(Names)
        /\ Section(d) = ToSet(d.labels)
    BY DocTypes DEF Sound, Section
  <1>2. ToSet(d.labels) \cap ToSet(d.staged) = {}
    <2>1. IsInjective(d.labels \o d.staged)
      BY DEF Sound, ReadsBack, Distinct, Order, IsInjective
    <2> QED BY <1>1, <2>1, DistinctConcat
  <1> DEFINE m == Len(d.labels)
             n == Len(d.staged)
  <1>3. /\ m \in Nat /\ n \in Nat /\ DOMAIN d.labels = 1 .. m /\ DOMAIN d.staged = 1 .. n
        /\ DOMAIN Order(d) = 1 .. m + n
        /\ \A i \in 1 .. m : Order(d)[i] = d.labels[i]
        /\ \A i \in 1 .. m + n : i > m => Order(d)[i] = d.staged[i - m]
    <2>1. PICK s \in Seq(Names), t \in Seq(Names) : s = d.labels /\ t = d.staged
      BY <1>1
    <2>2. /\ Len(s) \in Nat /\ DOMAIN s = 1 .. Len(s)
          /\ Len(t) \in Nat /\ DOMAIN t = 1 .. Len(t)
          /\ DOMAIN (s \o t) = 1 .. Len(s) + Len(t)
          /\ \A i \in 1 .. Len(s) : (s \o t)[i] = s[i]
          /\ \A i \in 1 .. Len(s) + Len(t) : i > Len(s) => (s \o t)[i] = t[i - Len(s)]
      BY ConcatParts
    <2> QED BY <2>1, <2>2 DEF Order
  <1> HIDE DEF m, n
  <1>4. ASSUME NEW i \in Declarers(d, c) PROVE i <= m /\ i \in 1 .. m + n
    <2>1. i \in 1 .. m + n /\ d.inverse[Order(d)[i]] = c
      BY <1>3 DEF Declarers
    <2>2. CASE i > m
      <3>1. i - m \in 1 .. n /\ Order(d)[i] = d.staged[i - m]
        BY <1>3, <2>1, <2>2
      <3>2. Order(d)[i] \in ToSet(d.staged) /\ Order(d)[i] \in Names
        BY <1>1, <1>3, <3>1 DEF ToSet
      <3>3. Order(d)[i] \in Section(d)
        BY <2>1, <3>2, RegistryAssumption DEF Sound, EntriesInPlace
      <3> QED BY <1>1, <1>2, <3>2, <3>3
    <2> QED BY <1>3, <2>1, <2>2
  <1>5. \A i \in Declarers(d, c) : i \in 1 .. m /\ Order(d)[i] = d.labels[i]
    BY <1>3, <1>4
  <1>6. \A i \in 1 .. m : i \in DOMAIN Order(d)
    BY <1>3
  <1> QED BY <1>3, <1>5, <1>6 DEF Declarers

\* A longer staged list leaves what every known spelling means.
LEMMA ExtensionKeepsMeanings ==
    ASSUME NEW d, NEW e, Sound(d), Sound(e), Extends(d, e), NEW x \in Names
    PROVE  IsKnown(d, x) => IsKnown(e, x) /\ Meaning(e, x) = Meaning(d, x)
  <1>1. \A n \in Labels(e) : n \notin Labels(d) => d.aliases[n] = {}
    <2>1. Labels(e) \subseteq Names
      BY DocTypes DEF Sound
    <2> QED BY <2>1 DEF Sound, EntriesInPlace
  <1>2. Owners(e, x) = Owners(d, x)
    BY <1>1 DEF Owners, Extends
  <1>3. CanonicalFor(e, x) = CanonicalFor(d, x)
    BY <1>2 DEF CanonicalFor
  <1>4. CanonicalFor(d, x) \in Names
    <2>1. Owners(d, x) \subseteq Names
      BY DocTypes DEF Sound, Owners
    <2> QED BY <2>1 DEF CanonicalFor
  <1> DEFINE c == CanonicalFor(d, x)
  <1>5. /\ Declarers(e, c) = Declarers(d, c)
        /\ \A i \in Declarers(d, c) : Order(e)[i] = Order(d)[i]
    <2> HIDE DEF c
    <2>1. c \in Names
      BY <1>4 DEF c
    <2>2. /\ Declarers(d, c) = {i \in DOMAIN d.labels : d.inverse[d.labels[i]] = c}
          /\ \A i \in Declarers(d, c) : Order(d)[i] = d.labels[i]
      BY <2>1, DeclarersAreReviewed
    <2>3. /\ Declarers(e, c) = {i \in DOMAIN e.labels : e.inverse[e.labels[i]] = c}
          /\ \A i \in Declarers(e, c) : Order(e)[i] = e.labels[i]
      BY <2>1, DeclarersAreReviewed
    <2>4. e.labels = d.labels /\ e.inverse = d.inverse
      BY DEF Extends
    <2>5. Declarers(e, c) = Declarers(d, c)
      BY <2>2, <2>3, <2>4
    <2> QED BY <2>2, <2>3, <2>4, <2>5
  <1>6. Declarers(d, c) # {} => FlipTo(e, c) = FlipTo(d, c)
    <2> HIDE DEF c
    <2> DEFINE last == CHOOSE i \in Declarers(d, c) : \A j \in Declarers(d, c) : j <= i
    <2>1. SUFFICES ASSUME Declarers(d, c) # {} PROVE Order(e)[last] = Order(d)[last]
      BY <1>5 DEF FlipTo
    <2>2. last \in Declarers(d, c)
      BY <2>1, LastDeclarer DEF Sound
    <2> QED BY <1>5, <2>2
  <1>7. Meaning(e, x) = Meaning(d, x)
    <2> HIDE DEF c
    <2>1. CASE Declarers(d, c) = {}
      BY <1>3, <1>5, <2>1 DEF Meaning, c
    <2>2. CASE Declarers(d, c) # {}
      BY <1>3, <1>5, <1>6, <2>2 DEF Meaning, c
    <2> QED BY <2>1, <2>2
  <1> QED BY <1>2, <1>7 DEF IsKnown, Extends

-----------------------------------------------------------------------------
(* Promotion *)

\* What pg promote-verbs leaves of the working file.
Cleared(file) ==
    [file EXCEPT
        !.staged  = <<>>, !.sectioned = TRUE, !.stray = {},
        !.aliases = [n \in Names |-> IF n \in ToSet(file.staged) THEN {} ELSE @[n]],
        !.inverse = [n \in Names |-> IF n \in ToSet(file.staged) THEN NoInverse ELSE @[n]]]

LEMMA ClearedIsSound ==
    ASSUME NEW file, Sound(file)
    PROVE  Sound(Cleared(file))
  <1> DEFINE d == Cleared(file)
  <1> DEFINE staged == ToSet(file.staged)
  <1>1. /\ file \in Docs /\ file.labels \in Seq(Names) /\ file.staged \in Seq(Names)
        /\ Labels(file) = Section(file) \cup staged
        /\ Section(file) \subseteq Names
    BY DocTypes DEF Sound
  <1>2. Section(file) \cap staged = {} /\ IsInjective(file.labels)
    <2>1. IsInjective(file.labels \o file.staged)
      BY DEF Sound, ReadsBack, Distinct, Order, IsInjective
    <2> QED BY <1>1, <2>1, DistinctConcat DEF Section
  <1>3. /\ d.labels = file.labels /\ d.staged = <<>> /\ d.stray = {} /\ d.sectioned = TRUE
        /\ d.aliases = [n \in Names |-> IF n \in staged THEN {} ELSE file.aliases[n]]
        /\ d.inverse = [n \in Names |-> IF n \in staged THEN NoInverse ELSE file.inverse[n]]
    BY <1>1 DEF Docs, Cleared
  <1> HIDE DEF d
  <1>4. d \in Docs
    <2> DEFINE A == [n \in Names |-> IF n \in staged THEN {} ELSE file.aliases[n]]
               I == [n \in Names |-> IF n \in staged THEN NoInverse ELSE file.inverse[n]]
    <2>1. A \in [Names -> SUBSET Names] /\ I \in [Names -> Names \cup {NoInverse}]
      BY <1>1 DEF Docs
    <2>2. <<>> \in Seq(Names)
      OBVIOUS
    <2>3. d = [file EXCEPT !.staged = <<>>, !.sectioned = TRUE, !.stray = {},
                           !.aliases = A, !.inverse = I]
      BY DEF d, Cleared
    <2> HIDE DEF A, I
    <2> QED BY <1>1, <2>1, <2>2, <2>3 DEF Docs
  <1>5. Order(d) = file.labels /\ Labels(d) = Section(file) /\ Section(d) = Section(file)
    <2>1. Order(d) = file.labels
      BY <1>1, <1>3 DEF Order
    <2> QED BY <1>3, <2>1 DEF Labels, Section, ToSet
  <1> HIDE DEF staged
  <1>6. \A n \in Section(file) : /\ d.aliases[n] = file.aliases[n]
                                 /\ d.inverse[n] = file.inverse[n]
    BY <1>1, <1>2, <1>3
  <1>7. \A n \in Section(file) : file.inverse[n] # NoInverse =>
            file.inverse[n] \in Section(file)
    BY <1>1 DEF Sound, EntriesInPlace
  <1>8. NamespaceValid(d)
    BY <1>1, <1>5, <1>6, <1>7 DEF Sound, ReadsBack, NamespaceValid
  <1>9. Distinct(d)
    BY <1>2, <1>5 DEF Distinct, IsInjective
  <1>10. ReadsBack(d)
    <2>1. d.labels # <<>> /\ Section(d) \cap BadNames = {}
      BY <1>3, <1>5 DEF Sound, ReadsBack
    <2>2. \A n \in Labels(d) :
             d.aliases[n] \cap BadNames = {} /\ n \notin d.aliases[n] /\ d.inverse[n] # n
      <3>1. \A n \in Section(file) : /\ file.aliases[n] \cap BadNames = {}
                                     /\ n \notin file.aliases[n] /\ file.inverse[n] # n
        BY <1>1 DEF Sound, ReadsBack
      <3> QED BY <1>5, <1>6, <3>1
    <2> QED BY <1>8, <1>9, <2>1, <2>2 DEF ReadsBack
  <1>11. EntriesInPlace(d)
    BY <1>1, <1>3, <1>5 DEF Sound, EntriesInPlace
  <1> QED BY <1>4, <1>10, <1>11 DEF Sound, d

LEMMA PromotedIsDoc ==
    ASSUME packaged \in Docs, NEW names \in SUBSET Names, IsFiniteSet(names)
    PROVE  Promoted(names) \in Docs
  <1>1. SetToSeq(names) \in Seq(names)
    BY SetToSeqMembers
  <1>2. packaged.labels \o SetToSeq(names) \in Seq(Names)
    BY <1>1 DEF Docs
  <1> QED BY <1>2 DEF Promoted, Docs

-----------------------------------------------------------------------------
(* The life of the files *)

\* The working file stays sound, and while an ingest runs it differs from what
\* that ingest loaded by staged names only.  Until it is there, the packaged
\* file is as a release shipped it.
RInv ==
    /\ packaged \in Docs
    /\ working = Absent => packaged \in Shipped /\ loaded = Absent
    /\ working # Absent => Sound(working)
    /\ loaded # Absent => Sound(loaded) /\ Valid(loaded) /\ Extends(loaded, working)

LEMMA ShippedIsSound ==
    ASSUME NEW d \in Shipped
    PROVE  Sound(d) /\ Valid(d) /\ d \in Docs /\ d # Absent
  BY ValidIsSound, LifecycleAssumption

LEMMA InForceIsSound ==
    ASSUME RInv
    PROVE  Sound(InForce) /\ InForce \in Docs /\ Seeded = InForce /\ Seeded # Absent
           /\ (working = Absent => InForce.stray = {} /\ Labels(InForce) \cap BadNames = {})
  <1>1. \A d \in Shipped : d.stray = {} /\ Labels(d) \cap BadNames = {}
    BY ShippedIsSound DEF Valid, EntriesValid
  <1> QED BY <1>1, ShippedIsSound, LifecycleAssumption DEF RInv, InForce, Seeded, Sound

LEMMA RInit == Init => RInv
  BY ShippedIsSound DEF Init, RInv

\* A human saves only what validates; what the edit may touch stays in place.
LEMMA HandEditIsSound ==
    ASSUME RInv, NEW n \in Names, NEW x \in Names, NEW tidy \in BOOLEAN,
           HandAlias(n, x) \/ HandInverse(n, x) \/ HandPromote(n, tidy)
    PROVE  Sound(working') /\ working' \in Docs
<1>1. working \in Docs /\ EntriesInPlace(working)
  BY DEF HandAlias, HandInverse, HandPromote, RInv, Sound
<1>2. /\ working.labels \in Seq(Names) /\ working.staged \in Seq(Names)
      /\ Labels(working) = Section(working) \cup ToSet(working.staged)
      /\ working.aliases \in [Names -> SUBSET Names]
      /\ working.inverse \in [Names -> Names \cup {NoInverse}]
  BY <1>1, DocTypes DEF Docs
<1>3. CASE HandAlias(n, x)
  <2> DEFINE e == [working EXCEPT !.aliases[n] = @ \cup {x}]
  <2>1. working' = e /\ Valid(e) /\ n \in Labels(working)
    BY <1>3 DEF HandAlias
  <2>2. /\ e \in Docs /\ e.labels = working.labels /\ e.staged = working.staged
        /\ e.inverse = working.inverse
        /\ \A m \in Names : m # n => e.aliases[m] = working.aliases[m]
    BY <1>1, <1>2 DEF Docs
  <2> HIDE DEF e
  <2>3. Labels(e) = Labels(working) /\ Section(e) = Section(working)
    BY <2>2 DEF Labels, Order, Section
  <2>4. EntriesInPlace(e)
    BY <1>1, <2>1, <2>2, <2>3 DEF EntriesInPlace
  <2> QED BY <2>1, <2>2, <2>4, ValidIsSound
<1>4. CASE HandInverse(n, x)
  <2> DEFINE e == [working EXCEPT !.inverse[n] = x]
  <2>1. working' = e /\ Valid(e) /\ {n, x} \subseteq Section(working)
    BY <1>4 DEF HandInverse
  <2>2. /\ e \in Docs /\ e.labels = working.labels /\ e.staged = working.staged
        /\ e.aliases = working.aliases /\ e.inverse[n] = x
        /\ \A m \in Names : m # n => e.inverse[m] = working.inverse[m]
    BY <1>1, <1>2 DEF Docs
  <2> HIDE DEF e
  <2>3. Labels(e) = Labels(working) /\ Section(e) = Section(working)
    BY <2>2 DEF Labels, Order, Section
  <2>4. EntriesInPlace(e)
    BY <1>1, <2>1, <2>2, <2>3 DEF EntriesInPlace
  <2> QED BY <2>1, <2>2, <2>4, ValidIsSound
<1>5. CASE HandPromote(n, tidy)
  <2> DEFINE in == {i \in DOMAIN working.staged : working.staged[i] # n}
             left == Picked(working.staged, in)
             e == [working EXCEPT !.labels = Append(@, n), !.staged = left,
                                  !.sectioned = ~tidy]
  <2>1. working' = e /\ Valid(e) /\ n \in ToSet(working.staged)
    BY <1>5 DEF HandPromote
  <2>2. left \in Seq(Names) /\ ToSet(left) = {working.staged[i] : i \in in}
    <3>1. in \in SUBSET DOMAIN working.staged
      OBVIOUS
    <3> QED BY <1>2, <3>1, PickedMembers, PickedSet
  <2> HIDE DEF left
  <2>3. Append(working.labels, n) \in Seq(Names)
    BY <1>2
  <2>4. /\ e \in Docs /\ e.labels = Append(working.labels, n) /\ e.staged = left
        /\ e.aliases = working.aliases /\ e.inverse = working.inverse
    BY <1>1, <2>2, <2>3 DEF Docs
  <2> HIDE DEF e
  <2>5. Section(e) = Section(working) \cup {n}
    BY <1>2, <2>4, ToSetAppend DEF Section
  <2>6. Labels(working) \subseteq Labels(e)
    <3>1. Labels(e) = Section(e) \cup ToSet(left)
      BY <2>4, DocTypes
    <3>2. ToSet(working.staged) \subseteq ToSet(left) \cup {n}
      BY <2>2 DEF ToSet
    <3> QED BY <1>2, <2>5, <3>1, <3>2
  <2>7. EntriesInPlace(e)
    BY <1>1, <2>4, <2>5, <2>6 DEF EntriesInPlace
  <2> QED BY <2>1, <2>4, <2>7, ValidIsSound
<1> QED BY <1>3, <1>4, <1>5

LEMMA ScanIsSound ==
    ASSUME RInv, NEW verbs \in SUBSET Names, Scan(verbs)
    PROVE  Sound(working') /\ Extends(working, working')
<1>1. loaded # Absent /\ working # Absent /\ IsFiniteSet(verbs)
  BY DEF Scan, RInv
<1>2. Unknown(verbs) \in SUBSET Names /\ IsFiniteSet(Unknown(verbs))
  BY <1>1, FS_Subset DEF Unknown
<1>3. ASSUME NEW n \in Labels(working), NEW x \in Unknown(verbs)
      PROVE  x \notin working.aliases[n]
  <2>1. Sound(loaded) /\ Extends(loaded, working) /\ Sound(working)
    BY <1>1 DEF RInv
  <2>2. n \in Names
    BY <2>1, DocTypes DEF Sound
  <2>3. CASE n \in Labels(loaded)
    BY <2>1, <2>3 DEF Unknown, IsKnown, Owners, Extends
  <2>4. CASE n \notin Labels(loaded)
    BY <2>1, <2>2, <2>4 DEF Sound, EntriesInPlace, Extends
  <2> QED BY <2>3, <2>4
<1>4. Sound(working)
  BY <1>1 DEF RInv
<1>5. Sound(Appended(Unknown(verbs))) /\ Extends(working, Appended(Unknown(verbs)))
  BY <1>2, <1>3, <1>4, AppendedIsSound
<1> QED BY <1>5 DEF Scan

LEMMA RStep == RInv /\ [Next]_vars => RInv'
<1> SUFFICES ASSUME RInv, [Next]_vars PROVE RInv'
  OBVIOUS
<1>1. CASE StartIngest
  <2>1. Sound(working') /\ packaged' = packaged /\ working' # Absent /\ working' = Seeded
    BY <1>1, InForceIsSound DEF StartIngest
  <2>2. loaded' # Absent => loaded' = working' /\ Valid(working')
    BY <1>1, <2>1 DEF StartIngest
  <2>3. Extends(working', working')
    BY DEF Extends
  <2> QED BY <2>1, <2>2, <2>3 DEF RInv
<1>2. ASSUME NEW verbs \in SUBSET Names, Scan(verbs) PROVE RInv'
  <2>1. Sound(working') /\ Extends(working, working')
    BY <1>2, ScanIsSound
  <2>2. loaded # Absent /\ loaded' = loaded /\ packaged' = packaged
    BY <1>2 DEF Scan
  <2>3. Extends(loaded, working')
    BY <2>1, <2>2 DEF RInv, Extends
  <2>4. working' # Absent
    BY <2>1, LifecycleAssumption DEF Sound
  <2> QED BY <2>1, <2>2, <2>3, <2>4 DEF RInv
<1>3. CASE EndIngest
  BY <1>3 DEF EndIngest, RInv
<1>4. ASSUME NEW n \in Names, NEW x \in Names, NEW tidy \in BOOLEAN,
             HandAlias(n, x) \/ HandInverse(n, x) \/ HandPromote(n, tidy)
      PROVE  RInv'
  <2>1. Sound(working') /\ working' \in Docs
    BY <1>4, HandEditIsSound
  <2>2. loaded' = Absent /\ packaged' = packaged
    BY <1>4 DEF HandAlias, HandInverse, HandPromote
  <2> QED BY <2>1, <2>2, LifecycleAssumption DEF RInv
<1>5. CASE PromoteVerbs
  <2>1. working' = Cleared(Seeded) /\ loaded' = Absent
    BY <1>5 DEF PromoteVerbs, Cleared
  <2>2. Sound(working') /\ working' \in Docs
    BY <2>1, InForceIsSound, ClearedIsSound DEF Sound
  <2>3. packaged' \in Docs
    <3> DEFINE names == ToSet(Seeded.staged) \ Section(packaged)
    <3>1. ToSet(Seeded.staged) \in SUBSET Names /\ IsFiniteSet(ToSet(Seeded.staged))
      BY InForceIsSound, DocTypes, ToSetFinite
    <3>2. names \in SUBSET Names /\ IsFiniteSet(names)
      BY <3>1, FS_Subset
    <3>3. packaged' = Promoted(names)
      BY <1>5 DEF PromoteVerbs
    <3> QED BY <3>2, <3>3, PromotedIsDoc DEF RInv
  <2> QED BY <2>1, <2>2, <2>3, LifecycleAssumption DEF RInv
<1>6. ASSUME NEW d \in Shipped, Release(d) PROVE RInv'
  BY <1>6, ShippedIsSound DEF Release, RInv
<1>7. CASE UNCHANGED vars
  BY <1>7 DEF vars, RInv
<1> QED BY <1>1, <1>2, <1>3, <1>4, <1>5, <1>6, <1>7 DEF Next

\* The next pg command can load the registry in force, whatever was staged,
\* edited, promoted and released before, unless a scan staged a verb that is no
\* label or put entries beside a missing section.
THEOREM RegistryStaysLoadable == Spec => []RegistryLoads
<1>1. RInv => RegistryLoads
  BY InForceIsSound, SoundLoads DEF RegistryLoads
<1> QED BY RInit, RStep, <1>1, PTL DEF Spec

\* One pass of canonicalization is enough under every file that is ever in
\* force and loads.
THEOREM MeaningsStayFinal == Spec => []MeaningsAreFinal
<1>1. RInv => MeaningsAreFinal
  BY InForceIsSound, MeaningIsFinal DEF MeaningsAreFinal
<1> QED BY RInit, RStep, <1>1, PTL DEF Spec

\* Neither a scan nor the start or end of an ingest changes what a spelling
\* known under the file in force means.
THEOREM ScansKeepMeanings == Spec => MeaningsKept
<1> DEFINE Kept == scans' # scans \/ loaded' # loaded =>
                     \A x \in Names : IsKnown(InForce, x) =>
                        IsKnown(InForce', x) /\ Meaning(InForce', x) = Meaning(InForce, x)
<1>1. ASSUME RInv, [Next]_vars PROVE [Kept]_vars
  <2>1. CASE StartIngest \/ EndIngest
    <3>1. InForce' = InForce
      BY <1>1, <2>1, InForceIsSound DEF StartIngest, EndIngest, InForce
    <3> QED BY <3>1
  <2>2. ASSUME NEW verbs \in SUBSET Names, Scan(verbs) PROVE Kept
    <3>1. Sound(working') /\ Extends(working, working')
      BY <1>1, <2>2, ScanIsSound
    <3>2. /\ working # Absent /\ working' # Absent
          /\ Sound(working)
      BY <1>1, <2>2, <3>1, LifecycleAssumption DEF Scan, RInv, Sound
    <3>3. InForce = working /\ InForce' = working'
      BY <3>2 DEF InForce
    <3> QED BY <3>1, <3>2, <3>3, ExtensionKeepsMeanings
  <2>3. CASE scans' = scans /\ loaded' = loaded
    BY <2>3
  <2>4. CASE UNCHANGED vars
    BY <2>4 DEF vars
  <2>5. \A n, x \in Names, tidy \in BOOLEAN :
          HandAlias(n, x) \/ HandInverse(n, x) \/ HandPromote(n, tidy)
              => scans' = scans /\ loaded' = loaded
    BY DEF HandAlias, HandInverse, HandPromote
  <2>6. PromoteVerbs \/ (\E d \in Shipped : Release(d)) => scans' = scans /\ loaded' = loaded
    BY DEF PromoteVerbs, Release
  <2> QED BY <1>1, <2>1, <2>2, <2>3, <2>4, <2>5, <2>6 DEF Next
<1> QED BY RInit, RStep, <1>1, PTL DEF Spec, MeaningsKept
=============================================================================
