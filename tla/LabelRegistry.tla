---------------------------- MODULE LabelRegistry ----------------------------
(***************************************************************************)
(* label_registry.py: a registry document, what makes it valid, and the    *)
(* canonicalization of a relation under it -- alias collapse, then the     *)
(* collapse of an inverse pair onto its declaring member.                  *)
(***************************************************************************)
EXTENDS Naturals, Sequences

CONSTANTS
    Names,       \* spellings: the snake_case words scan and extraction produce
    BadNames,    \* those the registry file does not give back as a label (a
                 \* leading digit; on, no, null: other YAML scalars)
    NoInverse

ASSUME RegistryAssumption == BadNames \subseteq Names /\ NoInverse \notin Names

\* A registry file.  The two sections are in file order; every label maps to
\* its aliases and to the inverse it declares.  sectioned: the file has a
\* proposed.labels section; stray: entries put beside it, under proposed.
Docs == [labels : Seq(Names), staged : Seq(Names),
         aliases : [Names -> SUBSET Names],
         inverse : [Names -> Names \cup {NoInverse}],
         sectioned : BOOLEAN, stray : SUBSET Names]

\* labels: first, then proposed.labels:, as the loader merges them.
Order(d) == d.labels \o d.staged

Labels(d) == {Order(d)[i] : i \in DOMAIN Order(d)}

-----------------------------------------------------------------------------
(* _validate_document, _validate_label_entries, _validate_label_namespace *)

EntriesValid(d) ==
    \A n \in Labels(d) :
        /\ n \notin BadNames /\ d.aliases[n] \cap BadNames = {}
        /\ n \notin d.aliases[n]
        /\ d.inverse[n] # n

NamespaceValid_NoChainRule(d) ==
    /\ \A n \in Labels(d) : d.aliases[n] \cap Labels(d) = {}
    /\ \A m, n \in Labels(d) : m # n => d.aliases[m] \cap d.aliases[n] = {}
    /\ \A n \in Labels(d) : d.inverse[n] # NoInverse => d.inverse[n] \in Labels(d)

\* One owner per alias, none of them a label; an inverse is a label that
\* declares no inverse itself.
NamespaceValid(d) ==
    /\ \A n \in Labels(d) : d.aliases[n] \cap Labels(d) = {}
    /\ \A m, n \in Labels(d) : m # n => d.aliases[m] \cap d.aliases[n] = {}
    /\ \A n \in Labels(d) : d.inverse[n] # NoInverse =>
          d.inverse[n] \in Labels(d) /\ d.inverse[d.inverse[n]] = NoInverse

Distinct(d) == \A i, j \in DOMAIN Order(d) : Order(d)[i] = Order(d)[j] => i = j

Valid(d) ==
    /\ d.labels # <<>>
    /\ d.stray = {}
    /\ Distinct(d)
    /\ EntriesValid(d)
    /\ NamespaceValid(d)

-----------------------------------------------------------------------------
(* LabelRegistry *)

Owners(d, x) == {n \in Labels(d) : x \in d.aliases[n]}

IsKnown(d, x) == x \in Labels(d) \/ Owners(d, x) # {}

\* Unknown labels pass through.
CanonicalFor(d, x) == IF Owners(d, x) = {} THEN x ELSE CHOOSE n \in Owners(d, x) : TRUE

\* _flip_to: positions of the labels that declare x as their inverse.  Nothing
\* keeps two labels from declaring the same one; the last in the file wins.
Declarers(d, x) == {i \in DOMAIN Order(d) : d.inverse[Order(d)[i]] = x}

FlipTo(d, x) ==
    Order(d)[CHOOSE i \in Declarers(d, x) : \A j \in Declarers(d, x) : j <= i]

\* The canonical verb of spelling x, and whether subject and object trade places.
Meaning(d, x) ==
    IF Declarers(d, CanonicalFor(d, x)) = {}
    THEN [verb |-> CanonicalFor(d, x), flip |-> FALSE]
    ELSE [verb |-> FlipTo(d, CanonicalFor(d, x)), flip |-> TRUE]

\* canonicalize(subject, relation, object)
Canonicalize(d, s, x, o) ==
    IF Meaning(d, x).flip THEN <<o, Meaning(d, x).verb, s>>
    ELSE <<s, Meaning(d, x).verb, o>>
=============================================================================
