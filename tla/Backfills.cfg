\* Migrations and source backfills that die and are repeated, and documents.
SPECIFICATION LiveBackfills
CONSTANTS
    t1 = t1  t2 = t2
    s1 = s1  s2 = s2  noref = noref  bare = bare  here = here  doc = doc
    Triples = {t1, t2}
    Sources = {s1, s2, noref, bare}
    Weights = {1}
    Certain = 9
    NoScope = NoScope
    Scopes = {NoScope, here}
    NoRow = NoRow
    NoArrow = NoArrow
    Pair <- MCPair
    EmptyRef = noref
    Unprefixed = {bare}
    NoLegacy = NoLegacy
    SourceId <- MCSourceId
    MaxIngests = 1
    MaxCrashes = 1
INVARIANTS ProvenanceKept FirstSeenIsEarliest
PROPERTIES MigrationMovesNoArrow Migrated SourcesLinked
