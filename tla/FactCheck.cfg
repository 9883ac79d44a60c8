\* Fact-check runs among passes, registry edits, ingests and a migrated row.
SPECIFICATION CheckSpec
CONSTANTS
    v = v  w = w  u = u  here = here
    s1 = s1  s2 = s2  bare = bare
    trade = trade  untagged = untagged  id1 = id1
    Triples = {v, w, u}
    Sources = {s1, s2, bare}
    Unprefixed = {bare}
    Weights = {1}
    Certain = 9
    NoScope = NoScope
    Scopes = {NoScope}
    NoRow = NoRow
    NoArrow = NoArrow
    Canons <- MCCanons
    Domains = {trade}
    DomainOf <- MCDomainOf
    SourceId <- MCSourceId
    MaxIngests = 2
    MaxEdits = 1
    MaxCrashes = 1
    MaxChecks = 2
INVARIANTS ClaimsKept NothingInvented PassesDeriveArrows SecondRunEmpty OnlyWholeRuns
PROPERTIES CanonicalUntouched VerdictsStay
