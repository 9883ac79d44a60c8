\* A pass over a ledger with a migrated row whose ref names no source.
SPECIFICATION Spec
CONSTANTS
    v = v  w = w  u = u  here = here
    s1 = s1  s2 = s2  bare = bare
    Triples = {v, w, u}
    Sources = {s1, s2, bare}
    Unprefixed = {bare}
    Weights = {1}
    Certain = 9
    NoScope = NoScope
    Scopes = {NoScope, here}
    NoRow = NoRow
    NoArrow = NoArrow
    Canons <- MCCanons
    MaxIngests = 2
    MaxEdits = 1
    MaxCrashes = 0
INVARIANTS RefusedBeforeAnyWrite
