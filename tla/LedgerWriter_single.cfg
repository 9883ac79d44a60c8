\* One pg process, both repeat modes, crashes and a reset.
SPECIFICATION Spec
CONSTANTS
    t1 = t1  t2 = t2  a1 = a1
    s1 = s1  s2 = s2
    e1 = e1  e2 = e2  e3 = e3
    here = here
    Triples = {t1, t2, a1}
    Sources = {s1, s2}
    Weights = {1, 2, 9}
    Certain = 9
    NoScope = NoScope
    Scopes = {NoScope, here}
    NoRow = NoRow
    NoArrow = NoArrow
    Writers = {1}
    Entities = {e1, e2, e3}
    Ends <- MCEnds
    Canonical <- MCCanonical
    Batches <- MCBatches
    Modes = {"keep-first", "refresh"}
    MaxCrashes = 2
    MaxResets = 1
    MaxUpsets = 3
INVARIANTS IInv ArrowsDerived OneTearPerCrash ScopeFollowsRows
PROPERTIES NoWobble ImplementsLedger
