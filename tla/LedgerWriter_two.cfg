\* Two pg processes at once, keep-first; one may die, or one may reset.
SPECIFICATION LiveSpec
CONSTANTS
    t1 = t1  t2 = t2  a1 = a1
    s1 = s1  s2 = s2
    e1 = e1  e2 = e2  e3 = e3
    here = here
    Triples = {t1, t2, a1}
    Sources = {s1, s2}
    Weights = {1, 2, 9}
    Certain = 9
    NoScope = NoScope
    Scopes = {NoScope, here}
    NoRow = NoRow
    NoArrow = NoArrow
    Writers = {1, 2}
    Entities = {e1, e2}
    Ends <- MCOneEnds
    Canonical <- MCCanonical
    Batches <- MCShortBatches
    Modes = {"keep-first"}
    MaxCrashes = 1
    MaxResets = 1
    MaxUpsets = 1
INVARIANTS CommitRecorded
PROPERTIES KeepFirst Converges
