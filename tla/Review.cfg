\* Two reviews open at once.
SPECIFICATION Spec
CONSTANTS
    tA = tA  tB = tB  tC = tC  s1 = s1  s2 = s2  p1 = p1  p2 = p2
    NoRow = NoRow
    NoArrow = NoArrow
    NoScope = NoScope
    Scopes = {NoScope}
    Triples = {tA, tB, tC}
    Sources = {s1, s2}
    Weights = {1, 9}
    Certain = 9
    Procs = {p1, p2}
    Canon <- MCCanon
    MaxBatch = 2
    MaxEdits = 1
    MaxRuns = 2
CHECK_DEADLOCK FALSE
SYMMETRY Names
INVARIANTS  RejectedTriplesLogged ApprovedIsRecorded
