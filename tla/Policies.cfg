\* Every batch of two candidates on every ledger, every list of five
\* confidences, every query on every graph of three arrows.
SPECIFICATION Spec
CONSTANTS
    t1 = t1  t2 = t2  s1 = s1  s2 = s2  here = here
    Triples = {t1, t2}
    Sources = {s1, s2}
    Weights = {1, 2}
    Certain = 9
    NoScope = NoScope
    Scopes = {NoScope, here}
    NoRow = NoRow
    NoArrow = NoArrow
    MaxBatch = 2
    Modes = {"keep-first", "refresh"}
    Unit = 4
    Reported <- Quarters
    MaxRows = 5
    raises = raises  none = none
    Entities = {1, 2, 3}
    NameOf <- MCNameOf
    Relations = {raises}
    Grades = {1, 2}
    Scores = {1, 2}
    Threshold = 2
    NoVector = none
    MaxArrows = 3
    MaxEdges = 2
    TopK = 2
CHECK_DEADLOCK FALSE
INVARIANTS ArrowsMatchExecution BatchIsSequential AggregatesAgree AnswersAreBest
