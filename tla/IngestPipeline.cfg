\* Two runs over two chunks, every executor; either may die anywhere.
SPECIFICATION LiveSpec
CONSTANTS
    plain = plain  level = level  pair = pair  name = name
    f1 = f1  f2 = f2  entity = entity
    Claims = {plain, level, pair, name}
    Facts = {f1, f2}
    ClassOf <- MCClasses
    Measure <- MCMeasure
    Repairs = {plain, pair}
    NumChunks = 2
    WellFormed = WellFormed
    MaxCalls <- MCCalls
    MaxMembers = 2
    MaxRuns = 2
INVARIANTS NothingLost GraphWaitsForApproval FilteredStaysOut
PROPERTIES RunEnds
CHECK_DEADLOCK FALSE
