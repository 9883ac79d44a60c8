\* A run that is turned away.
SPECIFICATION ResolverSpec
CONSTANTS
    merz = merz  fmerz = fmerz  merzz = merzz  MERZ = MERZ  chancellor = chancellor
    Names = {merz, fmerz, merzz, MERZ, chancellor}
    Norm <- MCNorm
    Fuzzy <- MCFuzzy
    Tokens <- MCTokens
    Likeness <- MCLikeness
    MaxNames = 2
    MaxIngests = 2
CHECK_DEADLOCK FALSE
INVARIANTS DiscardLeavesGraph
