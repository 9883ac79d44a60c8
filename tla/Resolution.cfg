\* Three ingests of up to three names.
SPECIFICATION ResolverSpec
CONSTANTS
    merz = merz  fmerz = fmerz  merzz = merzz  MERZ = MERZ  chancellor = chancellor
    Names = {merz, fmerz, merzz, MERZ, chancellor}
    Norm <- MCNorm
    Fuzzy <- MCFuzzy
    Tokens <- MCTokens
    Likeness <- MCLikeness
    MaxNames = 3
    MaxIngests = 3
CHECK_DEADLOCK FALSE
INVARIANTS MergedFormsLand DecisionSticks
