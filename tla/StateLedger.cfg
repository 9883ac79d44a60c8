\* Two processes at once, one of which may die; as_of texts sort as dates.
SPECIFICATION LiveSpec
CONSTANTS
    e1 = e1  rate = rate  yield = yield  approval = approval
    s1 = s1  s2 = s2  high = high  low = low
    Writers = {1, 2}
    Entities = {e1}
    Keys = {rate, yield, approval}
    CanonKey <- MCCanonKey
    Sources = {s1, s2}
    AsOfs = {1, 2}
    DateOf <- MCDates
    Confs = {1, 2}
    Values = {high, low}
    Batches <- MCBatches
    NoRow = NoRow
    NoEntry = NoEntry
    MaxCrashes = 1
INVARIANTS MapsDerived
PROPERTIES MapOnlyAdvances MapsConverge
