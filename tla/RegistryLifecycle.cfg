\* Scans, hand edits, promotions and a release; no label may be fivefold.
SPECIFICATION Spec
CONSTANTS
    causes = causes  caused_by = caused_by  raises = raises  lifts = lifts  fivefold = fivefold
    none = none
    Names = {causes, caused_by, raises, lifts, fivefold}
    BadNames = {fivefold}
    NoInverse = none
    Shipped <- MCShipped
    Absent = Absent
    MaxScans = 3
    MaxHandEdits = 3
    MaxReleases = 1
CHECK_DEADLOCK FALSE
INVARIANTS RegistryLoads MeaningsAreFinal
PROPERTIES MeaningsKept
