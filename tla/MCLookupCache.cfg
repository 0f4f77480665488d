SPECIFICATION Spec
CONSTANTS
    r1 = r1
    r2 = r2
    Runs <- MCRuns
    NoRun = NoRun
    Earlier = Earlier
    NumCalls = 2
    MaxClears = 2
    NoRow = NoRow
    Absent = Absent
INVARIANTS
    TypeOK
    LastIsBest
    ListedAreStored
PROPERTIES
    FilteredRunsForgetNothing
    EveryLookupEnds
CHECK_DEADLOCK FALSE
