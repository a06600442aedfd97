SPECIFICATION FairSpec
CONSTANTS
    Procs = {p1, p2}
    Callers = {c1, c2}
    Full = 2
    MaxFailures = 1
    MaxCrashes = 1
INVARIANTS
    UsedIsComplete
    FailureHasCause
PROPERTIES
    EveryCallEnds
CHECK_DEADLOCK FALSE
