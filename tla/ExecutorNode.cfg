SPECIFICATION FairSpec
CONSTANTS
    Calls = {c1, c2, c3}
    NoCall = NoCall
INVARIANTS
    ShutdownReachesAll
PROPERTIES
    ImplementsSlot
    TerminateWins
    ShutdownEnds
CHECK_DEADLOCK FALSE
