SPECIFICATION FairSpec
CONSTANTS
    Workers = {w1, w2, w3}
    NoWorker = NoWorker
    MaxEntries = 2
INVARIANTS
    OneAnswer
    NoDeafHandler
PROPERTIES
    ImplementsSlot
    TerminatedEnds
CHECK_DEADLOCK FALSE
