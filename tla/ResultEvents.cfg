SPECIFICATION Spec
CONSTANTS
    Nodes = {n1, n2}
    MaxLines = 3
    MaxTopic = 4
    MaxMishaps = 2
INVARIANTS
    InOrderOnce
    DecidedAfterLines
    RememberedIsDone
CHECK_DEADLOCK FALSE
