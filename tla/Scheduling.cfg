SPECIFICATION Spec
CONSTANTS
    Nodes = {n1, n2, n3}
    Execs = {e1, e2, e3}
    NoNode = NoNode
    NextTimeAttempts = 4
    Disturbances = {"crash", "outage", "release", "consumer", "cancel"}
    MaxOps = 0
SYMMETRY Symmetry
INVARIANTS
    OneOpenExecution
    ActiveMeansFree
    OneRunPerOccurrence
CHECK_DEADLOCK FALSE
