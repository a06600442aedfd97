SPECIFICATION FairSpec
CONSTANTS
    Nodes = {n1, n2}
    Execs = {e1, e2}
    NoNode = NoNode
    NextTimeAttempts = 2
    Disturbances = {"crash", "release", "consumer", "cancel", "stop", "start", "edit"}
    MaxOps = 1
PROPERTIES
    LockIsReleased
    DueTaskRuns
    StoppedStaysStopped
CHECK_DEADLOCK FALSE
