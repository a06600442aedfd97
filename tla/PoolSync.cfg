SPECIFICATION FairSpec
CONSTANTS
    Pools = {p1}
    Instances = {i1, i2}
    Configs = {c1, c2}
    NoConfig = NoConfig
    Timers = {t1}
    MaxChanges = 3
    MaxFailures = 1
INVARIANTS
    QuietAgrees
PROPERTIES
    Converges
CHECK_DEADLOCK FALSE
