SPECIFICATION Spec
CONSTANTS
    Submissions = {s1}
    Requests = {r1}
    Deliverers = {d1}
    Modes = {"PUSH"}
    NoOne = NoOne
    MaxCrashes = 0
    MaxFailures = 0
PROPERTY SentReachesHandler
CHECK_DEADLOCK FALSE
