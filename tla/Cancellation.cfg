SPECIFICATION FairSpec
CONSTANTS
    Submissions = {s1, s2, s3}
    Requests = {r1, r2}
    Deliverers = {d1, d2}
    Modes = {"PUSH", "PULL"}
    NoOne = NoOne
    MaxCrashes = 1
    MaxFailures = 2
INVARIANTS
    OneStart
    EarlyCancelPreventsStart
    WaitingIsApplied
    ScheduledMeansCancelled
PROPERTIES
    SentStays
    SignalIsSent
CHECK_DEADLOCK FALSE
