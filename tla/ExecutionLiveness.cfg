SPECIFICATION FairSpec
CONSTANTS
    Workers = {w1, w2}
    Compensators = {c1}
    Reports = {"RUNNING", "FAILED_RETRYABLE", "FAILED_RESCHEDULED", "SUCCESS"}
    MaxRetries = 2
    Surplus = 1
CHECK_DEADLOCK FALSE
PROPERTY EventuallyFinal
