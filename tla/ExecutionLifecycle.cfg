SPECIFICATION Spec
CONSTANTS
    Workers = {w1, w2}
    Compensators = {c1, c2}
    Reports = {"RUNNING", "FAILED_RETRYABLE", "FAILED_RESCHEDULED", "SUCCESS", "FAILED"}
    MaxRetries = 1
    Surplus = 2
SYMMETRY Symmetry
CHECK_DEADLOCK FALSE
INVARIANTS
    ReleasedOnce
    DispatchPerFailure
    SingleAttemptSources
    RetryLimit
PROPERTIES
    TerminalStable
    ImplementsOutcome
