SPECIFICATION Spec
CONSTANTS
    AttemptLimit = 2
    Executions = 2
    None = None
CHECK_DEADLOCK FALSE
INVARIANT
    FailedAttemptsLeaveSummary
