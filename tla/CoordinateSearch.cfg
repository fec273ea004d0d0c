SPECIFICATION Spec
CONSTANTS
    Components <- MCComponents
    ProbeBudget = 5
    ActiveCap = 3
    MaxPasses = 1
CHECK_DEADLOCK FALSE
INVARIANTS
    RecordNeverRaises
    OptimumIsBracketed
