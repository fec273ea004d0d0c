SPECIFICATION Spec
CONSTANTS
    Authored <- MCAuthored
    Tunables <- MCTunables
    Scores <- MCChain
    LlmBudget = 4
    CompileBudget = 2
    DrawBudget = 5
    RefineBudget = 2
    UniformBudget = 2
    ActiveCap = 1
    MaxPasses = 1
    TargetMae = 1
    TargetLoss = 1
    MinDeltaMae = 2
    MinDeltaLoss = 2
    Patience = 1
    DetectDuplicates = TRUE
    None = None
    Invalid = Invalid
CHECK_DEADLOCK FALSE
INVARIANTS
    OneSessionPerSource
    ScoredCandidateIsKept
PROPERTIES
    NoWorkAfterBlock
