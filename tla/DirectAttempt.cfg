SPECIFICATION Spec
CONSTANTS
    Authored <- MCOutside
    Tunables <- MCTunables
    Scores <- MCScores
    LlmBudget = 3
    CompileBudget = 2
    DrawBudget = 5
    RefineBudget = 1
    UniformBudget = 2
    ActiveCap = 1
    MaxPasses = 1
    TargetMae = 1
    TargetLoss = 1
    MinDeltaMae = 2
    MinDeltaLoss = 2
    Patience = 0
    DetectDuplicates = TRUE
    None = None
    Invalid = Invalid
CHECK_DEADLOCK FALSE
INVARIANTS
    DrawsReserved
    CompilesReserved
    BestUndominated
    SessionTracksIncumbent
    SearchBeforeRefine
    StopReasonTruthful
    NoHandleLeak
PROPERTIES
    Terminates
