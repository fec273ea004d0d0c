SPECIFICATION Spec
CONSTANTS
    Plans <- MCPlans
    Drafts <- MCDrafts
    Replacements <- MCReplacements
    Targets <- MCTargets
    Credits <- MCCredits
    Vals = {0, 1}
    Budget <- MCBudget
    RefineBudget = 2
    MaxTunes = 1
    MaxLayers = 2
    MaxTunables = 2
    MaxSource = 3
    MaxSide = 2
    RequiredSide = 1
    DetectDuplicates = TRUE
    Garbled = Garbled
    Unhashable = Unhashable
    None = None
INVARIANTS
    OneLayerAtATime
    SpecsStayWhole
    SignedByItsAuthor
    TokensCountAnswers
    PatchesAreNew
PROPERTIES
    KeepsContract
CHECK_DEADLOCK FALSE
