SPECIFICATION Spec
CONSTANTS
    AttemptLimit = 2
    Executions = 2
    None = None
CHECK_DEADLOCK FALSE
INVARIANTS
    EvidenceIsOneExecution
    PublishedIsPersisted
    ReadableIsCommitted
    OkIsReadable
    ExecutorsDoNotOverlap
PROPERTIES
    ExecutionEnds
    KeepsPromise
