SPECIFICATION Spec
CONSTANTS
    first = first
    again = again
    other = other
    Requests <- MCRequests
    RunOf <- MCRunOf
    ProjectOf <- MCProjectOf
    None = None
CHECK_DEADLOCK FALSE
INVARIANTS
    LockMatchesHolder
    LedgerMatchesAnswer
    AnsweredIsSettled
    SucceededIsReadable
    ProgressIsOwn
PROPERTIES
    SettledIsFinal
    EveryRequestAnswered
