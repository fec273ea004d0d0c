SPECIFICATION Spec
CONSTANTS
    a = a
    b = b
    None = None
    Sources <- MCSources
    Replays = 1
    MaxCalls = 3
    MaxFaults = 2
    MaxCancels = 1
INVARIANT
    ReceiptsAttestOwnProgram
CHECK_DEADLOCK FALSE
