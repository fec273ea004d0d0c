SPECIFICATION Spec
CONSTANTS
    Runs = 2
    Window = 1
    MaxEvents = 2
    None = None
CHECK_DEADLOCK FALSE
INVARIANTS
    PanelIsTrue
    NeverSilent
PROPERTIES
    SettledStays
