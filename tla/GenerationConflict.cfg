SPECIFICATION Spec
CONSTANTS
    first = first
    again = again
    other = other
    Requests <- MCRequests
    RunOf <- MCOneRun
    ProjectOf <- MCOneProject
    None = None
CHECK_DEADLOCK FALSE
INVARIANT
    RunningIdConflicts
