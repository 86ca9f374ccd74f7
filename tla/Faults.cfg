SPECIFICATION Spec
CONSTANTS
    Process = {p1, p2}
    NoProcess = NoProcess
    Ttl = 1
    MaxFence = 2
    MaxSnaps = 0
    MaxAttempts = 1
    Requests = {"start"}
    Outcomes = {"complete", "cancelled", "quota"}
    MaxFaults = 1
SYMMETRY Symmetry
INVARIANT AnnouncedIsDurable RecoveredIsSilent
PROPERTY ImplementsLifecycle
CHECK_DEADLOCK FALSE
