SPECIFICATION Spec
CONSTANTS
    Process = {p1, p2}
    NoProcess = NoProcess
    Ttl = 1
    MaxFence = 1
    MaxSnaps = 0
    MaxAttempts = 1
    Requests = {"start"}
    Outcomes = {"complete", "cancelled"}
    MaxFaults = 1
SYMMETRY Symmetry
PROPERTY CancelledOnlyOnRequest
CHECK_DEADLOCK FALSE
