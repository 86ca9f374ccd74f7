SPECIFICATION Spec
CONSTANTS
    Process = {p1, p2}
    NoProcess = NoProcess
    Ttl = 1
    MaxFence = 2
    MaxSnaps = 0
    MaxAttempts = 1
    Requests = {"start", "resume"}
    Outcomes = {"user"}
    MaxFaults = 0
SYMMETRY Symmetry
PROPERTY CancelSticks
CHECK_DEADLOCK FALSE
