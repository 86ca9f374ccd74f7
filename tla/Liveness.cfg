SPECIFICATION FairSpec
CONSTANTS
    Process = {p1}
    NoProcess = NoProcess
    Ttl = 2
    MaxFence = 2
    MaxSnaps = 1
    MaxAttempts = 1
    Requests = {"start"}
    Outcomes = {"complete", "quota"}
    MaxFaults = 1
PROPERTY OwnershipEnds
CHECK_DEADLOCK FALSE
