SPECIFICATION Spec
CONSTANTS
    Process = {p1, p2}
    NoProcess = NoProcess
    Ttl = 1
    MaxFence = 2
    MaxSnaps = 0
    MaxAttempts = 1
    Requests = {"start", "resume", "abort"}
    Outcomes = {"complete", "cancelled", "quota", "user"}
    MaxFaults = 0
SYMMETRY Symmetry
INVARIANT TypeOK OneEnginePerProcess LaunchSeesTheLine
PROPERTY VerdictStands CancelSurvivesLaunch AbortEndsOnlyThePause
CHECK_DEADLOCK FALSE
