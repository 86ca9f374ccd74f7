SPECIFICATION Spec
CONSTANTS
    Process = {p1, p2}
    Turn = {t1, t2}
    Token = {t1, t2}
    Root = root
    Owner = {root, t1, t2}
    Fact = {"report","error","interrupted"}
    NoToken = NoToken
    Cap = 1
    ClaimMax = 1
    TrailCap = 2
    MaxAgents = 3
    MaxNotices = 1
    MaxFaults = 0
INVARIANT OneChildPerParent

CHECK_DEADLOCK FALSE
