SPECIFICATION Spec
CONSTANTS
    User = {u1}
    MaxFence = 2
    MaxPlans = 2
    Sub = {s1}
    Worker = {w1, w2}
    Text = {t1, t2}
    Canceller = {k1}
    MaxChildren = 1
    MaxGhosts = 1
    Lifetime = 2
    MaxFanout = 3
    TokenBudget = 2
    NoCeiling = NoCeiling
    EstTokens = 1
    Ends = {"good", "empty", "quota"}
    Items = 1
    Stages = 1
    Retries = 1
    Request = {r1}
    Workers = 1
    Nobody = Nobody
    Depth = 1
    Pieces = 2
INVARIANTS TypeOK LeaseIsBeaten AcceptanceIsKept WholeAnswers
PROPERTIES ShutdownReturns LeavesAreSettled StreamsMoveOn
CHECK_DEADLOCK FALSE
