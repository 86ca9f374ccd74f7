SPECIFICATION Spec
CONSTANTS
    Lifetime = 5
    MaxFanout = 5
    TokenBudget = 4
    NoCeiling = NoCeiling
    EstTokens = 1
    Ends = {"good", "empty", "plain", "no_model", "quota"}
    Width = 2
    Judges = 2
    Attempts = 2
    MaxFallbacks = 1
    Corrections = 1
    MaxTimeouts = 1
    SmallLifetime = 2
    SmallBudget = 2
    PipeEnds = {"good", "empty", "quota"}
    Items = 2
    Stages = 1
    Retries = 1
    Process = {p1, p2}
    Turn = {t1, t2}
    Token = {t1, t2}
    Root = root
    Owner = {root, t1, t2}
    Fact = {"report", "error", "interrupted"}
    NoToken = NoToken
    Cap = 1
    ClaimMax = 1
    TrailCap = 2
    MaxAgents = 2
    MaxNotices = 1
    MaxFaults = 1
    Cell = {c1}
    Ceiling = 2
    MaxStretch = 2
    MaxTurns = 2
    Nil = Nil
    Version = {1, 2}
    Value = {1, 2}
    Content = {1, 2}
    Opening = {1}
    MaxEdits = 1
    MaxStretches = 2
    AskingPlans <- TheAskingPlans
    Said = {"yes", "no"}
    Routes = {"a", "b", "c"}
    Default = "b"
    RouteFates <- TheFates
    Provider <- TheProvider
    Price <- ThePrice
    NoCredential = {}
    Fallbacks <- TheFallbacks
    MaxMoves = 2
    Tiers <- TheTiers
    Catalog = {"a", "b"}
    MaxOutages = 1
INVARIANTS TypeOK DiscountsAreEarned OnlyWholePanelsAreCached BooksCloseOnLeaves
    NoticesExplained SpendIsNeverForgotten ResumeKeepsItsWord
    GatesOpenOnHumanWord MovesAreAuthorised AcceptedSpecsHold
CHECK_DEADLOCK FALSE
