------------------------------ MODULE MCServices ------------------------------
(***************************************************************************)
(* What serves a run and its users, for TLC: steers, turns, streams,       *)
(* scheduled jobs, logins, auto-resumes, late snapshots, audit trails,     *)
(* tools of external servers.  The initial state chooses which part is     *)
(* examined; the parts share no state, so one behaviour is a behaviour of  *)
(* one part, and v1 .. v12 hold the variables of whichever that is.        *)
(***************************************************************************)
EXTENDS Integers

CONSTANTS
    Call, Leaf, MaxPerRun, MaxPerLeaf, MaxCorrections, MaxCrashes,     \* SteeringBudget
    Dialect, MaxIterations, Window, KeepFirst, KeepLast, MaxWorkers, MaxSlots,
    MaxSteers,                                                         \* AgentTurn
    Request, Workers, Depth, Nobody, Pieces,                           \* StreamServer
    Client, Job, Schedule, MaxTime, MaxMoves,                          \* CronJobs
    Person, MaxLogins, MaxRotations, MaxFaults,                        \* SubscriptionAuth
    Process, NoProcess, Ttl, MaxFence, MaxSnaps, MaxAttempts, Requests,
    Outcomes,                                                          \* RunOwnership
    QueueLimit, MaxBuckets, LastTries, MaxOrder,                       \* AuditTrail
    Runs, MaxEvents, Limits, Retention, Days, MaxTaken, MaxAppends, PageSize,
                                                                       \* AuditLedger, AuditReader
    Rival, FewFences, LateSnaps, LateOutcomes,                         \* RunOwnership again
    ToolServer, ToolName, BuiltinName, ToolListings, Reach, MaxRefreshes     \* McpTools

VARIABLES part, v1, v2, v3, v4, v5, v6, v7, v8, v9, v10, v11, v12

Steering == INSTANCE SteeringBudget WITH
    used <- v1, limits <- v2, turn <- v3, call <- v4, inbox <- v5, trail <- v6, dead <- v7

Loop == INSTANCE AgentTurnProofs WITH
    mode <- v1, agent <- v2, hist <- v3, turn <- v4, stream <- v5, tools <- v6, billed <- v7,
    asked <- v8

Bridge == INSTANCE StreamServerProofs WITH
    Answer <- Pieces,
    bridge <- v1, prod <- v2, http <- v3, workers <- v4, host <- v5

Cron == INSTANCE CronJobs WITH
    file <- v1, tmp <- v2, edit <- v3, loop <- v4, clock <- v5, fired <- v6, wanted <- v7,
    cut <- v8

Auth == INSTANCE SubscriptionAuth WITH
    Client <- Person,
    config <- v1, tokens <- v2, codex <- v3, lock <- v4, client <- v5, server <- v6,
    faults <- v7

Resuming == INSTANCE RunOwnershipProofs WITH
    row <- v1, fence <- v2, lease <- v3, guard <- v4, pc <- v5, acq <- v6, view <- v7,
    snap <- v8, prep <- v9, registry <- v10, plan <- v11, faults <- v12

Trail == INSTANCE AuditTrail WITH
    box <- v1, writer <- v2, drain <- v3, closer <- v4, sink <- v5

Ledger == INSTANCE AuditLedger WITH
    MaxTime <- Days,
    ledger <- v1, limit <- v2, clock <- v3, owner <- v4, wrote <- v5

Reader == INSTANCE AuditReader WITH
    Runs <- 2, Limits <- {1}, MaxTime <- Days, MaxTaken <- 0, MaxAppends <- MaxAppends + 2,
    ledger <- v1, limit <- v2, clock <- v3, owner <- v4, wrote <- v5, reader <- v6

Late == INSTANCE RunOwnershipProofs WITH
    Process <- Rival, MaxFence <- FewFences, MaxSnaps <- LateSnaps, MaxFaults <- 0,
    Outcomes <- LateOutcomes,
    row <- v1, fence <- v2, lease <- v3, guard <- v4, pc <- v5, acq <- v6, view <- v7,
    snap <- v8, prep <- v9, registry <- v10, plan <- v11, faults <- v12

Tools == INSTANCE McpTools WITH
    Server <- ToolServer, Name <- ToolName, Builtin <- BuiltinName, Listings <- ToolListings,
    Allow <- [l \in Leaf |-> Reach],
    entries <- v1, session <- v2, manager <- v3, call <- v4

after4 == <<v5, v6, v7, v8, v9, v10, v11, v12>>
after5 == <<v6, v7, v8, v9, v10, v11, v12>>
after7 == <<v8, v9, v10, v11, v12>>
after8 == <<v9, v10, v11, v12>>
vars == <<part, v1, v2, v3, v4, v5, after5>>

Unused8 == v9 = 0 /\ v10 = 0 /\ v11 = 0 /\ v12 = 0
Unused7 == v8 = 0 /\ Unused8
Unused5 == v6 = 0 /\ v7 = 0 /\ Unused7
Unused4 == v5 = 0 /\ Unused5

Init ==
    \/ part = "steering" /\ Steering!SteeringInit /\ Unused7
    \/ part = "turn" /\ Loop!TurnInit /\ Unused8
    \/ part = "server" /\ Bridge!StreamInit /\ Unused5
    \/ part = "cron" /\ Cron!CronInit /\ Unused8
    \/ part = "auth" /\ Auth!AuthInit /\ Unused7
    \/ part = "auto" /\ Resuming!Init
    \/ part = "late" /\ Late!Init
    \/ part = "trail" /\ Trail!TrailInit /\ Unused5
    \/ part = "ledger" /\ Ledger!LedgerInit /\ Unused5
    \/ part = "reader" /\ Reader!ReaderInit /\ v7 = 0 /\ Unused7
    \/ part = "tools" /\ Tools!McpInit /\ Unused4

Next ==
    \/ part = "steering" /\ Steering!SteeringNext /\ UNCHANGED <<part, after7>>
    \/ part = "turn" /\ Loop!TurnNext /\ UNCHANGED <<part, after8>>
    \/ part = "server" /\ Bridge!StreamNext /\ UNCHANGED <<part, after5>>
    \/ part = "cron" /\ Cron!CronNext /\ UNCHANGED <<part, after8>>
    \/ part = "auth" /\ Auth!AuthNext /\ UNCHANGED <<part, after7>>
    \/ part = "auto" /\ Resuming!Next /\ UNCHANGED part
    \/ part = "late" /\ Late!Next /\ UNCHANGED part
    \/ part = "trail" /\ Trail!TrailNext /\ UNCHANGED <<part, after5>>
    \/ part = "ledger" /\ Ledger!LedgerNext /\ UNCHANGED <<part, after5>>
    \/ part = "reader" /\ Reader!ReaderNext /\ UNCHANGED <<part, v7, after7>>
    \/ part = "tools" /\ Tools!McpNext /\ UNCHANGED <<part, after4>>

ASSUME AuditAssumption == 
    Trail!TrailAssumption /\ Ledger!LedgerAssumption /\ Reader!ReaderAssumption

ASSUME RunsAssumption ==
    /\ Resuming!StoreAssumption /\ Resuming!OwnershipAssumption /\ Resuming!OutcomesAssumption
    /\ Late!StoreAssumption /\ Late!OwnershipAssumption /\ Late!OutcomesAssumption

ASSUME ServersAssumption ==
    /\ Bridge!StreamAssumption /\ Tools!McpAssumption /\ Cron!CronAssumption
    /\ Auth!AuthAssumption /\ Loop!TurnAssumption

\* A job of each type, named for it, as often as can be.
TheSchedule == [j \in {"once", "interval", "cron"} |-> [type |-> j, value |-> 1]]

Spec == Init /\ [][Next]_vars
-----------------------------------------------------------------------------
(* Every part's state has its type. *)
TypeOK ==
    /\ part = "steering" => Steering!SteeringTypeOK
    /\ part = "turn" => Loop!TurnTypeOK
    /\ part = "server" => Bridge!StreamTypeOK
    /\ part = "cron" => Cron!CronTypeOK
    /\ part = "auth" => Auth!AuthTypeOK
    /\ part = "auto" => Resuming!TypeOK
    /\ part = "late" => Late!TypeOK
    /\ part = "trail" => Trail!TrailTypeOK
    /\ part = "ledger" => Ledger!LedgerTypeOK
    /\ part = "tools" => Tools!McpTypeOK

(* Each property is its module's, of the part it is about. *)
SteersAreKept == part = "steering" => Steering!SteersAreKept
TurnsAreFaithful ==
    part = "turn" => Loop!HistoryReplays /\ Loop!ToolsRunAsAsked /\ Loop!MeterIsAFloor
ToolsKeepTheirServer ==
    part = "tools" =>
        Tools!CallsGoWhereAllowed /\ Tools!ListingsAreWhole /\ Tools!NothingIsLeftOpen
ProducersAreOwned == part = "server" => Bridge!ProducersAreOwned
JobsDoAsAsked == part = "cron" => Cron!JobsDoAsAsked
LoginsAreShared ==
    /\ [](part = "auth" => Auth!TokensAreSpentOnce)
    /\ [][part = "auth" => Auth!HandsOutTheStore]_vars
AutoResumeCapped == [][part = "auto" => Resuming!AutoLaunchIsCapped]_vars

(* What the trail's process lost, and what its ledger pruned, is told:      *)
(* LossesAreTold, ReadersSeeTheGaps, ActiveRunsLast, and PagesAddUp.        *)
AuditTellsItsGaps ==
    /\ [](part = "trail" => Trail!LossesAreTold)
    /\ [](part = "ledger" => Ledger!ReadersSeeTheGaps)
    /\ [](part = "reader" => Reader!PagesAddUp)
    /\ [][part = "ledger" => Ledger!KeepsTheActive]_vars

(* Late!ImplementsLifecycle, of this part: a snapshot of a run's progress  *)
(* that is written any time after it was captured is a stutter.            *)
ImplementsLifecycle ==
    /\ part = "late" => Late!Lifecycle!LifecycleInit
    /\ [][part = "late" =>
            Late!Lifecycle!LifecycleNext \/ UNCHANGED Late!Lifecycle!lifecycleVars]_vars
=============================================================================
