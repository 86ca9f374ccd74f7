# A verification development for lohra

lohra is an agent runtime. Its centre is a *workflow service*: a run is a graph of
LLM calls and scripts executed by an engine inside a service process. Runs are long
and expensive, so they are durable (every finished cell is cached in SQLite),
resumable (by a user, or by a timer after a provider quota pause), cancellable from
anywhere, and can be taken over by another service process when the one that ran
them died. Several processes share one database and know nothing of each other
except what its tables say. Around the service stand an orchestration core for
sub-sessions, a gateway with its sessions and notices, a streaming server, a cron
loop, rotating subscription logins, external tools, and an audit trail.

These TLA+ modules model that machinery, TLC checks them on small instances, and
TLAPS proves the central results for every instance. Paths below are relative to
`src/backend/lohra/`.

## 1. The system

### 1.1 Components

| Component (main files) | State it keeps | What is hard | What makes it correct | Module |
|---|---|---|---|---|
| Durable run line (`state/runstate.py`, `state/db.py`, `state/publication.py`) | line, fence, lease, guard of a run | every caller decides on something it read earlier | compare-and-swap on fence, revision, status | `RunStore` |
| Run ownership (`workflow/service.py`, `runstate_store.py`) | registry, run views, remembered fences | leases that lapse in a stalled process, crashes anywhere, late threads of a superseded stretch | one acquisition counts; verdicts stand; what is announced is durable | `RunOwnership`, `RunLifecycle` |
| Launch admission (`submission.py`), auto-resume (`autoresume.py`), heartbeat (`lease_heartbeat.py`) | tickets, plans and their timers, beats | a pool that queues and then raises, timers that fire before they were accepted, a tick across `stop` | what was accepted, and only that, goes on; a live run beats, a finished one does not | `LaunchAdmission`, `ResumeScheduler`, `LeaseHeartbeat`, composed in `ServiceProcess` |
| Spend and settlement (`spend.py`, `usage_ledger.py`, `financial_settlement.py`, `state/db.py`) | spend row, priced cells, frozen settlement | a write that committed and then raised, costs that land late, a stretch that lost the run | no cost is counted twice or lost | `RunLedger` |
| Cell cache and preview (`cache.py`, `cell_identity.py`, `cache_preview.py`, `artifact.py`) | cell rows, manifests of files | legacy rows, two calls of one template, files somebody edited | a resume replays its own cells, and announces what it pays for again | `ResumePreview` |
| Engine (`engine.py`, `strategies.py`, `gates.py`, `leaf_retry.py`, `budget.py`) | leaves, books, faults, latch, slots | hooks, timeouts, a stop and the barrier in any order; a fault with two remedies | discounts are earned, books close on their leaves, only whole work is cached | `LeafBudget`, `EngineBooks`, `NodeStrategies`, `PipelineRun` |
| Checkpoints and routes (`launch.py`, `checkpoint_address.py`, `route_fault.py`, `routes.py`, `model_substitution.py`) | the question a run stopped with, the operator's envelope and its brake | answers under another release, another label or another route | gates open on a human's word to that gate; moves are authorised | `PausedRun` |
| Specs (`schema.py`, `nodes.py`, `refs.py`, `prompts.py`, `run_workflow`) | the validated graph, outputs of the nodes | a dead element or a null that reaches a later node by one of several doors | an accepted spec runs in order, over whole inputs, with the knobs it declares | `SpecRun`, `AuthoredSpecs` |
| Orchestration core (`orchestration/core.py`) | registry, pool, steers, hooks | cancel, worker and shutdown all settle one sub-session | one completion each; no steer lost | `OrchestrationCore`, `SubSession` |
| Steering from outside (`supervision.py`, `steering.py`) | durable and local limits, audit events | a refusal, a settlement and an exception of either | a steer counts once and is told once | `SteeringBudget` |
| Notices, gateway sessions, compaction (`state/notices.py`, `gateway/*.py`, `state/compression_lock.py`) | notices with claims, sessions, the compaction lock | a claimer that stalls past its lease, a fork in the middle of a turn | a notice disappears only with an explanation | `DurableNotices`, `GatewaySessions` |
| Audit (`audit.py`, `state/audit.py`, `state/audit_query.py`) | bounded queue, gap markers, ledger segments, tombstones | full queue, failing sink, pruning under a reader | losses are told, once, in their place | `AuditTrail`, `AuditLedger`, `AuditReader` |
| Agent turn (`agent/loop.py`, `client.py`, `context.py`, `tool_batches.py`) | history, stream, tool batch, meter | interrupts and aborts between an answer and its tools | histories replay, tools run as asked, the meter is a floor | `AgentTurn` |
| Streaming server (`server/stream_*.py`, `cancellation.py`) | bounded bridge, producers | a producer blocked on a reader that left | answers are whole, everybody moves on, producers are owned | `StreamServer` |
| External tools (`mcp/*.py`, `tools/registry.py`, `workflow/sandbox.py`) | session threads, owners of public names | names that change hands between a check and its use | the handler that runs is of the entry that was judged | `McpTools` |
| Cron (`cron/*.py`) | job file, tick | a tick that runs from an old list | jobs run on schedule; edits stand | `CronJobs` |
| Subscription logins (`subscription/*.py`) | consent, rotating tokens | two processes refresh one login | a refresh token is spent once | `SubscriptionAuth` |
| Delegation, provider errors, approval, memory, skills, reports, catalogue, onboarding, CLI | - | mostly sequential or pure | - | section 6 |

`PROJECT.json` lists each with its status and, under `hazards`, what in it is hard
to test, at its line, with the properties that would catch it.

### 1.2 How they interact

    start / resume / timer --> LaunchAdmission.reserve --> runstate.acquire (fence + 1, lease)
         ^                                                     |  older plan and beat dropped
         |                                                     v
    ResumeScheduler <-- quota pause -- run thread <- submit - reload, register, launch write
         timers                         |  ^                    (restored and released if refused)
                                        |  +-- LeaseHeartbeat: renew, or "lost" -> request_cancel
                                        v
      finish -> settle (RunLedger) -> final snapshot -> release -> guard: re-read, certify,
                                                                   notify (DurableNotices), record

    run thread = engine:  SpecRun orders the nodes; NodeStrategies and PipelineRun run one;
      each leaf is a sub-session of OrchestrationCore, billed in EngineBooks when its hook
      or its collector says it ended, cached with its cost in one fenced transaction, and
      inside is one AgentTurn after another, whose tools come from the registry (McpTools);
      a question or a dead route stops it (PausedRun) until somebody answers;
      outsiders steer it (SteeringBudget), and everything is told to the AuditTrail.

A *stretch* is what one acquisition does. It is named by the *fence* it was given,
a number that grows by one per acquisition, and every write presents it. A lease
with a time to live says whether somebody is inside; a heartbeat renews it. A
cancel may present a stretch's fence, or none if no lease is live. While a stretch
announces its outcome it holds the run's publication guard, which cancel and
acquire try without blocking.

## 2. The modules

| Module | Models | Proved about |
|---|---|---|
| `RunStore` | the tables of one run; each operator is one SQLite transaction | as part of `RunOwnership` |
| `RunOwnership` | processes x stretches x tables: `service.py` and `runstate_store.py` between two transactions | yes |
| `RunLifecycle` | the abstract specification: one line, one acquisition that counts | refinement target |
| `RunOwnershipProofs` | theorems and lemmas about `RunOwnership` | - |
| `LaunchAdmission`, `ResumeScheduler`, `LeaseHeartbeat` | three helper objects, one operator per critical section | - |
| `ServiceProcess` | one process from inside: launching, run, timer, scan and shutdown threads, over the three helpers by `INSTANCE` | yes, in `ServiceProcessProofs` |
| `OrchestrationCore` | the registry, the pool's workers and every caller, between two holds of its lock | yes |
| `SubSession` | abstract specification of a sub-session: status, hook, refund | refinement target |
| `OrchestrationCoreProofs` | theorems and lemmas about `OrchestrationCore` | - |
| `RunLedger` | spend row, priced cells, each acquisition's tally | yes, in `MCRecordsProofs` |
| `LeafBudget`, `EngineBooks` | slots and tokens; leaves, books, latch, faults: operators | as `PipelineRun` uses them |
| `NodeStrategies` | the run thread over the nodes of a plan, over `EngineBooks` | - |
| `PipelineRun` | one pipeline, its hooks on workers, the seal, over `EngineBooks` | yes, in `MCRecordsProofs` |
| `ResumePreview` | resume of cells | - |
| `PausedRun` | resume of questions and routes | yes, in `MCRecordsProofs` |
| `SpecRun`, `AuthoredSpecs` | validator, order, reads, required aborts, nested run, certification; the specs tried | - |
| `DurableNotices`, `GatewaySessions` | board and trail; turns, compaction and forks over them | yes, in `MCRecordsProofs` |
| `SteeringBudget`, `StreamServer` | as in 1.1 | yes, in `MCServicesProofs`, `StreamServerProofs` |
| `McpTools` | as in 1.1 | yes, in `MCServicesProofs` |
| `SubscriptionAuth`, `CronJobs` | as in 1.1 | yes, in `MCServicesProofs` |
| `AgentTurn` | as in 1.1 | yes, in `AgentTurnProofs` |
| `AuditTrail`, `AuditLedger`, `AuditReader` | one process's trail; the ledger; the pages of a reader over the ledger | - |
| `MCRunOwnership`, `MCOrchestrationCore` | symmetry | - |
| `MCThreads`, `MCRecords`, `MCServices` | union instances: the initial state chooses a part | `MCThreadsProofs`, `MCRecordsProofs`, `MCServicesProofs` |

`PROJECT.json` maps definitions to lines down to the helpers that carry a decision; a
one-line accessor or an empty value is covered by the entry of the definition that uses it.

Operators beside a definition with a name like `CanWrite_Unfenced` are the mutants
`PROJECT.json` lists: a plausible bug under which TLC finds the property violated.

### 2.1 RunStore, RunOwnership, RunLifecycle

`row`, `fence`, `lease`, `guard` are the tables and the guard. `lease.left` is
`expires_at - now`, so time is relative and there is no clock to bound; an expired
row that is still on disk is `left = 0`. `row.revision` counts writes of the line.

Per stretch `f`: `pc[f]` is where its thread stands between two transactions,
`view[f]` what `RunState` says, `snap[f]` a progress snapshot captured but not
written yet, `acq[f]` everything else it knows (prior line, launch receipt, verdict,
flags of engine and heartbeat). Per process `p`: `prep[p]` the launch it prepares
(the ticket and the captured token), `registry[p]` the entry of `_runs`, `plan[p]`
its auto-resume.

One action is the code between two points where somebody else may act:
`Prepare`/`Resume`/`Fire` (read, remember) -> `AcquireRun` -> `Admit` (reload, clash
check, register) -> `LaunchWrite` -> `Submit` -> `Finish` -> `OnPaused` -> `Settle` ->
`ReleaseRun` -> `EnterGuard` -> `Publish`, with `Abandon` and `ReleaseRefused` for a
launch that does not make it, and `Capture`/`WriteSnapshot`, `Beat`, `LeaseLost`,
`BusyRenewal`, `CancelRun`, `AbortRoute`, `Rearm`, `ArmPlan`, `Time` and `Crash`
from anywhere in between. `prep[p]` keeps what was read *before* the acquire, so
all stale decisions of the code can happen in the model.

Abstractions: the pause reason `"user"` stands for user_requested, token_budget,
checkpoint and route_fault, which differ only in what the human is asked
(`PausedRun` looks inside); the engine is its verdict (`Outcomes`), plus the rule that
`cancelled` needs the cancel flag; a crashed process stays down, because a restart has
a fresh holder id and empty memory and so *is* another member of `Process`; a stretch
that ended keeps only what a later step can read (`Closed`, `Forgotten`).

`RunLifecycle` has three variables: what the line says, which acquisition counts and
how far it got. `RunOwnership` implements it under `status <- row.status`,
`generation <- fence`, `phase <- CurrentPhase`. A step of a superseded stretch must be
a stutter: that is what the fence is for, and why this refinement is the main safety
statement.

### 2.2 ServiceProcess

`RunOwnership` has many processes and treats each one's mutexes as it needs them;
`ServiceProcess` has one process and takes its threads apart: `launch[t]` a launching
thread (a claimed plan launches from its own timer thread), `run[f]` a run thread
(`"queued"` is work the pool has and nobody started, reached also by a pool that queues
and then raises), `release` in two steps, a heartbeat tick in four, arming a plan in
four, and `exit` the thread inside `shutdown()`. Other processes are `Usurp` and
`Yield`. The initial line is new, or a quota pause an earlier process left behind,
which the start-up scan finds.

### 2.3 OrchestrationCore and SubSession

`sub[c]` is the `_SubSession` with its Future, `children` the registry, `work` the
calls queued on the pool, `inbox` the steers not yet detached. A worker's place in
`_run` is `worker[w].at`; `closer[k]` is a thread inside `cancel`, `exit` the one inside
`shutdown`. What the code does under its lock is one action, the steps outside it (the
turn, `settle_steers`, `future.cancel`, `discard_steers`, the hook) are actions of
their own. Refusals leave no trace and are stuttering steps. Meters, causal identity
and audit frames are left out.

`SubSession` is what the engine that accounts for a sub-session may rely on: it is
running, or it is settled and then its hook is called once; `cancelled` is said only of
one that never ran a turn and is final; a new series starts only over a settled one
whose hook was called. A sub-session dropped from the queue may be evicted between
`_settle_dropped` and its hook (`core.py:729-731`); the hook is then called with an id
`collect` no longer knows. `SettledOwesNothing` leaves room for that.

### 2.4 The engine: LeafBudget, EngineBooks, NodeStrategies, PipelineRun

A leaf is a number in the order the core accepted it. `leaf[l]` is what `collect` says
of it; `book` the `_accounted`, `_pending_account` and `_spawned` of `engine.py` with
its seal; `stop` the cancel event and the `PauseSignal`; `faults` the faults of the
verdict, each with the door its discount came by. These are operators; the two modules
above make steps of them.

`NodeStrategies` walks a plan (a sequence of node kinds) on the run thread: ask for a
group, collect in order, decide. Leaves, deadlines, the operator's cancel and late
accounts move in between. Each decision of a strategy is an action (`AgentDied`,
`BranchDecides`, `PanelDecides`, ...), with the envelope's re-route, the catalogue's
substitute and the pause on a dead route.

`PipelineRun` has the node thread `job[0]` and a hook `job[l]` per leaf, a step being
one hold of a lock or one call of the core, so that the barrier, the deadline, a stop
and any number of hooks meet in any order.

### 2.5 Resumes: ResumePreview, PausedRun, RunLedger

`ResumePreview` flattens a spec into its cells: a scalar node is one, a pipeline one per
(item, stage), a nested workflow those of its template under the call that made them.
Between stretches an author edits, anybody writes to the run's files; a stretch
announces first and then runs. Old releases' rows (without a scope) are in the initial
states. One path per manifest, one file per declared path; stamps and advisory texts
are left out. `stretch.excused` names the cells of the code's three known
deviations (section 5.2, a to c).

`PausedRun` keeps the plan fixed across adapted specs (only routes change), spells an id
as a tuple so that a root node can be called what a nested one is labelled, and takes a
leaf's answer to be the route it ran on. Questions of the old format are in the initial
states. Effort, malformed answers and partial routes are left out.

`RunLedger` takes meters as one number and a leaf's usage as it adds up over its turns;
every stretch, current or not, goes on charging; writes commit, fail, or commit and raise.

### 2.6 SpecRun and AuthoredSpecs

`Accepted` is `validate_spec` as a conjunction of named parts; `fr.order` the topological
order; `Lookup` a reference; `stack` the frames of a run and its nested run; `died` the
dead elements of fan-outs. Specs are explicit sets: three agents tied every way, readers
behind every kind of source, nested templates, each knob on both sides of its bounds,
specs with a broken head. Answers are text no path descends into (the lenient JSON parse is
left out), rigor nodes are one prompt and one answer, nesting is one deep and lists have
two elements. A run is certified as a template only when it is complete.

### 2.7 Around the run

* `GatewaySessions`: a turn is a worker thread of one prompt; a transcript is the
  sequence of turns whose messages a session holds. The transport is left out.
* `SteeringBudget`: every caller's thread between two locks, the core's settlement
  before or after it, two processes over one durable count.
* `AgentTurn`: a stream is what it delivered so far (slots, finish, receipt); the three
  dialects' readers are one operator, `Reading`. A history is its messages by the place each
  was appended at: what compaction or `_strip_orphan_tools` takes out leaves a gap.
* `StreamServer`: producer, bridge and HTTP task per request. Tasks of the loop
  interleave more than one event loop allows. Legacy services without cancellation,
  the byte limit and a loop that refuses `call_soon` are left out.
* `McpTools`: the session's thread, the manager in `connect_all`, `refresh` or
  `shutdown`, and leaves that call by name from preflight to answer. Schemas, results
  and the name of a tool inside its server are data; servers are taken in any order.
* `CronJobs`: one store per process, one temporary file for all; a job's `Schedule` is its type
  and value, which no edit changes.
* `SubscriptionAuth`: each file operation inside the profile transaction is a step; the
  token endpoint is external.
* `AuditTrail`: one run of one process; sets of ordinals beside the counts the code
  keeps; the writer's busy ladder is a success or a failure. After the writer gave up,
  `NothingSlips` is excused (`setdefault` drops a second marker of the same key).
  `AuditLedger`: `append()` as a chain of operators, one per group of statements; runs are
  numbers; unfenced writers are left out. A run whose tombstone was compacted reads as
  fresh, which the code names as a residual. `AuditReader` walks pages over it.

## 3. What the runs check

All `pass` runs finish with no error; the numbers are distinct states.

| Run | Instance | Shows |
|---|---|---|
| `requests` (0.9 M) | 2 processes, 2 acquisitions, starts, resumes and aborts, every verdict, no faults | `TypeOK`; `OneEnginePerProcess`; `LaunchSeesTheLine`; `VerdictStands`: a verdict only leaves the line by a new launch; `CancelSurvivesLaunch`: a cancel after the reload is not overwritten by the launch; `AbortEndsOnlyThePause`: an abort never kills a stretch that resumed the pause meanwhile |
| `faults` (1.2 M) | 2 processes, 1 crash, storage error or exception anywhere | `AnnouncedIsDurable`; `RecoveredIsSilent`: a stretch announced as recovery of an abandoned run follows one that announced nothing; `ImplementsLifecycle` |
| `liveness` (0.4 M) | 1 process, 2 acquisitions, one fault, one late snapshot, a lease of two ticks, fairness | `OwnershipEnds`: whatever failed, an acquisition whose engine does not run lets the run go |
| `core` (1.3 M) | 2 sub-sessions, registry of one, 2 workers, 1 steer, 1 canceller, shutdown of both kinds | `StatusTellsWork`: a terminal status is never said over a queued or running turn; `SettledOwesNothing`: what no thread works on has called its hook and emptied its inbox, what was evicted is over, a steer is held or settled, never both; `ImplementsSubSession` |
| `threads` (0.14 M) | union, under fairness: service process, core, pipeline, streaming server | `LeaseIsBeaten`, `AcceptanceIsKept`, `WholeAnswers`, `ShutdownReturns`, `LeavesAreSettled` (hooks fire, the barrier opens), `StreamsMoveOn` |
| `records` (4.8 M) | union: nodes, pipeline, gateway, ledger, preview, paused, spec | `DiscountsAreEarned`, `OnlyWholePanelsAreCached`, `BooksCloseOnLeaves`, `NoticesExplained`, `SpendIsNeverForgotten`, `ResumeKeepsItsWord`, `GatesOpenOnHumanWord`, `MovesAreAuthorised`, `AcceptedSpecsHold` |
| `services` (3.0 M) | union: steering, turn, server, cron, logins, auto-resume, late snapshots, audit trail, ledger, reader, tools | `SteersAreKept`, `TurnsAreFaithful`, `ProducersAreOwned`, `ToolsKeepTheirServer`, `JobsDoAsAsked`, `LoginsAreShared`, `AutoResumeCapped`, `ImplementsLifecycle` of a snapshot written arbitrarily late, `AuditTellsItsGaps` |
| `resume_race`, `busy_renewal`, `refused_resume`, `fork_twice`, `audit_clean` | one question each | counterexamples, section 5.1 |

A union run's initial state chooses a *part*; parts share no state, so each behaviour is
a behaviour of one part, and its properties are implications on `part`. A union costs
the sum of its parts and lets related questions be asked of one instance; `MCThreads`
restates the fairness of each part with the part as a guard. What the composed properties say:

* `DiscountsAreEarned`: a fault is excused once and for a reason: recovered only if a
  later leaf of the node answered, the pause's only if the run paused; a run is
  complete only if every node answered and every other fault was excused.
* `BooksCloseOnLeaves`: a lifetime slot is taken exactly by a spawn under way or a leaf
  that is not refunded; after the seal every costly leaf is billed once, a straggler or
  uncertain; a pipeline's report is final and leaves no leaf nobody stops.
* `ResumeKeepsItsWord`: a cell replays only what its own invocation was told, and what a
  run already has is not paid for again unless the preview said so.
* `MovesAreAuthorised`: the envelope moves no dead route twice and the run no oftener
  than allowed, however often it crashes; no node goes back to a route it died on; a
  route pause names the route the resume would take.
* `AcceptedSpecsHold`: order, whole prompts, honest aborts, whole certified templates, and
  no declared knob is ignored.
* `TurnsAreFaithful`: every request and every history handed back is one a provider
  replays; a tool runs once, whole, in order and never for a response still to come
  when the turn was told to stop; the meter is a floor of the bill, and the bill when it
  says so.
* `ToolsKeepTheirServer`: a leaf's call reaches only a server its run allows, however
  names change hands between preflight, dispatch and handler; a server owns the listing
  it published last, whole, or nothing; a session nobody tracks was told to stop.
* `AuditTellsItsGaps`: every ordinal is stored, in a gap, held or refused; gaps keep
  place and count; readers see one prefix gap and then every later event; pages add up;
  an active run is not evicted before one at rest.

### 3.1 Bounds

* `MaxFence = 2`: the hazards are between a stretch and its successor, and the store
  forgets everything about fences but the latest. The auto-resume part has 3, because
  exceeding one attempt takes three launches.
* `Process` has two members: every rule of the store tells only "this holder" from
  "another holder". Processes are interchangeable, hence the symmetry in the safety
  runs; runs with liveness have none. `liveness` has one process, which may fail or be
  restarted once: what an ended acquisition still holds is its own.
* `Ttl = 1`: a lease is live or lapsed, and ticks are not forced, so every age of a
  lease is a moment at which `Time` may happen. `liveness` uses 2: with a lease one tick
  ends, a heartbeat nobody stops could not keep a run for ever.
* `MaxSnaps = 1`, `MaxFaults = 1`, `MaxCrashes = 1`, `MaxKills = 1`: each fault has its own
  recovery path and no recovery path relies on a second one.
* `Sub` has two members and `MaxChildren = 1` in `core`: one to be evicted, one whose
  spawn evicts it. Two workers run an accepted call and a rejected one of the same
  sub-session side by side; `MaxGhosts = 1` is that rejected call.
* Nodes: `Width = 2`, `Attempts = 2`, `MaxFallbacks = 1`, one correction, one deadline.
  Lifetime and fan-out 5 are what a panel of two attempts needs (two attempts, two
  judges, one synthesis); a token budget of 4 runs out inside it. Every kind of node is
  taken alone and two chains show what one node leaves to the next.
* Pipeline: two items, one stage in `records` (one item in `threads`), one retry; two
  items are one that ends while the other is on its way.
* Gateway: two turns in two processes, caps of one. Ledger: two stretches, two turns of
  one cell. Preview and paused runs: two stretches, one edit or outage, two moves; the
  plans are the pairs of cells and of questions that can be mistaken for each other.
* Turn: two iterations, two tool slots, a window of three. Streams: one worker, two
  requests; two pieces through a queue of one in `threads`. Cron: one job of a type,
  three half-minutes, three edits, a kill. Logins: two clients, two logins, a rotation.
  Audit: a queue of one, three ordinals, three runs of which one may be kept, three
  appends. Tools: two servers, three names of which one is a built-in's, two refreshes
  (a name changes hands by one server losing and another gaining it).

`CHECK_DEADLOCK FALSE` everywhere: acquisitions are bounded, a run that was finished and
announced has no obligation to be started again, and a service that was shut down stops.

### 3.2 Fairness

`RunOwnership!Fairness`: the clock ticks, and launching and epilogue threads move: they
wait for nothing but SQLite's bounded busy timeout. The engine is *not* fair: a model
call need not return, and that is what `OwnershipEnds` excludes by `pc = "running"`.

`ServiceProcess`: a started thread runs, a live timer fires, an engine that was asked to
stop and is still registered returns, and a claimed plan launches. No user need call, no
other process need take or give the run, and `shutdown` need never be called.

`OrchestrationCore`: a pool worker with work moves, threads inside `cancel` and
`shutdown` go on, and a turn ends, because the transport has read timeouts.

`PipelineRun!Progress`: the node thread and the hooks go on and leaves end; the deadline is
not needed. `StreamServer`: producers, tasks and the wake-up that was requested go on; a
client need not read.

## 4. What is proved

A theorem holds for every value of the constants that satisfies the named assumptions
(sizes are natural numbers, nobody is not a process, a client or a server). TLC
evaluates them for the instances of its runs.

| Module | Theorem | States |
|---|---|---|
| `RunOwnershipProofs` | `TypeCorrect`, `AnnouncementsAreDurable`, `LaunchesSeeTheLine`, `EnginesAreAlone`, `RecoveriesAreSilent` | the five invariants of `requests` and `faults` |
| | `VerdictsStand`, `CancelsSurviveLaunches`, `AbortsEndOnlyThePause`, `AutoResumesAreCapped` | the four action properties |
| | `OwnershipImplementsLifecycle` | the refinement of `RunLifecycle` |
| `ServiceProcessProofs` | `TypesHold`, `LeasesAreBeaten`, `AcceptancesAreKept` | `LeaseIsBeaten`, `AcceptanceIsKept` |
| `OrchestrationCoreProofs` | `CoreTypeCorrect`, `StatusIsTruth`, `NothingIsOwed` | `StatusTellsWork`, `SettledOwesNothing` |
| | `KeepsThePromise` | the refinement of `SubSession` |
| `StreamServerProofs` | `StreamTypesHold`, `ProducersStayOwned`, `AnswersAreWhole` | `ProducersAreOwned`, `WholeAnswers` |
| `AgentTurnProofs` | `TurnsStayFaithful` | the three parts of `TurnsAreFaithful` |
| `MCServicesProofs` | `SteersStayKept` | `SteersAreKept` of `SteeringBudget` |
| `MCThreadsProofs` | `ThreadsBeatTheirLeases`, `ThreadsKeepAcceptances`, `ThreadsAnswerWhole` | the safety properties of `threads` |
| `MCServicesProofs` | `AutoLaunchesAreCapped`, `LateSnapshotsImplementLifecycle`, `ServicesOwnTheirProducers`, `ServicesKeepSteers`, `ServicesToolsKeepTheirServer`, `ServicesShareLogins`, `ServicesRunJobs`, `ServicesTurnsAreFaithful` | eight properties of `services` |
| `MCRecordsProofs` | `RecordsRememberSpend`, `RecordsExplainNotices`, `RecordsCloseBooks`, `RecordsOpenGatesOnWord`, `RecordsAuthoriseMoves` | `SpendIsNeverForgotten`, `NoticesExplained`, `BooksCloseOnLeaves`, `GatesOpenOnHumanWord`, `MovesAreAuthorised` of `records` |

`MCThreadsProofs` and `MCServicesProofs` carry a component's theorem over to the union
instance that TLC checks: the union instantiates the module with the proofs, its invariant is
"if this is the part, the component's inductive invariant holds", and a step of the union is
a step of its part. `McpTools`, `SubscriptionAuth`, `CronJobs`, `SteeringBudget`, `RunLedger`,
`GatewaySessions`, `PipelineRun` and `PausedRun` have no proof module of their own; their
arguments are in `MCServicesProofs` and `MCRecordsProofs`, about the union's instance.

### 4.1 RunOwnership

`TypeOK` is inductive. `AnnouncedIsDurable` is inductive together with it: the guard is
entered only after the fence and the status were re-read, all that could change either,
`AcquireRun`, `CancelRun`, `AbortRoute`, needs the guard free, and any other write of the
line needs the current fence at another `pc`, while the late snapshot of the announcing
stretch itself has to present its status. `LaunchSeesTheLine` is what the refinement needs
besides: a launch write is accepted if its view has the line's revision, and the abstract
`Launch` allows only "running" or no change of status, so it must be known what a view of
that revision can say. It rests on revisions only growing, and on views being copied from
the line. The refinement then goes action by action: either the stretch is the current one
and the step is the abstract step of the same name, or it is not and status, generation and
phase stay.

The other properties each add a few conjuncts, about what a thread still knows from an
earlier transaction:

* `EnginesAreAlone`: `OneLaunch`, a process prepares one launch at a time, and `Registered`,
  whoever answers for the run is the stretch its process registered.
* `RecoveriesAreSilent`: `Silence`. "Recovered" is decided by the acquiring transaction
  from a line that says running, so after an announcement the line must stay out of running
  until the *next* acquisition has reloaded it. `Born` and `Spoken` say that acquisitions
  beyond the fence are unborn and that who announced does nothing more.
* `VerdictsStand`, `CancelsSurviveLaunches`: `Verdict`, a launch over a finished line had read
  that verdict, and `SeesCancel`, the same of a launch that presents a cancelled line's
  revision.
* `AbortsEndOnlyThePause`: `AbortReads`, an abort remembers no later revision than the line's.
* `AutoResumesAreCapped`: the attempts of a plan, of the request it becomes and of the
  launch it leads to each leave room for one more (`PlansHaveAttempts`,
  `LaunchesHaveAttempts`).

### 4.2 ServiceProcess

`ProcessInv` joins four views: the helpers' types and the scheduler's plans (`PlansInv`: a
current plan that finished arming has a timer, or a firing that was noted), the launches
(`ThreadsInv`), the start-up scan (`ScanInv`: before it nothing is planned) and the closing
thread (`ExitInv`: what it waited for stays). Its heart is `BeatInv`: while this process has
the lease, the acquisition is its latest, some thread is behind it to give it back, and it
is beaten for as long as one needs it. That a tick which was claimed counts as a beat, and
that what was given back is never beaten again (`SilentInv`), is what the proof adds to the
property. The scheduler is reached only through `PlansMove`, the ways a thread uses it, so
its own invariant is proved once.

### 4.3 OrchestrationCore

`TypeOK` is not inductive alone: a worker writes the row of the sub-session it holds, which
has to exist. `CoreInv` says so, and what else the threads assume while they do not hold the
lock: `RowInv`, what a row says of itself by where its Future is (queued: running and billed
for every turn it started; done: over, its hook consumed; dropped: running or settled
without an answer, and only after `cancel` or with the pool closed, so no new turn can be
submitted over it); `AtInv`, what a worker knows at each place in `_run`; `CloserInv` and
`ExitInv`, that the row a closing thread settles or fires is still dropped and settled;
`OneOwner`, that running Futures and working threads correspond. No step takes back what
another thread relies on (`Keeps`, `SameTurn`), so each action needs an argument only for
the row it writes. In the refinement the second settlement of a dropped row (by `cancel` and
by `shutdown`) is a stutter, because a bill that landed and a turn that ran are then the
same thing. `NothingIsOwed` adds where an accepted steer is: in one inbox, in one worker's
hands, or told, once.

### 4.4 StreamServer, SteeringBudget, McpTools

* `StreamInv`. `RequestInv` relates a request's bridge, producer and task: what was sent, the
  piece in hand and the queue are the beginning of the answer, and all that was made of it
  as long as nobody closed the bridge; a receipt means that the producer is past its last
  piece. `Owned` says that every live producer and every reservation is in the inventory,
  `HostInv` that the inventory keeps its limit and that nothing lives after the clean-up.
  `StreamAssumption`, limits of at least one, is what `StreamLimits` accepts
  (`server/stream_bridge.py:21-35`).
* `SteerInv`. `Story` says for each steer where its caller is, where the core is with it, and
  what the audit holds of it, which have to agree at every moment in between; and the durable
  count is the number of steers that are under way or delivered (`Counted`).
* `ToolsInv`. `OwnersInv`: who is tracked owns what it listed last, whole, and nobody else
  owns anything. `HereInv`: whom the manager is busy with is not tracked, or owns nothing
  because a refresh took its names away first. `OpenInv`: a connection that is open is
  tracked, told to stop, given up on, or at hand. `CallsInv`: a call at its handler is at a
  server that was judged reachable, which needs no more because the judgement is made again
  on the entry that is taken.


### 4.5 RunLedger

`LedgerInv` is what the steps of every acquisition keep true of each other.

* `StretchInv`, of one acquisition and its leaves: the tally in memory is what it started
  from and what it charged since; no leaf is charged for more than it used, and one that was
  accounted for is charged whole; a leaf that told its turns had them received or charged,
  unless the acquisition went blind (a terminal callback failed to record); and a frozen final is
  the tally, taken when every leaf had told and, unless blind, was charged whole.
* `DurableInv`, of the row and the priced cells: each is at most what was spent over all
  acquisitions (`Total`); so is what any one started from together with what its own leaves
  used. What the cells hold beyond the charges of the acquisition that has the line
  (`Excess`) is within what it started from, which is why a charge may raise the row to the
  cells' sum. And who committed did so before the next one read the row, so a later start
  covers it.

`SpendIsNeverForgotten` follows: a committed final is exactly what its acquisition started
from and what its leaves used, unless it went blind; neither row nor cells exceed what was
spent; no later acquisition starts below a committed final; and as long as its acquisition
has the line the row is that final and not below the cells. The sums are over arbitrary finite sets of cells; what they
need of the library's fold (`SumStep`, `SumUpdates`, `SumLess`, `SumPart`) is proved by a
smallest counterexample, which exists because strict inclusion of finite sets is well
founded, in place of an induction theorem.

TLC checked each of these invariants on an instance before it was proved; `LedgerInv` only up
to a time limit (4 to 9 million states of instances larger than `records` uses).

### 4.6 GatewaySessions and DurableNotices

`GatewayInv` has three parts.

* `Noted`, of the board, the trail and the next id. An id is issued once: rows on the board
  have different ids below the next one, so have tombstones, and no id is in both places. An
  id in neither is missing only because some owner's trail is as full as it may be, and no
  owner's trail is fuller. Only turns in `Saved` are named by an "acked" tombstone.
* `TurnInv`, of each turn: its session exists; the child a fork creates exists from the step
  that creates it and not before; a turn that is committed, and so every turn about to
  acknowledge, has its messages in a transcript.
* `Shapes`: the types, and that a live object is of a session that exists.

Every notice operation takes some rows off the board and records them, then prunes the
trails of their owners. `RowsGo` says this once for all of them: recording appends one
tombstone per row in the order of their ids, and pruning keeps the newest of an owner's. Both
number a finite set by rank (`Ranks`, `NthExists`), so that the length of what is
appended, and the number of what is kept, are cardinalities. That an acknowledged turn stays
saved is `Grow`: forks and appends only add to transcripts, and a crash takes a turn's
thread away but not what it wrote.

`GatewayAssumption` is what the proof asks of the constants: a session owns notices, a turn's
uuid serves as its token and names no session that was there before, and the facts
include the ones a dead turn publishes. Processes, turns, owners, caps and faults are
otherwise arbitrary. TLC checked `GatewayInv` on every state of an instance with two
processes, two turns, a board and a trail of one, two notices and one fault (4.8 M states).

### 4.7 PipelineRun and the books

`PipeInv` relates the books to the leaves and every thread to its item.

* `Accounts`: the slots taken are the leaves and the spawns under way, less those given back
  with the account of a leaf that never ran; what is billed is the turns of the leaves
  accounted for; and what arrives after the seal is a straggler, each covered by an uncertain
  charge of its own. An account is closed once because a leaf that is accounted for no longer
  runs, and is so before its charge (`LeafRight`).
* `Jobs`: an item that is not settled is carried by at most one thread: the node's walk, a
  hook at work, or a leaf whose hook has yet to fire. This is what a retry and a next stage
  keep by leaving the old hook, and why an item is settled once. All its earlier stages are
  in the cache (`StageRight`), and the items after the walk's are untouched.
* `Holes`: an answer has all its cells, and the holes are the items settled without one or,
  once the barrier is closed, not settled.
* `Barrier`: a leaf that may still run is asked to stop, or in the hands of the thread that
  spawned it, or in `_spawned` of an open barrier, or in what the sweep of a closed one has
  still to visit. Without the last two a leaf spawned just before the timeout is nobody's.
* `Report`: what is published has its holes exactly where its results are null.

Most steps move one thread: `Calm`, `Quiet` and `Onward` say what the others rely on, and
`ItemGoesOn`, `SpawnsKeep` and `ClosesAccount` are the three kinds of step that do more. Items,
stages, retries, budgets and the number of leaves are arbitrary, and so is what a leaf may
answer. TLC checked `PipeInv` on every state of two items of two stages (2.7 M).

### 4.8 PausedRun

`PausedInv` says how the two ways out of a pause are earned.

* `Words`, of the gates: what a stretch is told was said by a human to the gate whose address
  it bears, or is the default of an unguarded gate; and a pending question names the gate
  that asked it, in whatever form its release wrote it. So an old question resolves to its
  asker's address or to none (`AskersAddress`), a label that is not ambiguous to its own gate
  (`LabelOfOne`), and, since two nodes never share an address (`OneAddress`), an answer opens
  no other gate.
* `Envelope`, of the run's moves: the durable brake has exactly one mark for each, so neither a
  crash, which forgets where the nodes went, nor a resume refills the allowance.
* `Trail`, of the node at hand: the routes it died on are on its trail and the one it is on
  is not among them, until the catalog substitutes a model and the trail is no longer kept.
* `Moving`: a node at work is on the route its last move, or the spec on file, says, nodes
  ahead have not moved, and the route of a fault is that of its node. The seal folds the moves
  into the spec on file, which is why the pause it publishes names the route a resume takes.

Plans, answers, routes, prices, tiers, fallbacks and fates are arbitrary. `PlansAreSpecs` is
what the validator makes sure of: no two nodes of one call share an id
(`workflow/schema.py:624`), ids are not empty, and a node reads only what runs before it. TLC
checked `PausedInv` on every state of the run's instance with two stretches (165 000).

### 4.9 SubscriptionAuth

`AuthInv`: who is inside the profile transaction has what is on file, or the one rotation of
it that the endpoint made, and nobody changes consent or tokens meanwhile (`Inside`); a login
that is not yet stored is unlike the one on file, and nothing of it is spent (`Families`); and
of the family on file nothing later than the file is spent, while the refresh token on file
is spent only during its rotation or after an answer was lost (`Spending`). The last is what a
second refresh that waited for the lock relies on: it reads the file again, finds the
rotated family, and presents nothing. `AuthAssumption` says that nobody is no client. TLC
checked `AuthInv` with two clients, two rotations and two faults (0.7 M states).

### 4.10 CronJobs

`CronInv`, of a store that one process opens (`OneStore`, a hypothesis of the theorem: 5.3 says
what two do).

* `Changing`: a change in progress is what its operation makes of the file as it is, since
  the lock keeps other changes out and the tick changes the file only through a mark.
* `Listing`: the file has the jobs that are wanted, each once, as they are wanted; what a
  change does to a list is `ChangeFollows`, for any list.
* `Marked` and `Ticking`: every entry, in the file or ahead of the tick in the list it read,
  knows of all the runs of its job, except one that is being run and not yet marked. This is
  why an old list does no harm: a job is in it once, and nobody else starts runs. A removed
  job may run once more from it, is marked nowhere, and its id is never added again.

`CronAssumption` is what `_validate` makes sure of: a job has one of three types, and a value.
TLC checked `CronInv` with a job of each type, three edits and a kill (275 000 states).

### 4.11 AgentTurn

`TurnInv` has a conjunct for each thing a turn keeps, and `TurnShapes`, its types.

* `Telling`, of the history: it replays in every state but two, while the tools of a response
  run, when all but the message that asked for them replays, and after a signal. Ids of calls
  are of the past, so no two messages make one call (`Conversation`). That is what
  compaction needs: `StripKeeps` shows that whatever part of such a history
  `_strip_orphan_tools` is given, what it leaves replays, since a result kept has its one
  call and a call kept its result. It says nothing of a gap between the two, but the
  results of a call follow it with no other message between, and no part puts one there.
  `CompressKeeps` puts the head, the summary and the tail together: the summary is no
  tool's message, so no result of the tail answers a call of the head. `JoinReplays` is
  the other way a history grows by more than a message, the results of a batch.
* `Working`, of the tools: the batch is of the request at hand and of whole calls of a
  response that ended, and what ran is not in it. Calls on one file start in order because
  what ran came before what is queued.
* `Stopping`: a turn told to stop has at most the request it was preparing, and a batch
  at work then was dispatched before. `RequestInterrupt` notes where the turn was; the second
  reading of the flag, at the dispatch, keeps `Stopping` when the answer came late.
* `Metering`: the response being read is billed and not metered yet; otherwise a meter
  that calls itself complete is equal to the bill, and no meter exceeds it.
* `Replying`: a reply is to an answer, which is `Reading`'s when the stream ended.

APIs, requests, slots, tools, workers, steered texts, the window and what compaction
protects are arbitrary: `TurnAssumption` gives them their types and nothing else. TLC checked
`TurnInv` on every state of the run's instance (430 000).

### 4.12 Only model-checked

Liveness (`OwnershipEnds`, `ShutdownReturns`, `LeavesAreSettled`, `StreamsMoveOn`): with
fairness and `ENABLED` it is beyond this prover. `TypeOK` of `MCThreads`, `MCRecords` and
`MCServices`, which joins the types of every part, those without a theorem among them.
`DiscountsAreEarned`, `OnlyWholePanelsAreCached` and `ResumeKeepsItsWord` of `MCRecords`, and
`AuditTellsItsGaps` of `MCServices`: no theorem states them yet. `AcceptedSpecsHold` is about
what `SpecRun` computes by recursion over a spec, which cannot be proved for every spec:
induction over data is out of reach.

## 5. Where code and words disagree

### 5.1 Shown by a run

1. `resume_race` / `CancelSticks`. A manual resume validates its pause inside the
   acquiring transaction and then reloads the line. If its process stalls long enough
   for the new lease to lapse between the two, an ownerless cancel is accepted and
   acknowledged, and the launch adopts the cancelled line and overwrites it with
   `running` (`workflow/service.py:687`).
2. `busy_renewal` / `CancelledOnlyOnRequest`. `renew_run_lease` answers False for
   "database busy", said to be harmless; the heartbeat takes it for a lost lease and
   the engine of a run still owned is cancelled, and persists `cancelled`
   (`state/db.py:1047`).
3. `refused_resume` / `VerdictAccepted`. A second resume that will be refused
   refreshes the local view first. If that view belongs to the launch in preparation
   the launch persists `paused`, and the engine's verdict is later refused
   (`workflow/service.py:1672`).
4. `fork_twice` / `OneChildPerParent`. The compaction lock excludes forks that overlap,
   not a second one later: a process that resumed the session before the first fork
   forks the ended parent again (`gateway/manager.py:98`). A stale handle likewise
   meets a fresh lock (`manager.py:121-129`).
5. `audit_clean` / `HonestShutdown`. While the last drain holds the markers a `flush`
   sees none; the drain then fails, and `shutdown` still answers that all landed
   (`workflow/audit.py:1053`).

### 5.2 Left room for in a property

* (a) A nested engine does not share `_run_paths` (`engine.py:1005-1048`, `1319-1329`):
  the parent's index misses what a nested run stored in this stretch, so a sibling's
  legitimate write is refused as `artifact_changed` and paid for again. (b) "This never
  UNDER-states the invalidations" (`cache_preview.py`) is broken when a leaf of the same
  stretch rewrites a later cell's path and has not stored yet, or dies. (c) Two equal
  items of a nested pipeline share one key and the row's label is the last writer's:
  the other reads `legacy_scope_unproven` at each resume. `NeverUnderstated` exempts
  these cells.
* A catalogue substitution is not told to `_reroute_tried`, so the envelope may send a
  substituted node back to the dead slug; `NoWayBack` exempts a swapped node.
* A hole inside a nested run's outputs (`${w.d}`, `${w}`) is read unguarded by the
  parent's leaf, although `strict_prompt` says that an upstream null must never reach one.
  A pipeline item dropped after invalid answers leaves no fault, so such a run is
  complete and can be certified. An agent's `schema_ref` that is not a string is
  accepted and ignored, a stage's `retries: 99` accepted and clamped, a stage's unknown
  `schema_ref` accepted and not validated; `skeptics`, `judges`, `max_rounds` and
  `stop_after_k_empty` are not validated and are read as `max(1, int(..))`, so a declared
  0 is quietly 1. `AcceptedSpecsHold` exempts each.
* An MCP opener that outlives the constructor's 30 seconds stays open with nobody to
  close it (`mcp/session.py:46`), although `_connect` says "don't leak a session we
  couldn't register": `NothingIsLeftOpen` exempts servers the manager gave up on.
* A shutdown that closes a bridge between publish and the thread's exit drops queued
  pieces; `WholeAnswers` exempts `host.closed`.

### 5.3 Seen while modelling, no property fails

* Legacy nested rows with a changed key are announced "never_completed".
* "A cancel is not a thing you can say twice into a resume" (`launch.py route_answer`)
  fails for dead routes inside a pipeline, a parallel or a nested run: a repeated abort
  relaunches the cancelled run.
* "At most one substitution, ever" (`engine.py:312-317`) holds per stretch only.
* An answer is applied by address: an upstream that ran again with another output closes
  a question the human never saw (`run_checkpoint`).
* A node id equal to a reserved root (`args`, `item`) is accepted and shadows it, and
  reserved roots are accepted outside the nodes that provide them.
* `run_agent`'s cache-hit path after a re-route returns without `mark_reroute_recovered`.
* `TEMPLATE_NULL_RATE_MAX` is vacuous, because a complete run has no null node; a
  `required` workflow node whose nested nodes all came to nothing is not a failure.
* An agent's series counts `leaf_respawns` before a spawn that may be refused; a
  parallel's `output is not None` lets an empty answer retire faults; one dead judge
  among several leaves the panel whole; a leaf tracked after the seal is neither billed
  nor uncertain (the source's #112); a spawn that raises in the middle of a fan-out leaves
  a sibling unbilled, contrary to `engine.py:2673-2675`.
* Cron has no file lock although `cron/scheduler.py:5-6` says so: two loops can run one
  job, lose an update and share `jobs.json.tmp`. The part has one client, for which the
  properties hold. Jobs removed or paused in the middle of a tick still run.
* A failed subscription refresh leaves the spent token on file.
* `start(resume_run_id)` onto a run live in this process whose lease lapsed fences out the
  live stretch before the clash check refuses it (`service.py:866`).
* An auto-resume claims its plan before launching; a launch then refused leaves the quota
  pause without a timer until the next start-up scan (`autoresume.py:234-240`).
* MCP: `refresh` has no caller outside tests; it removes a server's tools before the
  listing that may fail. A call in flight when its session ends waits out 120 seconds,
  and one that timed out is not cancelled.

## 6. Not modelled, and the plan

Left out of modelled components: `status` and `list_runs`; audit segments in
`RunOwnership`; the eviction of remembered fences (1024 runs); a heartbeat timer that
cannot be started; what only in-memory databases do; search and message tables of
`state/db.py`; lint warnings, template files and their stamps, the taint sandbox's file
and egress rules; HTTP parsing and non-streaming endpoints; the gateway's RPC.

Not modelled at all: delegation (a bounded fan-out with no state but the core's) and
provider errors (a table); approval (a short decision with one lock); memory and skills
(small files rewritten whole, well tested); accounting reports, rollup, progress, live
view, pricing (read-only arithmetic over finished data); catalogue, onboarding and
command line (interactive I/O).

What is left of the plan is proof, of the properties 4.12 lists: those of the engine's nodes,
the preview and the audit ledger.
