---------------------------- MODULE ServiceProcess ----------------------------
(***************************************************************************)
(* One service process and one run it launches, from inside: the launching *)
(* threads, the run threads, the heartbeat's and the scheduler's timers,   *)
(* and the thread that shuts the service down (workflow/service.py on top  *)
(* of LaunchAdmission, ResumeScheduler and LeaseHeartbeat).                *)
(*                                                                         *)
(* RunOwnership takes several such processes and abstracts the threads of  *)
(* each; here there is one process, the other ones only take the run away. *)
(* A stretch is again named by its fence.                                  *)
(***************************************************************************)
EXTENDS Integers

CONSTANTS
    User,      \* threads that call start or resume
    MaxFence,  \* bound: acquisitions of the run, by whomever
    MaxPlans   \* bound: auto-resume plans

ProcessAssumption == MaxFence \in Nat \ {0} /\ MaxPlans \in Nat \ {0}

Fence == 1 .. MaxFence

\* A claimed plan launches from its own timer thread.
Launcher == User \cup (1 .. MaxPlans)

VARIABLES
    ticket, closing,         \* LaunchAdmission
    current, plans, closed,  \* ResumeScheduler
    active, timer, tick,     \* LeaseHeartbeat
    launch,    \* [Launcher -> LaunchRow]: where a launching thread is
    run,       \* [Fence -> RunStep]: where the run thread of a stretch is
    handoff,   \* [Fence -> 0 .. MaxPlans]: the plan its Future arms when done
    fence, lease, line,  \* the tables: current fence, who holds the lease, the line
    known,     \* _fences: the store's latest acquisition
    renewing,  \* _renewed holds the run
    registry,  \* _runs: the stretch registered last
    fenced,    \* RunState.fenced of that stretch
    halted,    \* its engine was asked to stop
    scan,      \* the start-up scan of pending resumes
    exit       \* where the thread inside shutdown() is

Admission == INSTANCE LaunchAdmission
Scheduler == INSTANCE ResumeScheduler
Heartbeat == INSTANCE LeaseHeartbeat WITH Key <- Fence

gate == <<ticket, closing>>
resumes == <<current, plans, closed>>
beats == <<active, timer, tick>>
tables == <<fence, lease, line>>
memory == <<known, renewing, registry, fenced, halted>>

vars == <<gate, resumes, beats,
          launch, run, handoff, scan, exit, tables, memory>>

LaunchStep == {"idle", "reserved", "acquired", "registered", "abandoning", "releasing", "over"}

Line == {"new", "running", "paused", "over"}

\* prior: the line its accepted launch write displaced.
LaunchRow == [step : LaunchStep, fence : 0 .. MaxFence, prior : Line \cup {"none"}]

Inside == {"running", "decided", "revoked"}

RunStep == {"none", "queued", "settled", "validated", "done", "gone"} \cup Inside

ExitStep == {"up", "closing", "closed", "quiet", "halted", "drained", "down"}

TypeOK ==
    /\ Admission!AdmissionTypeOK /\ Scheduler!SchedulerTypeOK /\ Heartbeat!HeartbeatTypeOK
    /\ launch \in [Launcher -> LaunchRow]
    /\ run \in [Fence -> RunStep]
    /\ handoff \in [Fence -> 0 .. MaxPlans]
    /\ fence \in 0 .. MaxFence /\ lease \in {"free", "ours", "theirs"}
    /\ line \in Line
    /\ known \in 0 .. MaxFence /\ renewing \in BOOLEAN
    /\ registry \in 0 .. MaxFence /\ fenced \in BOOLEAN /\ halted \in BOOLEAN
    /\ scan \in {"todo", "prepared", "over"}
    /\ exit \in ExitStep

\* A new run, or the quota pause an earlier process left behind.
Init ==
    /\ Admission!AdmissionInit /\ Scheduler!SchedulerInit /\ Heartbeat!HeartbeatInit
    /\ launch = [t \in Launcher |-> [step |-> "idle", fence |-> 0, prior |-> "none"]]
    /\ run = [f \in Fence |-> "none"]
    /\ handoff = [f \in Fence |-> 0]
    /\ \/ fence = 0 /\ line = "new"
       \/ fence = 1 /\ line = "paused"
    /\ lease = "free"
    /\ known = 0 /\ renewing = FALSE /\ registry = 0 /\ fenced = FALSE /\ halted = FALSE
    /\ scan = "todo"
    /\ exit = "up"
-------------------------------------------------------------------------------
LaunchGoes(t, step) == launch' = [launch EXCEPT ![t].step = step]

RunGoes(f, step) == run' = [run EXCEPT ![f] = step]

\* _is_live of the registered stretch: its Future is not done.
Live == registry # 0 /\ run[registry] \in {"queued"} \cup Inside

\* The durable pause a plan was made for is still the run's last word.
PauseStands(f) == line = "paused" /\ fence = f

\* Mutant: the holder is blanked and the lock row stays.
LeaseDeleted_Blank(f) == IF lease = "ours" /\ fence = f THEN "blank" ELSE lease

\* db.release_run_lease under a captured fence.
LeaseDeleted(f) == IF lease = "ours" /\ fence = f THEN "free" ELSE lease
-------------------------------------------------------------------------------
(* Launching: start, resume, and a plan whose timer was claimed *)

\* Admission; a claimed plan first finds its pause unchanged.
ReserveLaunch(t) ==
    /\ launch[t].step = "idle"
    /\ t \in User => scan = "over"
    /\ t \notin User => plans[t].resumed
    /\ IF t \notin User /\ ~PauseStands(plans[t].fence)
         THEN LaunchGoes(t, "over") /\ UNCHANGED gate
         ELSE /\ Admission!Reserve(t)
              /\ LaunchGoes(t, IF Admission!Open THEN "reserved" ELSE "over")
    /\ UNCHANGED <<resumes, beats, run, handoff, scan, exit, tables, memory>>

\* The acquiring transaction, which validates a plan's pause once more, and
\* _remember_acquisition: the older plan and the older beat of this store go.
AcquireLaunch(t) ==
    /\ launch[t].step = "reserved"
    /\ IF fence < MaxFence /\ lease = "free" /\ (t \in User \/ PauseStands(plans[t].fence))
         THEN /\ fence' = fence + 1 /\ lease' = "ours"
              /\ known' = fence' /\ renewing' = TRUE
              /\ Scheduler!Drop(Scheduler!Outdated(fence'))
              /\ Heartbeat!Succeed(known, fence')
              /\ launch' = [launch EXCEPT ![t].step = "acquired", ![t].fence = fence']
              /\ UNCHANGED gate
         ELSE /\ Admission!Retire(t)
              /\ LaunchGoes(t, "over")
              /\ UNCHANGED <<fence, lease, known, renewing, resumes, beats>>
    /\ UNCHANGED <<run, handoff, scan, exit, line, registry, fenced, halted>>

\* Register unless a live stretch clashes, then the launch write; a write
\* refused by a newer fence deregisters the stretch.
RegisterLaunch(t) ==
    /\ launch[t].step = "acquired"
    /\ LET f == launch[t].fence IN
       IF ~Live /\ fence = f
         THEN /\ launch' = [launch EXCEPT ![t].step = "registered", ![t].prior = line]
              /\ line' = "running"
              /\ registry' = f /\ fenced' = FALSE /\ halted' = FALSE
         ELSE /\ LaunchGoes(t, "abandoning")
              /\ registry' = IF Live THEN registry ELSE 0
              /\ UNCHANGED <<line, fenced, halted>>
    /\ UNCHANGED <<gate, resumes, beats, run, handoff, scan, exit, fence, lease,
                   known, renewing>>

\* submit: the pool takes the work and the ticket is accepted; or the service
\* is closing; or the pool raises, having queued the work or not.
SubmitLaunch(t) ==
    /\ launch[t].step = "registered"
    /\ LET f == launch[t].fence IN
       \/ /\ Admission!Accept(t)
          /\ RunGoes(f, "queued")
          /\ LaunchGoes(t, "over")
       \/ /\ closing
          /\ LaunchGoes(t, "abandoning")
          /\ UNCHANGED <<gate, run>>
       \/ /\ ~closing
          /\ LaunchGoes(t, "abandoning")
          /\ run' \in {run, [run EXCEPT ![f] = "queued"]}
          /\ UNCHANGED gate
    /\ UNCHANGED <<resumes, beats, handoff, scan, exit, tables, memory>>

\* What a refused launch puts back once its write was accepted: a run that was
\* running or new has failed.
Restored(t) ==
    IF launch[t].prior = "none" THEN line
    ELSE IF launch[t].prior \in {"new", "running"} THEN "over"
    ELSE launch[t].prior

\* _abandon_launch: put the line back under this stretch's own fence, if it was
\* written, drop the registration, revoke the beat ...
AbandonLaunch(t) ==
    /\ launch[t].step = "abandoning"
    /\ LET f == launch[t].fence IN
         /\ line' = IF fence = f /\ line = "running" THEN Restored(t) ELSE line
         /\ registry' = IF registry = f THEN 0 ELSE registry
         /\ Heartbeat!Stop(f)
         /\ renewing' = (renewing /\ known # f)
    /\ LaunchGoes(t, "releasing")
    /\ UNCHANGED <<gate, resumes, run, handoff, scan, exit, fence, lease, known,
                   fenced, halted>>

\* ... delete its lease and leave the reservation.
ReleaseLaunch(t) ==
    /\ launch[t].step = "releasing"
    /\ lease' = LeaseDeleted(launch[t].fence)
    /\ Admission!Retire(t)
    /\ LaunchGoes(t, "over")
    /\ UNCHANGED <<resumes, beats, run, handoff, scan, exit, fence, line, memory>>
-------------------------------------------------------------------------------
(* A run thread *)

\* Mutant: the ticket is not looked at.
AcceptedRun_Any(f) == TRUE

\* The ticket whose Future this is was accepted.
AcceptedRun(f) == \E t \in Launcher : launch[t].fence = f /\ ticket[t] = "accepted"

\* _run's first line: a queued callable whose submission was refused leaves at
\* once, and without any of the epilogue's effects.
EnterRun(f) ==
    /\ run[f] = "queued"
    /\ RunGoes(f, IF AcceptedRun(f) THEN "running" ELSE "gone")
    /\ UNCHANGED <<gate, resumes, beats, launch, handoff, scan, exit, tables,
                   memory>>

\* The engine's verdict and, for an accepted quota pause, its resume plan.
DecideRun(f) ==
    /\ run[f] = "running"
    /\ \E verdict \in {"paused", "over"} :
         LET written == fence = f /\ line = "running"
             stopped == registry = f /\ halted IN
         /\ stopped => verdict = "over"
         /\ line' = IF written THEN verdict ELSE line
         /\ IF written /\ verdict = "paused" /\ (closed \/ Scheduler!CanInstall)
              THEN /\ Scheduler!Prepare(f)
                   /\ handoff' = [handoff EXCEPT ![f] = Scheduler!Prepared(f)]
              ELSE UNCHANGED <<resumes, handoff>>
    /\ RunGoes(f, "decided")
    /\ UNCHANGED <<gate, beats, launch, scan, exit, fence, lease, memory>>

\* The epilogue, then release: revoke the beat ...
RevokeRun(f) ==
    /\ run[f] = "decided"
    /\ Heartbeat!Stop(f)
    /\ renewing' = (renewing /\ known # f)
    /\ RunGoes(f, IF known = f THEN "revoked" ELSE "settled")
    /\ UNCHANGED <<gate, resumes, launch, handoff, scan, exit, tables, known,
                   registry, fenced, halted>>

\* ... and delete the lease.  The Future is done.
ReleaseRun(f) ==
    /\ run[f] = "revoked"
    /\ lease' = LeaseDeleted(f)
    /\ RunGoes(f, "settled")
    /\ UNCHANGED <<gate, resumes, beats, launch, handoff, scan, exit, fence, line,
                   memory>>

\* What _arm_resume asks before it arms a plan.
Armable(i) == PauseStands(plans[i].fence) /\ ~Live /\ lease = "free"

\* The Future's callback: validate the plan it was handed ...
ValidateRun(f) ==
    /\ run[f] = "settled"
    /\ LET i == handoff[f] IN
       IF i # 0 /\ Armable(i)
         THEN RunGoes(f, "validated") /\ UNCHANGED resumes
         ELSE RunGoes(f, "done") /\ Scheduler!Drop(i)
    /\ UNCHANGED <<gate, beats, launch, handoff, scan, exit, tables, memory>>

\* ... and begin arming it.
ArmRun(f) ==
    /\ run[f] = "validated"
    /\ Scheduler!ArmBegin(handoff[f])
    /\ RunGoes(f, "done")
    /\ UNCHANGED <<gate, beats, launch, handoff, scan, exit, tables, memory>>
-------------------------------------------------------------------------------
(* The start-up scan: rearm_pending_resumes *)

ScanPauses ==
    /\ scan = "todo"
    /\ IF line = "paused" /\ lease = "free"
         THEN Scheduler!Prepare(fence) /\ scan' = "prepared"
         ELSE UNCHANGED resumes /\ scan' = "over"
    /\ UNCHANGED <<gate, beats, launch, run, handoff, exit, tables, memory>>

ScanArms ==
    /\ scan = "prepared"
    /\ scan' = "over"
    /\ IF current # 0 /\ Armable(current)
         THEN Scheduler!ArmBegin(current) ELSE Scheduler!Drop(current)
    /\ UNCHANGED <<gate, beats, launch, run, handoff, exit, tables, memory>>
-------------------------------------------------------------------------------
(* Timers *)

PlanStep(i) ==
    /\ \/ Scheduler!ArmMake(i) \/ Scheduler!ArmStart(i) \/ Scheduler!ArmAccept(i)
       \/ Scheduler!Fire(i) \/ Scheduler!ArmFire(i)
    /\ UNCHANGED <<gate, beats, launch, run, handoff, scan, exit, tables, memory>>

ClaimTick(f) ==
    /\ Heartbeat!Claim(f)
    /\ UNCHANGED <<gate, resumes, launch, run, handoff, scan, exit, tables,
                   memory>>

\* store.renew under the key's own fence: this store must still hold it ...
CheckTick(f) ==
    /\ Heartbeat!Checked(f, known = f /\ renewing)
    /\ UNCHANGED <<gate, resumes, launch, run, handoff, scan, exit, tables,
                   memory>>

\* Mutant: the renewal inserts the lock row when it is gone.
CanTouch_Upsert(f) == fence = f

\* The UPDATE of renew_run_lease matches the lock row.
CanTouch(f) == lease = "ours" /\ fence = f

\* ... and then the UPDATE, after whatever happened in between.
RenewTick(f) ==
    /\ Heartbeat!Renewed(f, CanTouch(f))
    /\ lease' = IF CanTouch(f) THEN "ours" ELSE lease
    /\ UNCHANGED <<gate, resumes, launch, run, handoff, scan, exit, fence, line,
                   memory>>

RearmTick(f) ==
    /\ Heartbeat!Rearm(f)
    /\ UNCHANGED <<gate, resumes, launch, run, handoff, scan, exit, tables,
                   memory>>

\* _lease_lost, then _abort_fenced_run: only for the acquisition this store
\* still believes in, and only if it is the one that is registered.
LoseTick(f) ==
    /\ Heartbeat!Notify(f)
    /\ IF known = f /\ renewing /\ registry = f /\ ~fenced
         THEN /\ fenced' = TRUE /\ halted' = TRUE
              /\ Scheduler!Drop(Scheduler!PlanOf(f))
         ELSE UNCHANGED <<fenced, halted, resumes>>
    /\ UNCHANGED <<gate, launch, run, handoff, scan, exit, tables, known,
                   renewing, registry>>
-------------------------------------------------------------------------------
(* shutdown() *)

\* Close admission; launches already preparing go on.
BeginExit ==
    /\ exit = "up" /\ scan = "over"
    /\ Admission!Close
    /\ exit' = "closing"
    /\ UNCHANGED <<resumes, beats, launch, run, handoff, scan, tables, memory>>

\* They are accepted or cleaned up before anything is dismantled.
AwaitLaunches ==
    /\ exit = "closing" /\ Admission!Drained
    /\ exit' = "closed"
    /\ UNCHANGED <<gate, resumes, beats, launch, run, handoff, scan, tables,
                   memory>>

StopPlans ==
    /\ exit = "closed"
    /\ Scheduler!Shutdown
    /\ exit' = "quiet"
    /\ UNCHANGED <<gate, beats, launch, run, handoff, scan, tables, memory>>

StopEngines ==
    /\ exit = "quiet"
    /\ halted' = (halted \/ registry # 0)
    /\ exit' = "halted"
    /\ UNCHANGED <<gate, resumes, beats, launch, run, handoff, scan, tables,
                   known, renewing, registry, fenced>>

\* The pool's threads have all returned, their Futures' callbacks included.
AwaitRuns ==
    /\ exit = "halted"
    /\ \A f \in Fence : run[f] \in {"none", "done", "gone"}
    /\ exit' = "drained"
    /\ UNCHANGED <<gate, resumes, beats, launch, run, handoff, scan, tables,
                   memory>>

\* store.release of what is registered, then store.shutdown.
StopBeats ==
    /\ exit = "drained"
    /\ lease' = IF registry # 0 /\ known = registry THEN LeaseDeleted(registry) ELSE lease
    /\ renewing' = (renewing /\ known # registry)
    /\ Heartbeat!StopAll
    /\ exit' = "down"
    /\ UNCHANGED <<gate, resumes, launch, run, handoff, scan, fence, line, known,
                   registry, fenced, halted>>

ExitThread ==
    BeginExit \/ AwaitLaunches \/ StopPlans \/ StopEngines \/ AwaitRuns \/ StopBeats
-------------------------------------------------------------------------------
(* Other processes *)

\* Our lease lapsed, or was free, and another process took the run.
Usurp ==
    /\ lease # "theirs" /\ fence # 0 /\ fence < MaxFence
    /\ fence' = fence + 1 /\ lease' = "theirs"
    /\ UNCHANGED <<gate, resumes, beats, launch, run, handoff, scan, exit, line,
                   memory>>

\* It left the run in some state.
Yield ==
    /\ lease = "theirs"
    /\ lease' = "free"
    /\ line' \in {"paused", "over"}
    /\ UNCHANGED <<gate, resumes, beats, launch, run, handoff, scan, exit, fence,
                   memory>>
-------------------------------------------------------------------------------
LaunchThread(t) ==
    \/ ReserveLaunch(t) \/ AcquireLaunch(t) \/ RegisterLaunch(t)
    \/ SubmitLaunch(t) \/ AbandonLaunch(t) \/ ReleaseLaunch(t)

EpilogueThread(f) ==
    EnterRun(f) \/ RevokeRun(f) \/ ReleaseRun(f) \/ ValidateRun(f) \/ ArmRun(f)

TickThread(f) == ClaimTick(f) \/ CheckTick(f) \/ RenewTick(f) \/ RearmTick(f) \/ LoseTick(f)

Next ==
    \/ \E t \in Launcher : LaunchThread(t)
    \/ \E f \in Fence : EpilogueThread(f) \/ DecideRun(f) \/ TickThread(f)
    \/ \E i \in 1 .. MaxPlans : PlanStep(i)
    \/ ScanPauses \/ ScanArms \/ ExitThread \/ Usurp \/ Yield

Spec == Init /\ [][Next]_vars

\* A user need not call; a plan that was claimed does.
Called(t) == t \notin User \/ launch[t].step # "idle"

StoppedRun(f) == registry = f /\ halted /\ DecideRun(f)

ExitGoesOn == exit # "up" /\ ExitThread

\* Every thread that was started runs, an armed timer fires, and an engine that
\* was asked to stop returns.  No other engine need return, no user need call,
\* no other process need yield the run, and nobody need call shutdown.
Fairness ==
    /\ \A t \in Launcher : WF_vars(Called(t) /\ LaunchThread(t))
    /\ \A f \in Fence :
         /\ WF_vars(EpilogueThread(f)) /\ WF_vars(TickThread(f))
         /\ WF_vars(StoppedRun(f))
    /\ \A i \in 1 .. MaxPlans : WF_vars(PlanStep(i))
    /\ WF_vars(ScanPauses) /\ WF_vars(ScanArms)
    /\ WF_vars(ExitGoesOn)

FairSpec == Spec /\ Fairness
-------------------------------------------------------------------------------
(* Safety *)

\* A stretch whose launch was refused never executes, although the pool may
\* have queued it before it raised, and not even once a later launch of the
\* same run was accepted (submission.py: only the ticket whose actual Future
\* was published may enter the run).
RefusedNeverRuns ==
    \A t \in Launcher : \A f \in Fence :
        (launch[t].fence = f /\ run[f] \in Inside) => ticket[t] = "accepted"

\* As long as a thread is inside the run and the run is its own, its heartbeat
\* goes on: a tick is armed or on its way (lease_heartbeat.py, WF-29).
InsideIsBeating ==
    \A f \in Fence :
        (/\ run[f] \in {"queued", "running", "decided"} /\ AcceptedRun(f)
         /\ fence = f /\ lease = "ours")
            => f \in active /\ (f \in timer \/ tick[f] \in {"claimed", "checked", "held"})

\* A lease this process holds has a thread behind it: a tick in flight across
\* release or across shutdown cannot keep a finished run looking alive.
LeaseHasAThread ==
    lease = "ours" =>
        \/ \E t \in Launcher : launch[t].fence = fence /\ launch[t].step # "over"
        \/ run[fence] \in {"queued"} \cup Inside

\* Nothing beats for a stretch that was given back, except while the very
\* tick that was in flight at that moment ends.
GivenBackIsSilent ==
    \A f \in Fence : run[f] \in {"settled", "validated", "done"} => f \notin timer

\* The lease is this process's exactly while a thread is behind it that the
\* heartbeat keeps: neither lapses under a run at work nor outlives it.
LeaseIsBeaten == InsideIsBeating /\ LeaseHasAThread /\ GivenBackIsSilent

\* A plan that stays current after its arming ended still has a timer that
\* will fire: a firing that came before the start was accepted is not lost
\* (AutoResumeScheduler.arm).
ArmedPlanWillFire ==
    \A i \in 1 .. MaxPlans :
        (current = i /\ plans[i].arm = "over") => plans[i].timer = "live"

\* What was accepted, and only that, goes on: a refused launch never executes
\* and a plan that was armed is not forgotten.
AcceptanceIsKept == RefusedNeverRuns /\ ArmedPlanWillFire
-------------------------------------------------------------------------------
(* Liveness *)

\* shutdown() returns: launches in preparation, callbacks, timers and run
\* threads never wait for each other in a circle.
Closing == exit # "up"

Down == exit = "down"

ShutdownReturns == Closing ~> Down
===============================================================================
