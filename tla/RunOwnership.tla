----------------------------- MODULE RunOwnership -----------------------------
(***************************************************************************)
(* Who may run, decide, cancel and announce one workflow run when several  *)
(* service processes share its database (workflow/service.py,              *)
(* workflow/runstate_store.py on top of RunStore).                         *)
(*                                                                         *)
(* A stretch is one acquisition of the run: it is named by the fence it was *)
(* given, and pc[f] is where its thread stands between two transactions.   *)
(* Anything may happen between two of them: a cancel, a lease that lapses  *)
(* while the process is stalled, another process's acquisition, a crash.   *)
(***************************************************************************)
EXTENDS RunStore

CONSTANTS
    MaxFence,    \* bound: acquisitions of the run
    MaxSnaps,    \* bound: progress snapshots one stretch captures
    MaxAttempts, \* MAX_RESUME_ATTEMPTS
    Requests,    \* bound: the launches asked for, of start, resume and abort
    Outcomes,    \* bound: what the engine may return
    MaxFaults    \* bound: crashes, storage errors and raised preparations

ASSUME OwnershipAssumption ==
    /\ MaxFence \in Nat \ {0} /\ MaxSnaps \in Nat /\ MaxAttempts \in Nat
    /\ MaxFaults \in Nat
    /\ Requests \subseteq {"start", "resume", "abort"}

Stretch == 1 .. MaxFence

VARIABLES
    pc,        \* [Stretch -> PC]: the step its thread takes next
    acq,       \* [Stretch -> Acq]: what the stretch knows and decided
    view,      \* [Stretch -> View]: RunState.revision and RunState.status
    snap,      \* [Stretch -> View]: a captured snapshot not yet written
    prep,      \* [Process -> Prep]: the launch a process is preparing
    registry,  \* [Process -> 0 .. MaxFence]: _runs, the stretch it answers for
    plan,      \* [Process -> Plan]: the auto-resume it holds
    faults     \* how many faults happened (bounds the exploration only)

vars == <<row, fence, lease, guard, pc, acq, view, snap, prep, registry, plan, faults>>
-------------------------------------------------------------------------------
Preparing == {"acquired", "registered", "launched", "abandoning", "refusing"}

Executing == {"running", "decided", "drained", "snapped", "released", "publishing"}

Ended == {"refused", "done", "dead"}

PC == {"unborn"} \cup Preparing \cup Executing \cup Ended

Mode == {"start", "resume", "auto"}

\* What engine.run can return; a pause is named by its reason.
Outcome == Finished \cup {"cancelled", "quota", "user"}

ASSUME OutcomesAssumption == Outcomes \subseteq Outcome

Paused == {"quota", "user"}

StatusOf(o) == IF o \in Paused THEN "paused" ELSE o

ReasonOf(o) == IF o \in Paused THEN o ELSE "none"

View == [revision : Nat, status : Status \cup {"missing"}]

NoView == [revision |-> 0, status |-> "missing"]

Acq == [proc : Process \cup {NoProcess}, mode : Mode,
        orphaned : BOOLEAN,   \* recovers a run whose owner is gone
        prior : RunRow,       \* the line as reloaded under ownership
        receipt : Nat,        \* revision of its accepted launch write, or 0
        attempts : Nat,       \* RunState.attempts
        outcome : Outcome \cup {"none"},
        accepted : BOOLEAN,   \* its functional decision was "written"
        clean : BOOLEAN,      \* settlement and final snapshot both landed
        halted : BOOLEAN,     \* engine.request_cancel was called
        fenced : BOOLEAN,     \* RunState.fenced
        beating : BOOLEAN,    \* the heartbeat renews for it
        snaps : 0 .. MaxSnaps,
        published : BOOLEAN]

Unborn == [proc |-> NoProcess, mode |-> "start", orphaned |-> FALSE,
           prior |-> Missing, receipt |-> 0, attempts |-> 0, outcome |-> "none",
           accepted |-> FALSE, clean |-> FALSE, halted |-> FALSE,
           fenced |-> FALSE, beating |-> FALSE, snaps |-> 0,
           published |-> FALSE]

Prep == [step : {"idle", "reading", "unleased", "launching", "down"},
         mode : Mode \cup {"abort"}, revision : Nat, fence : Nat,
         attempts : Nat, clear : BOOLEAN]

Idle == [step |-> "idle", mode |-> "start", revision |-> 0, fence |-> 0,
         attempts |-> 0, clear |-> FALSE]

Plan == [step : {"none", "prepared", "armed"}, fence : Nat, attempts : Nat]

NoPlan == [step |-> "none", fence |-> 0, attempts |-> 0]

TypeOK ==
    /\ StoreTypeOK
    /\ fence \in 0 .. MaxFence
    /\ guard \in 0 .. MaxFence
    /\ pc \in [Stretch -> PC]
    /\ acq \in [Stretch -> Acq]
    /\ view \in [Stretch -> View]
    /\ snap \in [Stretch -> View]
    /\ prep \in [Process -> Prep]
    /\ registry \in [Process -> 0 .. MaxFence]
    /\ plan \in [Process -> Plan]
    /\ faults \in 0 .. MaxFaults

Init ==
    /\ StoreInit
    /\ pc = [f \in Stretch |-> "unborn"]
    /\ acq = [f \in Stretch |-> Unborn]
    /\ view = [f \in Stretch |-> NoView]
    /\ snap = [f \in Stretch |-> NoView]
    /\ prep = [p \in Process |-> Idle]
    /\ registry = [p \in Process |-> 0]
    /\ plan = [p \in Process |-> NoPlan]
    /\ faults = 0
-------------------------------------------------------------------------------
(* What a process knows about the run *)

Up(p) == prep[p].step # "down"

Owner(f) == acq[f].proc

\* _get: the stretch this process still answers for, 0 once it was fenced out.
Answering(p) ==
    IF registry[p] # 0 /\ ~acq[registry[p]].fenced THEN registry[p] ELSE 0

\* _is_live of a registered stretch whose Future was published.
IsLive(g) == g # 0 /\ pc[g] \in Executing

\* fence_of: this store's latest acquisition; release of any other is a no-op.
Latest(f) == \A g \in Stretch : g > f => Owner(g) # Owner(f)

\* Drop the registry entry only if it is still this stretch's.
Deregistered(f) ==
    [registry EXCEPT ![Owner(f)] = IF @ = f THEN 0 ELSE @]

\* Mutant: the receipt moves the revision of the view and not its status.
Adopted_KeepsStatus(f) ==
    IF f = fence /\ row'.status # "missing" /\ pc[f] \notin Ended
      THEN [view EXCEPT ![f].revision = row'.revision]
      ELSE view

\* _apply_state: a receipt under this fence moves the stretch's local view.
\* Nobody reads the view of a stretch that ended.
Adopted(f) ==
    IF f = fence /\ row'.status # "missing" /\ pc[f] \notin Ended
      THEN [view EXCEPT ![f] = [revision |-> row'.revision, status |-> row'.status]]
      ELSE view

\* resume() refreshes the view of a local stretch of the same acquisition.
Refreshed(p) ==
    LET g == Answering(p) IN
    IF g # 0 /\ g = fence /\ pc[g] \notin Ended
      THEN [view EXCEPT ![g] = [revision |-> row.revision, status |-> row.status]]
      ELSE view

\* acquired / cancel_fence on the auto-resume plan of process p.
Revoked(p, f) == IF plan[p].fence = f THEN [plan EXCEPT ![p] = NoPlan] ELSE plan

\* Mutant: one attempt too many.
AttemptsLeft_OffByOne(attempts) == attempts <= MaxAttempts

\* The auto-resume budget of a run: prepare and deadline refuse a spent one.
AttemptsLeft(attempts) == attempts < MaxAttempts

Fault == faults < MaxFaults /\ faults' = faults + 1

\* A write reached SQLite, or a storage error ate it.
Stored(ok) == (ok /\ UNCHANGED faults) \/ (~ok /\ Fault)

\* Mutant: the thread ends and the heartbeat goes on.
Closed_KeepsBeating(f) ==
    [Unborn EXCEPT !.proc = acq[f].proc, !.mode = acq[f].mode,
                   !.orphaned = acq[f].orphaned, !.outcome = acq[f].outcome,
                   !.beating = acq[f].beating,
                   !.fenced = acq[f].fenced /\ registry[Owner(f)] = f]

\* What remains of a stretch once its thread is gone.
Closed(f) ==
    [Unborn EXCEPT !.proc = acq[f].proc, !.mode = acq[f].mode,
                   !.orphaned = acq[f].orphaned, !.outcome = acq[f].outcome,
                   !.fenced = acq[f].fenced /\ registry[Owner(f)] = f]

Forgotten(f) ==
    IF view[f] = NoView THEN view
    ELSE [view EXCEPT ![f] = [revision |-> 0, status |-> "running"]]

\* request_cancel; nobody reads the flag of an engine that already returned.
Halted(f) == acq[f].halted \/ pc[f] \in Preparing \cup {"running"}

Goto(f, step) == pc' = [pc EXCEPT ![f] = step]
-------------------------------------------------------------------------------
(* Preparing a launch: start, resume, and the auto-resume timer *)

\* What a launch remembers of the line it read: a manual resume and a route
\* abort its revision and fence, an auto-resume the pause's fence and attempts,
\* a start nothing; and whether nobody was inside the run, here or elsewhere.
Read(p, mode) ==
    [step |-> "reading", mode |-> mode,
     revision |-> IF mode \in {"resume", "abort"} THEN row.revision ELSE 0,
     fence |-> IF mode \in {"resume", "auto"} THEN fence ELSE 0,
     attempts |-> IF mode = "auto" THEN row.attempts ELSE 0,
     clear |-> mode # "abort" /\ Answering(p) = 0 /\ ~Leased]

\* start() up to the acquire: reserve the run in this process, read its line,
\* and note whether anybody is inside it right now.  A route answer "abort" is
\* a start that turns out to cancel.
Prepare(p, mode) ==
    /\ prep[p].step = "idle"
    /\ fence < MaxFence
    /\ mode \in {"start", "abort"}
    /\ mode = "abort" => row.status = "paused" /\ row.reason = "user"
    /\ prep' = [prep EXCEPT ![p] = Read(p, mode)]
    /\ UNCHANGED <<row, fence, lease, guard, pc, acq, view, snap, registry, plan, faults>>

\* resume(): read the line and refresh this process's own view of it, and only
\* then refuse anything but a pause, or a launch already being prepared here.
Resume(p) ==
    /\ Up(p)
    /\ fence < MaxFence \/ prep[p].step # "idle"
    /\ row.status # "missing"
    /\ view' = Refreshed(p)
    /\ prep' = IF row.status = "paused" /\ prep[p].step = "idle"
                 THEN [prep EXCEPT ![p] = Read(p, "resume")] ELSE prep
    /\ UNCHANGED <<row, fence, lease, guard, pc, acq, snap, registry, plan, faults>>

\* _fire: claim the plan, then resume() with its token; a line that moved on,
\* or a launch already being prepared here, refuses and the plan is spent.
Fire(p) ==
    /\ plan[p].step = "armed"
    /\ fence < MaxFence
    /\ plan' = [plan EXCEPT ![p] = NoPlan]
    /\ IF ResumeTokenHolds(plan[p].fence, plan[p].attempts)
         THEN /\ view' = Refreshed(p)
              /\ prep' = IF prep[p].step = "idle"
                           THEN [prep EXCEPT ![p] = Read(p, "auto")] ELSE prep
         ELSE UNCHANGED <<view, prep>>
    /\ UNCHANGED <<row, fence, lease, guard, pc, acq, snap, registry, faults>>

\* What the acquiring transaction re-validates of the launch's captured pause.
TokenHolds(p) ==
    /\ prep[p].mode = "resume" => PauseTokenHolds(prep[p].revision, prep[p].fence)
    /\ prep[p].mode = "auto" => ResumeTokenHolds(prep[p].fence, prep[p].attempts)

\* acquire_result / acquire_paused, then _remember_acquisition: the store
\* forgets its older acquisition's heartbeat and plan, and beats for this one.
AcquireRun(p) ==
    /\ prep[p].step = "reading" /\ prep[p].mode # "abort"
    /\ CanAcquire /\ TokenHolds(p)
    /\ fence < MaxFence
    /\ Acquire(p)
    /\ LET f == fence + 1 IN
         /\ Goto(f, "acquired")
         /\ acq' = [g \in Stretch |->
              IF g = f
                THEN [Unborn EXCEPT !.proc = p, !.mode = prep[p].mode,
                                    !.orphaned = prep[p].clear, !.beating = TRUE]
                ELSE IF Owner(g) = p THEN [acq[g] EXCEPT !.beating = FALSE]
                ELSE acq[g]]
    /\ prep' = [prep EXCEPT ![p] = [Idle EXCEPT !.step = "launching"]]
    /\ plan' = [plan EXCEPT ![p] = NoPlan]
    /\ UNCHANGED <<view, snap, registry, faults>>

\* Busy, conflict, not_paused or publication_busy: nothing was taken.  A start
\* that found its own process live inside the run goes on without a fence.
AcquireRefused(p) ==
    /\ prep[p].step = "reading" /\ prep[p].mode # "abort"
    /\ ~(CanAcquire /\ TokenHolds(p))
    /\ prep' = [prep EXCEPT ![p] =
         IF prep[p].mode = "start" /\ Leased /\ IsLive(Answering(p))
           THEN [Idle EXCEPT !.step = "unleased"] ELSE Idle]
    /\ UNCHANGED <<row, fence, lease, guard, pc, acq, view, snap, registry, plan, faults>>

\* The registry clash refuses it, or the line does: no fence is never current.
\* The second way out releases whatever lease this store last took.
UnleasedRefused(p) ==
    /\ prep[p].step = "unleased"
    /\ prep' = [prep EXCEPT ![p] = Idle]
    /\ IF IsLive(registry[p])
         THEN UNCHANGED <<lease, registry>>
         ELSE /\ registry' = [registry EXCEPT ![p] = 0]
              /\ IF fence # 0 /\ Owner(fence) = p THEN Release(p, fence) ELSE UNCHANGED lease
    /\ UNCHANGED <<row, fence, guard, pc, acq, view, snap, plan, faults>>

\* Mutant: the verdict of the read made before the acquire.
Orphaned_ReadAhead(f) == acq[f].orphaned

\* Is the run this stretch takes over one whose owner died?  The line decides,
\* as reloaded under ownership.
Orphaned(f) == acq[f].orphaned /\ row.status = "running"

\* Mutant: no check before registering.
Clash_Unchecked(f) == FALSE

\* Check and register atomically: a stretch still live here keeps the run.
Clash(f) == IsLive(registry[Owner(f)])

\* Reload the line and the spend under ownership, then register; a ceiling
\* already spent or a clash refuses the launch.
Admit(f) ==
    /\ pc[f] = "acquired"
    /\ acq' = [acq EXCEPT ![f].prior = row, ![f].orphaned = Orphaned(f)]
    /\ \/ Goto(f, "refusing") /\ UNCHANGED <<view, registry>>
       \/ /\ ~Clash(f)
          /\ Goto(f, "registered")
          /\ registry' = [registry EXCEPT ![Owner(f)] = f]
          /\ view' = [view EXCEPT ![f] = [revision |-> row.revision,
                                          status |-> "running"]]
    /\ UNCHANGED <<row, fence, lease, guard, snap, prep, plan, faults>>

\* A launch onto an existing run is one more attempt of that run.
NextAttempt(f) ==
    IF acq[f].prior.status = "missing" THEN 0 ELSE acq[f].prior.attempts + 1

\* A fresh view has no pause reason; one refreshed from a paused line has its.
LaunchReason(f) == IF view[f].status = "paused" THEN row.reason ELSE "none"

\* First write of the acquisition: what its view says now.  Refused or lost, it
\* deregisters the stretch.
LaunchWrite(f) ==
    /\ pc[f] = "registered"
    /\ \E ok \in BOOLEAN :
         /\ Stored(ok)
         /\ IF ok /\ CanWrite(f, "launch", view[f].revision, "running")
              THEN /\ Put(view[f].status, LaunchReason(f), NextAttempt(f))
                   /\ Goto(f, "launched")
                   /\ acq' = [acq EXCEPT ![f].receipt = row.revision + 1,
                                         ![f].attempts = NextAttempt(f)]
                   /\ UNCHANGED registry
              ELSE /\ Goto(f, "refusing")
                   /\ registry' = Deregistered(f)
                   /\ UNCHANGED <<row, acq>>
         /\ view' = IF ok THEN Adopted(f) ELSE view
    /\ UNCHANGED <<fence, lease, guard, snap, prep, plan>>

\* The spend ledger is written under the same fence before anything runs, then
\* LaunchAdmission.submit publishes the accepted Future and retires the ticket.
Submit(f) ==
    /\ pc[f] = "launched"
    /\ IF f = fence
         THEN /\ Goto(f, "running")
              /\ acq' = [acq EXCEPT ![f].prior = Missing, ![f].receipt = 0]
              /\ prep' = [prep EXCEPT ![Owner(f)] = Idle]
              /\ UNCHANGED registry
         ELSE /\ Goto(f, "refusing")
              /\ registry' = Deregistered(f)
              /\ UNCHANGED <<acq, prep>>
    /\ UNCHANGED <<row, fence, lease, guard, view, snap, plan, faults>>

\* Any exception before the submission was accepted.
LaunchFails(f) ==
    /\ pc[f] \in {"acquired", "registered", "launched"}
    /\ Goto(f, "abandoning")
    /\ Fault
    /\ UNCHANGED <<row, fence, lease, guard, acq, view, snap, prep, registry, plan>>

\* What a refused launch puts back: a run that was running or new has failed.
Restored(f) ==
    IF acq[f].prior.status \in {"running", "missing"} THEN "failed"
    ELSE acq[f].prior.status

\* _abandon_launch: put back the line the launch displaced, by compare-and-swap
\* on the launch's own receipt.  A line that cannot be restored is only logged.
Abandon(f) ==
    /\ pc[f] = "abandoning"
    /\ \E ok \in BOOLEAN :
         /\ Stored(ok)
         /\ IF ok /\ acq[f].receipt # 0
                  /\ CanWrite(f, "refuse_launch", acq[f].receipt, Restored(f))
              THEN Put(Restored(f), acq[f].prior.reason, acq[f].prior.attempts)
              ELSE UNCHANGED row
    /\ registry' = Deregistered(f)
    /\ Goto(f, "refusing")
    /\ UNCHANGED <<fence, lease, guard, acq, view, snap, prep, plan>>

\* RunStateStore.release: stop the heartbeat even of an obsolete acquisition,
\* delete the lease only as this store's latest one.  SQLite may refuse.
ReleaseLease(f) ==
    \/ /\ UNCHANGED faults
       /\ IF Latest(f) THEN Release(Owner(f), f) ELSE UNCHANGED lease
    \/ Fault /\ UNCHANGED lease

ReleaseRefused(f) ==
    /\ pc[f] = "refusing"
    /\ ReleaseLease(f)
    /\ acq' = [acq EXCEPT ![f] = Closed(f)]
    /\ view' = Forgotten(f)
    /\ Goto(f, "refused")
    /\ prep' = [prep EXCEPT ![Owner(f)] = Idle]
    /\ UNCHANGED <<row, fence, guard, snap, registry, plan>>
-------------------------------------------------------------------------------
(* A stretch that runs: progress, heartbeat, and the engine's verdict *)

\* _run_event on a leaf thread: capture the stretch's view ...
Capture(f) ==
    /\ pc[f] \in Executing
    /\ acq[f].snaps < MaxSnaps
    /\ snap[f] = NoView
    /\ snap' = [snap EXCEPT ![f] = view[f]]
    /\ acq' = [acq EXCEPT ![f].snaps = @ + 1]
    /\ UNCHANGED <<row, fence, lease, guard, pc, view, prep, registry, plan, faults>>

\* ... and write it, any time later.
WriteSnapshot(f) ==
    /\ snap[f] # NoView
    /\ IF CanWrite(f, "snapshot", snap[f].revision, snap[f].status)
         THEN Put(snap[f].status, row.reason, row.attempts)
         ELSE UNCHANGED row
    /\ view' = Adopted(f)
    /\ snap' = [snap EXCEPT ![f] = NoView]
    /\ UNCHANGED <<fence, lease, guard, pc, acq, prep, registry, plan, faults>>

\* _tick -> renew(force) under the stretch's own fence; a stored cell renews
\* the lease as well, while this store still holds the acquisition.
Beat(f) ==
    /\ acq[f].beating \/ (pc[f] = "running" /\ Latest(f))
    /\ CanRenew(Owner(f), f)
    /\ Renew(Owner(f))
    /\ UNCHANGED <<row, fence, guard, pc, acq, view, snap, prep, registry, plan, faults>>

\* _notify_lost -> _abort_fenced_run: in memory only, once per loss.
AbortFenced(f) ==
    /\ acq[f].beating
    /\ LET known == registry[Owner(f)] = f IN
         /\ acq' = [acq EXCEPT ![f].beating = FALSE,
                               ![f].fenced = known \/ @,
                               ![f].halted = IF known THEN Halted(f) ELSE @]
         /\ plan' = IF known THEN Revoked(Owner(f), f) ELSE plan
    /\ UNCHANGED <<row, fence, lease, guard, pc, view, snap, prep, registry>>

\* renew matched no row: another acquisition owns the run.
LeaseLost(f) ==
    ~CanRenew(Owner(f), f) /\ AbortFenced(f) /\ UNCHANGED faults

\* SQLITE_BUSY outlasting its timeout: renew_run_lease answers False as well.
BusyRenewal(f) == CanRenew(Owner(f), f) /\ AbortFenced(f) /\ Fault

\* engine.run returned or raised, then _finish_state: the functional decision
\* of this acquisition.  "cancelled" needs the cancel flag; the flag may also
\* have come after another verdict was sealed.  A decision refused, or lost to
\* a storage error, conveys no right to publish.
Finish(f) ==
    /\ pc[f] = "running"
    /\ \E o \in Outcomes, ok \in BOOLEAN :
         LET written == ok /\ CanWrite(f, "finish", AnyRevision, StatusOf(o)) IN
         /\ Stored(ok)
         /\ o = "cancelled" => acq[f].halted
         /\ acq' = [acq EXCEPT ![f].outcome = o, ![f].accepted = written,
                               ![f].halted = FALSE]
         /\ IF written THEN Put(StatusOf(o), ReasonOf(o), acq[f].attempts)
                       ELSE UNCHANGED row
         /\ view' = IF ok THEN Adopted(f) ELSE view
         /\ Goto(f, IF written /\ o = "quota" THEN "decided" ELSE "drained")
    /\ UNCHANGED <<fence, lease, guard, snap, prep, registry, plan>>

\* _on_paused: an accepted quota pause with attempts left keeps its resume
\* intent; an older plan of this process is replaced.
OnPaused(f) ==
    /\ pc[f] = "decided"
    /\ Goto(f, "drained")
    /\ plan' = IF /\ view[f].status = "paused"
                  /\ AttemptsLeft(acq[f].attempts)
                  /\ plan[Owner(f)].fence < f
                 THEN [plan EXCEPT ![Owner(f)] =
                        [step |-> "prepared", fence |-> f, attempts |-> acq[f].attempts]]
                 ELSE plan
    /\ UNCHANGED <<row, fence, lease, guard, acq, view, snap, prep, registry, faults>>

\* The core is drained, settle_finances replaces the spend row, and the final
\* snapshot confirms that this acquisition still owns the line.  All of it is
\* fenced and each write may fail.
Settle(f) ==
    /\ pc[f] = "drained"
    /\ \E settled, ok \in BOOLEAN :
         LET owned == ok /\ CanWrite(f, "snapshot", view[f].revision, view[f].status) IN
         /\ Stored(settled /\ ok)
         /\ IF owned THEN Put(view[f].status, row.reason, row.attempts) ELSE UNCHANGED row
         /\ acq' = [acq EXCEPT ![f].clean = settled /\ owned]
         /\ view' = IF ok THEN Adopted(f) ELSE view
    /\ Goto(f, "snapped")
    /\ UNCHANGED <<fence, lease, guard, snap, prep, registry, plan>>

ReleaseRun(f) ==
    /\ pc[f] = "snapped"
    /\ ReleaseLease(f)
    /\ acq' = [acq EXCEPT ![f].beating = FALSE]
    /\ Goto(f, "released")
    /\ UNCHANGED <<row, fence, guard, view, snap, prep, registry, plan>>
-------------------------------------------------------------------------------
(* Publication: certify, notify and record under the run's guard *)

\* Only this acquisition's accepted decision, settled and still on its line.
MayPublish(f) ==
    /\ acq[f].accepted
    /\ acq[f].clean
    /\ view[f].status = StatusOf(acq[f].outcome)
    /\ view[f].status # "cancelled"

\* Re-read under the guard: the fence and the status must still be ours.
StillOurs(f) == fence = f /\ row.status = StatusOf(acq[f].outcome)

EnterGuard(f) ==
    /\ pc[f] = "released"
    /\ MayPublish(f)
    /\ GuardFree
    /\ StillOurs(f)
    /\ guard' = f
    /\ Goto(f, "publishing")
    /\ UNCHANGED <<row, fence, lease, acq, view, snap, prep, registry, plan, faults>>

\* No right to publish, the line moved on, or somebody is inside the guard
\* for a moment: the outcome is not announced.
SkipPublication(f) ==
    /\ pc[f] = "released"
    /\ acq' = [acq EXCEPT ![f] = Closed(f)]
    /\ view' = Forgotten(f)
    /\ Goto(f, "done")
    /\ UNCHANGED <<row, fence, lease, guard, snap, prep, registry, plan, faults>>

\* The file and callback effects happen while the guard is held.
Publish(f) ==
    /\ pc[f] = "publishing"
    /\ guard' = 0
    /\ acq' = [acq EXCEPT ![f] = [Closed(f) EXCEPT !.published = TRUE]]
    /\ view' = Forgotten(f)
    /\ Goto(f, "done")
    /\ UNCHANGED <<row, fence, lease, snap, prep, registry, plan, faults>>
-------------------------------------------------------------------------------
(* Auto-resume plans *)

\* The line and the lease allow arming the plan of process p.
Armable(p) ==
    /\ ResumeTokenHolds(plan[p].fence, plan[p].attempts)
    /\ ~IsLive(registry[p])
    /\ ~Leased

\* _arm_resume once the stretch's Future is done.
ArmPlan(p) ==
    /\ plan[p].step = "prepared"
    /\ pc[plan[p].fence] = "done"
    /\ plan' = [plan EXCEPT ![p] =
                 IF Armable(p) THEN [@ EXCEPT !.step = "armed"] ELSE NoPlan]
    /\ UNCHANGED <<row, fence, lease, guard, pc, acq, view, snap, prep, registry, faults>>

\* rearm_pending_resumes: a process adopts a durable quota pause nobody holds.
Rearm(p) ==
    /\ Up(p)
    /\ row.status = "paused" /\ row.reason = "quota"
    /\ AttemptsLeft(row.attempts)
    /\ ~IsLive(registry[p])
    /\ ~Leased
    /\ plan[p].fence <= fence
    /\ plan' = [plan EXCEPT ![p] =
                 [step |-> "armed", fence |-> fence, attempts |-> row.attempts]]
    /\ UNCHANGED <<row, fence, lease, guard, pc, acq, view, snap, prep, registry, faults>>
-------------------------------------------------------------------------------
(* Cancellation, crash, time *)

\* The fences a cancel in process p may present: that of a stretch it
\* registered, captured any time ago, or none at all.
Presentable(p) == {Ownerless} \cup
    {g \in Stretch : Owner(g) = p /\ view[g] # NoView}

\* cancel(): decide on the line, then stop only this local stretch; a newer
\* fence means this process was already replaced.
CancelRun(p, g) ==
    /\ Up(p)
    /\ IF CanCancel(g, AnyRevision)
         THEN /\ Cancel
              /\ plan' = Revoked(p, fence)
              /\ view' = IF g = Ownerless THEN view ELSE Adopted(g)
              /\ acq' = IF g = Ownerless THEN acq ELSE [acq EXCEPT ![g].halted = Halted(g)]
         ELSE /\ g # Ownerless /\ g # fence /\ GuardFree
              /\ acq' = [acq EXCEPT ![g].halted = Halted(g), ![g].fenced = TRUE]
              /\ UNCHANGED <<row, view, plan>>
    /\ UNCHANGED <<fence, lease, guard, pc, snap, prep, registry, faults>>

\* _abort_route_fault: an ownerless cancel of exactly the pause that was read.
AbortRoute(p) ==
    /\ prep[p].step = "reading" /\ prep[p].mode = "abort"
    /\ LET g == Answering(p) IN
       IF CanCancel(Ownerless, prep[p].revision)
         THEN /\ Cancel
              /\ plan' = Revoked(p, fence)
              /\ view' = IF g = 0 THEN view ELSE Adopted(g)
         ELSE UNCHANGED <<row, plan, view>>
    /\ prep' = [prep EXCEPT ![p] = Idle]
    /\ UNCHANGED <<fence, lease, guard, pc, acq, snap, registry, faults>>

\* The process dies: its threads, timers and guard go, the tables stay.
Crash(p) ==
    /\ Up(p)
    /\ Fault
    /\ LET mine == {f \in Stretch : Owner(f) = p /\ pc[f] \notin Ended} IN
         /\ pc' = [f \in Stretch |-> IF f \in mine THEN "dead" ELSE pc[f]]
         /\ guard' = IF guard \in mine THEN 0 ELSE guard
    /\ acq' = [f \in Stretch |-> IF Owner(f) = p THEN Closed(f) ELSE acq[f]]
    /\ snap' = [f \in Stretch |-> IF Owner(f) = p THEN NoView ELSE snap[f]]
    /\ prep' = [prep EXCEPT ![p] = [Idle EXCEPT !.step = "down"]]
    /\ registry' = [registry EXCEPT ![p] = 0]
    /\ plan' = [plan EXCEPT ![p] = NoPlan]
    /\ view' = [f \in Stretch |-> IF Owner(f) = p THEN Forgotten(f)[f] ELSE view[f]]
    /\ UNCHANGED <<row, fence, lease>>

Time == Tick /\ UNCHANGED <<pc, acq, view, snap, prep, registry, plan, faults>>
-------------------------------------------------------------------------------
\* The steps a launching or running thread takes on its own.
LaunchStep(f) ==
    \/ Admit(f) \/ LaunchWrite(f) \/ Submit(f)
    \/ LaunchFails(f) \/ Abandon(f) \/ ReleaseRefused(f)

\* Everything a run thread does after the engine returned.
EpilogueStep(f) ==
    \/ OnPaused(f) \/ Settle(f) \/ ReleaseRun(f)
    \/ EnterGuard(f) \/ SkipPublication(f) \/ Publish(f)

BackgroundStep(f) ==
    \/ Capture(f) \/ WriteSnapshot(f) \/ Beat(f) \/ LeaseLost(f)
    \/ BusyRenewal(f)

ProcessStep(p) ==
    \/ \E mode \in Requests \ {"resume"} : Prepare(p, mode)
    \/ "resume" \in Requests /\ Resume(p)
    \/ Fire(p) \/ AcquireRun(p) \/ AcquireRefused(p) \/ UnleasedRefused(p)
    \/ ArmPlan(p) \/ Rearm(p)
    \/ \E g \in Presentable(p) : CancelRun(p, g)
    \/ AbortRoute(p) \/ Crash(p)

Next ==
    \/ \E f \in Stretch :
         LaunchStep(f) \/ Finish(f) \/ EpilogueStep(f) \/ BackgroundStep(f)
    \/ \E p \in Process : ProcessStep(p)
    \/ Time

Spec == Init /\ [][Next]_vars

\* The clock ticks and threads run: launching and epilogue code has no wait
\* that is not bounded by SQLite's busy timeout.  An engine need never return.
Fairness ==
    /\ WF_vars(Time)
    /\ \A f \in Stretch : WF_vars(LaunchStep(f)) /\ WF_vars(EpilogueStep(f))

FairSpec == Spec /\ Fairness
-------------------------------------------------------------------------------
(* What the acquisitions implement *)

\* How far the current acquisition got; superseded ones do not count.
PhaseOf(f) ==
    CASE pc[f] \in {"acquired", "registered"} -> "launching"
      [] pc[f] = "launched" -> "launched"
      [] pc[f] = "abandoning" /\ acq[f].receipt # 0 -> "launched"
      [] pc[f] = "running" -> "executing"
      [] pc[f] \in Executing \ {"running", "publishing"} /\ acq[f].accepted -> "decided"
      [] pc[f] = "publishing" -> "announcing"
      [] OTHER -> "closed"

CurrentPhase == IF fence = 0 THEN "none" ELSE PhaseOf(fence)

Lifecycle == INSTANCE RunLifecycle WITH
    status <- row.status,
    generation <- fence,
    phase <- CurrentPhase

\* Nothing a superseded acquisition still does reaches the run: every step of
\* every thread is a step of the one acquisition that counts, a cancellation,
\* or invisible (the fence of state/runstate.py, end to end).
ImplementsLifecycle == Lifecycle!LifecycleSpec
-------------------------------------------------------------------------------
(* Safety *)

\* While an outcome is being announced the line still says it and nobody has
\* taken the run: the guard holds cancellation and succession off for exactly
\* as long as the file and callback effects last (_publish_outcome).
AnnouncedIsDurable ==
    \A f \in Stretch : pc[f] = "publishing" =>
        /\ guard = f
        /\ fence = f
        /\ row.status = StatusOf(acq[f].outcome)

\* A stretch announced as recovered really took an abandoned run: its
\* predecessor never announces an outcome, before or after (_start_unlocked
\* decides "orphaned" on the line as reloaded under ownership, not as read
\* before the acquire).
RecoveredIsSilent ==
    \A f, g \in Stretch :
        (f = g + 1 /\ acq[f].orphaned /\ pc[f] \in Executing) => ~acq[g].published

\* One process never has two stretches of the run executing at once: the
\* registry clash is decided under the service lock (_start_unlocked).
OneEnginePerProcess ==
    \A f, g \in Stretch :
        (pc[f] \in Executing /\ pc[g] \in Executing /\ Owner(f) = Owner(g)) => f = g

\* An accepted launch write.
Launching(f) == pc[f] = "registered" /\ pc'[f] = "launched"

\* A launch about to be written presents a view no newer than the line; if it
\* is as new, it says what the line says or that the run is running, and the
\* receipt a withdrawal compares with exists exactly once the line was written.
LaunchSeesTheLine ==
    \A f \in Stretch :
        /\ view[f].revision <= row.revision
        /\ pc[f] = "registered" =>
             /\ view[f].status # "missing"
             /\ view[f].revision = row.revision => view[f].status \in {"running", row.status}
        /\ pc[f] \in {"acquired", "registered"} => acq[f].receipt = 0
        /\ pc[f] = "launched" => acq[f].receipt # 0

\* A cancel that lands after a launch reloaded the line is not overwritten by
\* it: the launch write compares the revision it last adopted (runstate.write).
CancelSurvivesLaunch ==
    [][\A f \in Stretch :
        (Launching(f) /\ row.status = "cancelled" /\ acq[f].prior.status # "cancelled")
            => row'.status = "cancelled"]_vars

\* A manual resume and an auto-resume never revive a cancelled line: only an
\* explicit start is a replay (WorkflowService.resume).
CancelSticks ==
    [][\A f \in Stretch :
        (Launching(f) /\ row.status = "cancelled" /\ acq[f].mode # "start")
            => row'.status = "cancelled"]_vars

\* A verdict leaves the line only through a new launch or the withdrawal of one.
VerdictStands ==
    [][row.status \in Finished /\ row'.status # row.status
        => \E f \in Stretch : Launching(f)]_vars

\* An auto-resume never takes a run past its attempts, however many processes
\* hold a plan for it (_on_paused, rearm_pending_resumes, ResumeToken).
AutoLaunchIsCapped ==
    \A f \in Stretch :
        (Launching(f) /\ acq[f].mode = "auto") => row'.attempts <= MaxAttempts

AutoResumeCapped == [][AutoLaunchIsCapped]_vars

\* A route answered "abort" ends the pause that was answered, never a stretch
\* somebody launched in the meantime, not even one whose lease has lapsed
\* (_abort_route_fault).
AbortEndsOnlyThePause ==
    [][\A p \in Process :
        (/\ prep[p].step = "reading" /\ prep[p].mode = "abort"
         /\ prep'[p] # prep[p] /\ row' # row /\ row'.status = "cancelled")
            => row.status = "paused" /\ row.revision = prep[p].revision]_vars

\* Only a request to cancel, never a stretch's own bookkeeping, cancels a run.
CancelledOnlyOnRequest ==
    [][\A f \in Stretch :
        (pc[f] = "running" /\ pc'[f] # "running" /\ row.status = "running")
            => row'.status # "cancelled"]_vars

\* A current owner that reaches SQLite has its verdict accepted unless the run
\* was cancelled: nothing else makes a decision moot (runstate.write).
VerdictAccepted ==
    [][\A f \in Stretch :
        (/\ pc[f] = "running" /\ pc'[f] \in {"decided", "drained"}
         /\ fence = f /\ row.status # "cancelled" /\ faults' = faults)
            => acq'[f].accepted]_vars
-------------------------------------------------------------------------------
(* Liveness *)

\* An acquisition whose engine does not run gives the run back: it starts it,
\* is superseded, or leaves no live lease behind, whatever failed in between
\* (every exit of start, _abandon_launch, _run's finally, release, the TTL).
OwnershipEnds ==
    \A f \in Stretch :
        (fence = f /\ pc[f] # "running") ~> (pc[f] = "running" \/ fence # f \/ ~Leased)
===============================================================================
