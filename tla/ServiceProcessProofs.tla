------------------------- MODULE ServiceProcessProofs -------------------------
(***************************************************************************)
(* Theorems about ServiceProcess, for any number of launching threads,     *)
(* acquisitions and plans.                                                 *)
(***************************************************************************)
EXTENDS ServiceProcess, TLAPS

Plans == 1 .. MaxPlans

-------------------------------------------------------------------------------
(* The plans of the scheduler *)

\* Where a plan's arming is tells what its timer may do: a current plan that is
\* armed has a timer that will fire, and a firing before the start was accepted
\* was noted.
ArmInv ==
    \A i \in Plans :
        /\ plans[i].arm \in {"idle", "starting", "made", "started"} => ~plans[i].accepted
        /\ current = i =>
             /\ plans[i].arm = "made" => plans[i].timer = "set"
             /\ plans[i].arm = "started" => plans[i].timer = "live" \/ plans[i].early
             /\ plans[i].arm = "fire" => plans[i].accepted
             /\ plans[i].arm = "over" => plans[i].timer = "live" /\ plans[i].accepted

PlansInv == Scheduler!SchedulerTypeOK /\ ArmInv

\* The ways a thread uses the scheduler.
PlansMove ==
    \/ UNCHANGED resumes
    \/ \E i \in 0 .. MaxPlans : Scheduler!Drop(i) \/ Scheduler!ArmBegin(i)
    \/ \E i \in Plans :
         \/ Scheduler!ArmMake(i) \/ Scheduler!ArmStart(i) \/ Scheduler!ArmAccept(i)
         \/ Scheduler!Fire(i) \/ Scheduler!ArmFire(i)
    \/ \E f \in Nat : (closed \/ Scheduler!CanInstall) /\ Scheduler!Prepare(f)
    \/ Scheduler!Shutdown

\* A cancelled timer is a timer, and nothing else of the plan changes.
LEMMA TimerCancelledType ==
    ASSUME NEW plan \in Scheduler!PlanRow
    PROVE  /\ Scheduler!TimerCancelled(plan) \in Scheduler!PlanRow
           /\ Scheduler!TimerCancelled(plan).arm = plan.arm
           /\ Scheduler!TimerCancelled(plan).accepted = plan.accepted
           /\ Scheduler!TimerCancelled(plan).fence = plan.fence
BY DEF Scheduler!TimerCancelled, Scheduler!PlanRow

\* Replacing one plan, and perhaps the current one, keeps what ArmInv says of
\* the others.
LEMMA OnePlan ==
    ASSUME ProcessAssumption, PlansInv, NEW i \in Plans, NEW plan \in Scheduler!PlanRow,
           plans' = [plans EXCEPT ![i] = plan],
           current' \in {0, current}, UNCHANGED closed,
           plan.arm \in {"idle", "starting", "made", "started"} => ~plan.accepted,
           current' = i =>
             /\ plan.arm = "made" => plan.timer = "set"
             /\ plan.arm = "started" => plan.timer = "live" \/ plan.early
             /\ plan.arm = "fire" => plan.accepted
             /\ plan.arm = "over" => plan.timer = "live" /\ plan.accepted
    PROVE  PlansInv'
<1>1. Scheduler!SchedulerTypeOK'
    BY DEF PlansInv, Scheduler!SchedulerTypeOK, Scheduler!Plan, Plans, ProcessAssumption
<1>2. ASSUME NEW j \in Plans
      PROVE  plans'[j] = IF j = i THEN plan ELSE plans[j]
    BY DEF PlansInv, Scheduler!SchedulerTypeOK, Scheduler!Plan, Plans
<1>3. ArmInv'
    BY <1>2 DEF PlansInv, ArmInv, Plans
<1>4. QED
    BY <1>1, <1>3 DEF PlansInv

\* cancel, acquired and cancel_fence keep it: the plan they drop is not current.
LEMMA DropKeeps ==
    ASSUME ProcessAssumption, PlansInv, NEW i \in 0 .. MaxPlans, Scheduler!Drop(i)
    PROVE  PlansInv'
<1>1. CASE current = i /\ i # 0
    <2>1. i \in Plans /\ plans[i] \in Scheduler!PlanRow
        BY <1>1 DEF PlansInv, Scheduler!SchedulerTypeOK, Scheduler!Plan, Plans
    <2>2. plans' = [plans EXCEPT ![i] = Scheduler!TimerCancelled(plans[i])]
        BY <1>1 DEF Scheduler!Drop
    <2>3. current' = 0 /\ closed' = closed
        BY <1>1 DEF Scheduler!Drop
    <2>4. plans[i].arm \in {"idle", "starting", "made", "started"} => ~plans[i].accepted
        BY <2>1 DEF PlansInv, ArmInv
    <2>5. i # 0
        BY <1>1
    <2>6. QED
        BY <2>1, <2>2, <2>3, <2>4, <2>5, TimerCancelledType, OnePlan
<1>2. CASE ~(current = i /\ i # 0)
    <2>1. UNCHANGED resumes
        BY <1>2 DEF Scheduler!Drop, resumes
    <2>2. QED
        BY <2>1 DEF resumes, PlansInv, ArmInv, Scheduler!SchedulerTypeOK
<1>3. QED
    BY <1>1, <1>2

\* prepare keeps it: a new plan is idle, and the one it replaces is not current.
LEMMA PrepareKeeps ==
    ASSUME ProcessAssumption, PlansInv, NEW f \in Nat, closed \/ Scheduler!CanInstall, Scheduler!Prepare(f)
    PROVE  PlansInv'
<1> DEFINE i == Scheduler!Prepared(f)
<1>1. i \in {0, current} \/ (i \in Plans /\ i = Scheduler!NextPlan)
    <2>1. CASE closed \/ (current # 0 /\ plans[current].fence >= f)
        BY <2>1 DEF Scheduler!Prepared, PlansInv, Scheduler!SchedulerTypeOK,
                    Scheduler!Plan, Scheduler!PlanRow
    <2>2. CASE ~closed /\ ~(current # 0 /\ plans[current].fence >= f)
        <3>1. i = Scheduler!NextPlan
            BY <2>2 DEF Scheduler!Prepared, PlansInv, Scheduler!SchedulerTypeOK,
                        Scheduler!Plan, Scheduler!PlanRow
        <3>2. Scheduler!NextPlan \in Plans
            BY <2>2 DEF Scheduler!NextPlan, Scheduler!CanInstall, Scheduler!Plan, Plans
        <3>3. QED
            BY <3>1, <3>2
    <2>3. QED
        BY <2>1, <2>2
<1>2. /\ current' = IF i = 0 THEN current ELSE i
      /\ plans' = IF i \in {0, current} THEN plans
                  ELSE [j \in Plans |->
                         IF j = i THEN [Scheduler!NoPlan EXCEPT !.fence = f]
                         ELSE IF j = current THEN Scheduler!TimerCancelled(plans[j])
                         ELSE plans[j]]
      /\ closed' = closed
    BY DEF Scheduler!Prepare, Scheduler!Plan, Plans
<1> HIDE DEF i
<1>3. CASE i \in {0, current}
    BY <1>2, <1>3 DEF PlansInv, ArmInv, Scheduler!SchedulerTypeOK
<1>4. CASE i \in Plans /\ i \notin {0, current}
    <2> DEFINE fresh == [Scheduler!NoPlan EXCEPT !.fence = f]
    <2>1. fresh \in Scheduler!PlanRow /\ fresh.arm = "idle" /\ ~fresh.accepted
        BY DEF Scheduler!PlanRow, Scheduler!NoPlan
    <2> HIDE DEF fresh
    <2>2. \A j \in Plans :
            /\ plans[j] \in Scheduler!PlanRow
            /\ plans'[j] = IF j = i THEN fresh
                           ELSE IF j = current THEN Scheduler!TimerCancelled(plans[j])
                           ELSE plans[j]
        BY <1>2, <1>4 DEF fresh, PlansInv, Scheduler!SchedulerTypeOK, Scheduler!Plan, Plans
    <2>3. \A j \in Plans :
            /\ plans'[j] \in Scheduler!PlanRow
            /\ j # i => plans'[j].arm = plans[j].arm /\ plans'[j].accepted = plans[j].accepted
        BY <2>1, <2>2, TimerCancelledType
    <2>4. current' = i /\ closed' = closed
        BY <1>2, <1>4
    <2>5. plans' \in [Plans -> Scheduler!PlanRow]
        BY <1>2, <1>4, <2>3 DEF Plans
    <2>6. Scheduler!SchedulerTypeOK'
        BY <1>4, <2>4, <2>5 DEF PlansInv, Scheduler!SchedulerTypeOK, Scheduler!Plan, Plans
    <2>7. plans'[i] = fresh
        BY <1>4, <2>2
    <2>8. ArmInv'
        BY <1>4, <2>1, <2>3, <2>4, <2>7 DEF PlansInv, ArmInv
    <2>9. QED
        BY <2>6, <2>8 DEF PlansInv
<1>5. QED
    BY <1>1, <1>3, <1>4

\* Arming and firing keep it, wherever the other threads cut in.
LEMMA ArmingKeeps ==
    ASSUME ProcessAssumption, PlansInv, NEW i \in Plans,
           \/ Scheduler!ArmMake(i) \/ Scheduler!ArmStart(i) \/ Scheduler!ArmAccept(i)
           \/ Scheduler!Fire(i) \/ Scheduler!ArmFire(i)
    PROVE  PlansInv'
<1>1. plans[i] \in Scheduler!PlanRow
    BY DEF PlansInv, Scheduler!SchedulerTypeOK, Scheduler!Plan, Plans
<1>2. /\ plans[i].arm \in {"idle", "starting", "made", "started"} => ~plans[i].accepted
      /\ current = i =>
           /\ plans[i].arm = "made" => plans[i].timer = "set"
           /\ plans[i].arm = "started" => plans[i].timer = "live" \/ plans[i].early
           /\ plans[i].arm = "fire" => plans[i].accepted
           /\ plans[i].arm = "over" => plans[i].timer = "live" /\ plans[i].accepted
    BY DEF PlansInv, ArmInv
<1>3. i # 0
    BY DEF Plans
<1>4. CASE Scheduler!ArmMake(i)
    <2>1. PICK arm \in {"made", "over"}, next \in {plans[i].timer, "set", "none"} :
            /\ plans' = [plans EXCEPT ![i] = [plans[i] EXCEPT !.arm = arm, !.timer = next]]
            /\ current' \in {0, current} /\ closed' = closed
            /\ current' = i => arm = "made" /\ next = "set"
            /\ plans[i].arm = "starting"
        BY <1>3, <1>4, ZenonT(60)
           DEF Scheduler!ArmMake, Scheduler!PlanRow, PlansInv, Scheduler!SchedulerTypeOK
    <2>2. [plans[i] EXCEPT !.arm = arm, !.timer = next] \in Scheduler!PlanRow
        BY <1>1, <2>1 DEF Scheduler!PlanRow
    <2>3. QED
        BY <1>1, <1>2, <2>1, <2>2, OnePlan DEF Scheduler!PlanRow
<1>5. CASE Scheduler!ArmStart(i)
    <2>1. CASE plans' = [plans EXCEPT ![i].arm = "started",
                                      ![i].timer = IF @ = "set" THEN "live" ELSE @]
               /\ current' = current
        <3> DEFINE plan == [plans[i] EXCEPT !.arm = "started",
                                           !.timer = IF @ = "set" THEN "live" ELSE @]
        <3>1. plans' = [plans EXCEPT ![i] = plan] /\ plan \in Scheduler!PlanRow
            BY <1>1, <2>1 DEF Scheduler!PlanRow
        <3>2. /\ plan.arm = "started" /\ plan.accepted = plans[i].accepted
              /\ plans[i].timer = "set" => plan.timer = "live"
            BY <1>1 DEF Scheduler!PlanRow
        <3> HIDE DEF plan
        <3>3. plans[i].arm = "made" /\ closed' = closed
            BY <1>5 DEF Scheduler!ArmStart
        <3>4. QED
            BY <1>2, <2>1, <3>1, <3>2, <3>3, OnePlan
    <2>2. CASE plans' = [plans EXCEPT ![i] =
                           [Scheduler!TimerCancelled(plans[i]) EXCEPT !.arm = "over"]]
               /\ current' = IF current = i THEN 0 ELSE current
        <3> DEFINE plan == [Scheduler!TimerCancelled(plans[i]) EXCEPT !.arm = "over"]
        <3>1. plan \in Scheduler!PlanRow /\ plan.arm = "over"
            BY <1>1, TimerCancelledType DEF Scheduler!PlanRow
        <3> HIDE DEF plan
        <3>2. plans' = [plans EXCEPT ![i] = plan] /\ closed' = closed
            BY <1>5, <2>2 DEF Scheduler!ArmStart, plan
        <3>3. current' \in {0, current} /\ current' # i
            BY <1>3, <2>2
        <3>4. QED
            BY <3>1, <3>2, <3>3, OnePlan
    <2>3. QED
        BY <1>5, <2>1, <2>2 DEF Scheduler!ArmStart
<1>6. CASE Scheduler!ArmAccept(i)
    <2>1. CASE current = i
        <3> DEFINE plan == [plans[i] EXCEPT !.accepted = TRUE,
                                           !.arm = IF plans[i].early THEN "fire" ELSE "over"]
        <3>1. plan \in Scheduler!PlanRow /\ plan.accepted
            BY <1>1 DEF Scheduler!PlanRow
        <3>2. plan.timer = plans[i].timer
              /\ plan.arm = IF plans[i].early THEN "fire" ELSE "over"
            BY <1>1 DEF Scheduler!PlanRow
        <3> HIDE DEF plan
        <3>3. plans' = [plans EXCEPT ![i] = plan] /\ closed' = closed /\ current' = current
              /\ plans[i].arm = "started"
            BY <1>6, <2>1 DEF Scheduler!ArmAccept, plan
        <3>4. QED
            BY <1>2, <2>1, <3>1, <3>2, <3>3, OnePlan
    <2>2. CASE current # i
        <3> DEFINE plan == [Scheduler!TimerCancelled(plans[i]) EXCEPT !.arm = "over"]
        <3>1. plan \in Scheduler!PlanRow /\ plan.arm = "over"
            BY <1>1, TimerCancelledType DEF Scheduler!PlanRow
        <3> HIDE DEF plan
        <3>2. plans' = [plans EXCEPT ![i] = plan] /\ closed' = closed /\ current' = current
            BY <1>6, <2>2 DEF Scheduler!ArmAccept, plan
        <3>3. QED
            BY <2>2, <3>1, <3>2, OnePlan
    <2>3. QED
        BY <2>1, <2>2
<1>7. CASE Scheduler!Fire(i) \/ Scheduler!ArmFire(i)
    <2> DEFINE fired == Scheduler!Fired(i, plans[i])
    <2>1. /\ fired \in Scheduler!PlanRow
          /\ fired.arm = plans[i].arm /\ fired.accepted = plans[i].accepted
          /\ fired.timer = plans[i].timer
          /\ current = i /\ ~plans[i].accepted => fired.early
        BY <1>1 DEF Scheduler!Fired, Scheduler!PlanRow
    <2>2. CASE Scheduler!Fire(i)
        <3> DEFINE plan == [fired EXCEPT !.timer = "fired"]
        <3>1. /\ plan \in Scheduler!PlanRow
              /\ plan.arm = fired.arm /\ plan.accepted = fired.accepted
              /\ plan.early = fired.early
            BY <2>1 DEF Scheduler!PlanRow
        <3> HIDE DEF plan, fired
        <3>2. /\ plans' = [plans EXCEPT ![i] = plan] /\ closed' = closed
              /\ current' = IF Scheduler!Claimed(i) THEN 0 ELSE current
              /\ plans[i].timer = "live"
            BY <2>2 DEF Scheduler!Fire, plan, fired
        <3>3. current' \in {0, current} /\ (current' = i => ~plans[i].accepted)
            BY <1>3, <3>2 DEF Scheduler!Claimed
        <3>4. QED
            BY <1>2, <1>3, <2>1, <3>1, <3>2, <3>3, OnePlan
    <2>3. CASE Scheduler!ArmFire(i)
        <3> DEFINE plan == [fired EXCEPT !.arm = "over"]
        <3>1. plan \in Scheduler!PlanRow /\ plan.arm = "over"
            BY <2>1 DEF Scheduler!PlanRow
        <3> HIDE DEF plan, fired
        <3>2. /\ plans' = [plans EXCEPT ![i] = plan] /\ closed' = closed
              /\ current' = IF Scheduler!Claimed(i) THEN 0 ELSE current
              /\ plans[i].arm = "fire"
            BY <2>3 DEF Scheduler!ArmFire, plan, fired
        <3>3. current' \in {0, current} /\ current' # i
            BY <1>2, <1>3, <3>2 DEF Scheduler!Claimed
        <3>4. QED
            BY <3>1, <3>2, <3>3, OnePlan
    <2>4. QED
        BY <1>7, <2>2, <2>3
<1>8. QED
    BY <1>4, <1>5, <1>6, <1>7

\* Whatever a thread does with the scheduler, its plans stay in order.
LEMMA PlansStep ==
    ASSUME ProcessAssumption, PlansInv, PlansMove
    PROVE  PlansInv'
<1>1. CASE UNCHANGED resumes
    BY <1>1 DEF resumes, PlansInv, ArmInv, Scheduler!SchedulerTypeOK
<1>2. CASE \E i \in 0 .. MaxPlans : Scheduler!Drop(i)
    BY <1>2, DropKeeps
<1>3. ASSUME NEW i \in 0 .. MaxPlans, Scheduler!ArmBegin(i)
      PROVE  PlansInv'
    <2>1. CASE i = 0
        <3>1. plans' = plans /\ current' = current /\ closed' = closed
            BY <1>3, <2>1 DEF Scheduler!ArmBegin, PlansInv, Scheduler!SchedulerTypeOK,
                              Scheduler!Plan
        <3>2. QED
            BY <3>1 DEF PlansInv, ArmInv, Scheduler!SchedulerTypeOK
    <2>2. CASE i # 0
        <3> DEFINE plan == [plans[i] EXCEPT !.arm = "starting"]
        <3>1. i \in Plans /\ plans[i] \in Scheduler!PlanRow
            BY <2>2 DEF PlansInv, Scheduler!SchedulerTypeOK, Scheduler!Plan, Plans
        <3>2. plan \in Scheduler!PlanRow /\ plan.arm = "starting"
              /\ plan.accepted = plans[i].accepted
            BY <3>1 DEF Scheduler!PlanRow
        <3> HIDE DEF plan
        <3>3. /\ current' = current /\ closed' = closed
              /\ \/ plans' = plans
                 \/ plans[i].arm = "idle" /\ plans' = [plans EXCEPT ![i] = plan]
            BY <1>3 DEF Scheduler!ArmBegin, plan
        <3>4. CASE plans' = plans
            BY <3>3, <3>4 DEF PlansInv, ArmInv, Scheduler!SchedulerTypeOK
        <3>5. CASE plans[i].arm = "idle" /\ plans' = [plans EXCEPT ![i] = plan]
            <4>1. ~plans[i].accepted
                BY <3>1, <3>5 DEF PlansInv, ArmInv
            <4>2. QED
                BY <3>1, <3>2, <3>3, <3>5, <4>1, OnePlan
        <3>6. QED
            BY <3>3, <3>4, <3>5
    <2>3. QED
        BY <2>1, <2>2
<1>4. CASE Scheduler!Shutdown
    <2>1. CASE current = 0
        BY <1>4, <2>1 DEF Scheduler!Shutdown, PlansInv, ArmInv, Plans, Scheduler!SchedulerTypeOK
    <2>2. CASE current # 0
        <3>1. current \in Plans /\ plans[current] \in Scheduler!PlanRow
            BY <2>2 DEF PlansInv, Scheduler!SchedulerTypeOK, Scheduler!Plan, Plans
        <3>2. plans' = [plans EXCEPT ![current] = Scheduler!TimerCancelled(plans[current])]
              /\ current' = 0 /\ closed' = TRUE
            BY <1>4, <2>2 DEF Scheduler!Shutdown
        <3>3. \A j \in Plans :
                /\ plans'[j] \in Scheduler!PlanRow
                /\ plans'[j].arm = plans[j].arm /\ plans'[j].accepted = plans[j].accepted
            BY <3>1, <3>2, TimerCancelledType
               DEF PlansInv, Scheduler!SchedulerTypeOK, Scheduler!Plan, Plans
        <3>4. plans' \in [Plans -> Scheduler!PlanRow]
            BY <3>1, <3>2, TimerCancelledType
               DEF PlansInv, Scheduler!SchedulerTypeOK, Scheduler!Plan, Plans
        <3>5. Scheduler!SchedulerTypeOK'
            BY <3>2, <3>4 DEF PlansInv, Scheduler!SchedulerTypeOK, Scheduler!Plan, Plans, ProcessAssumption
        <3>6. ArmInv'
            BY <3>2, <3>3 DEF PlansInv, ArmInv, Plans
        <3>7. QED
            BY <3>5, <3>6 DEF PlansInv
    <2>3. QED
        BY <2>1, <2>2
<1>5. QED
    BY <1>1, <1>2, <1>3, <1>4, PrepareKeeps, ArmingKeeps DEF PlansMove
-------------------------------------------------------------------------------
(* Launches, acquisitions and the threads behind them *)

\* A launching thread has its ticket until it is accepted or cleaned up, its
\* acquisition is its own, and no run thread exists before it submitted one.
LaunchInv ==
    \A t \in Launcher :
        /\ launch[t].fence <= fence
        /\ launch[t].step \in {"idle", "reserved"} => launch[t].fence = 0
        /\ launch[t].step \in {"acquired", "registered", "abandoning", "releasing"}
             => launch[t].fence # 0
        /\ launch[t].step \in {"reserved", "acquired", "registered", "abandoning", "releasing"}
             => ticket[t] = "preparing"
        /\ launch[t].step \in {"acquired", "registered"} => run[launch[t].fence] = "none"
        /\ \A u \in Launcher :
             launch[t].fence # 0 /\ launch[u].fence = launch[t].fence => u = t

RunInv == \A f \in Fence : f > fence => run[f] = "none"

\* What was given back is not beaten for, and will not be again.
SilentInv ==
    \A f \in Fence : run[f] \in {"revoked", "settled", "validated", "done"} =>
        f \notin active /\ f \notin timer

Beating(f) == f \in active /\ (f \in timer \/ tick[f] \in {"claimed", "checked", "held"})

\* A launch, or the run it started, that still needs the lease.
Needs(t) ==
    \/ launch[t].step \in {"acquired", "registered"}
    \/ ticket[t] = "accepted" /\ run[launch[t].fence] \in {"queued", "running", "decided"}

\* A launch, or the run it started, that will give the lease back.
Behind(t) ==
    \/ launch[t].step # "over"
    \/ ticket[t] = "accepted" /\ run[launch[t].fence] \in {"queued"} \cup Inside

\* A lease this process holds is its latest acquisition's, beaten for as long as
\* somebody needs it, and somebody will give it back.
BeatInv ==
    lease = "ours" =>
        /\ known = fence /\ fence # 0
        /\ \A t \in Launcher : launch[t].fence = fence /\ Needs(t) => renewing /\ Beating(fence)
        /\ \E t \in Launcher : launch[t].fence = fence /\ Behind(t)

ThreadsInv == LaunchInv /\ RunInv /\ RefusedNeverRuns /\ SilentInv /\ BeatInv

\* Everything but the scheduler keeps its type.
RestOK ==
    /\ Admission!AdmissionTypeOK /\ Heartbeat!HeartbeatTypeOK
    /\ launch \in [Launcher -> LaunchRow]
    /\ run \in [Fence -> RunStep]
    /\ handoff \in [Fence -> 0 .. MaxPlans]
    /\ fence \in 0 .. MaxFence /\ lease \in {"free", "ours", "theirs"}
    /\ line \in Line
    /\ known \in 0 .. MaxFence /\ renewing \in BOOLEAN
    /\ registry \in 0 .. MaxFence /\ fenced \in BOOLEAN /\ halted \in BOOLEAN
    /\ scan \in {"todo", "prepared", "over"}
    /\ exit \in ExitStep

\* A launching thread moves: nobody else's row or ticket does.
LEMMA LaunchMoves ==
    ASSUME RestOK, NEW t \in Launcher, LaunchThread(t)
    PROVE  /\ \A u \in Launcher : u # t => launch'[u] = launch[u] /\ ticket'[u] = ticket[u]
           /\ ~AcquireLaunch(t) => launch'[t].fence = launch[t].fence /\ fence' = fence
           /\ ~AbandonLaunch(t) /\ ~AcquireLaunch(t) => UNCHANGED <<active, timer, known, renewing>>
           /\ UNCHANGED tick
<1>1. CASE ReserveLaunch(t)
    BY <1>1 DEF ReserveLaunch, LaunchGoes, Admission!Reserve, gate, beats, tables, memory,
                RestOK, LaunchRow, Admission!AdmissionTypeOK
<1>2. CASE AcquireLaunch(t)
    BY <1>2 DEF AcquireLaunch, LaunchGoes, Admission!Retire, gate, beats, tables, memory,
                RestOK, LaunchRow, Admission!AdmissionTypeOK, Heartbeat!Succeed
<1>3. CASE RegisterLaunch(t)
    BY <1>3 DEF RegisterLaunch, LaunchGoes, gate, beats, RestOK, LaunchRow
<1>4. CASE SubmitLaunch(t)
    BY <1>4 DEF SubmitLaunch, LaunchGoes, Admission!Accept, gate, beats, tables, memory,
                RestOK, LaunchRow, Admission!AdmissionTypeOK
<1>5. CASE AbandonLaunch(t)
    BY <1>5 DEF AbandonLaunch, LaunchGoes, gate, RestOK, LaunchRow, Heartbeat!Stop
<1>6. CASE ReleaseLaunch(t)
    BY <1>6 DEF ReleaseLaunch, LaunchGoes, Admission!Retire, gate, beats, memory,
                RestOK, LaunchRow, Admission!AdmissionTypeOK
<1>7. QED
    BY <1>1, <1>2, <1>3, <1>4, <1>5, <1>6 DEF LaunchThread

\* The frame of the invariant for everything but launches and acquisitions.
LEMMA ThreadsFrame ==
    ASSUME ThreadsInv, UNCHANGED <<launch, ticket, fence, known>>,
           lease' = "ours" => lease = "ours",
           \A f \in Fence :
             /\ run'[f] = "none" <=> run[f] = "none"
             /\ run'[f] \in Inside =>
                  run[f] \in Inside \/ (run[f] = "queued" /\ AcceptedRun(f))
             /\ run'[f] \in {"revoked", "settled", "validated", "done"} =>
                  f \notin active' /\ f \notin timer',
           fence \in Fence /\ lease' = "ours" =>
             /\ run'[fence] \in {"queued", "running", "decided"} =>
                  run[fence] \in {"queued", "running", "decided"}
             /\ run[fence] \in {"queued"} \cup Inside =>
                  run'[fence] \in {"queued"} \cup Inside \/ (run[fence] = "queued" /\ ~AcceptedRun(fence))
             /\ (run'[fence] \in {"none", "queued", "running", "decided"}
                   /\ renewing /\ Beating(fence)
                   /\ \E t \in Launcher : launch[t].fence = fence /\ Needs(t)')
                 => renewing' /\ Beating(fence)',
           RestOK
    PROVE  ThreadsInv'
<1>1. LaunchInv' /\ RunInv'
    BY DEF ThreadsInv, LaunchInv, RunInv, RestOK, LaunchRow, Fence
<1>2. RefusedNeverRuns'
    <2>1. SUFFICES ASSUME NEW t \in Launcher, NEW f \in Fence, launch[t].fence = f,
                          run'[f] \in Inside
                   PROVE  ticket[t] = "accepted"
        BY DEF RefusedNeverRuns
    <2>2. CASE run[f] \in Inside
        BY <2>1, <2>2 DEF ThreadsInv, RefusedNeverRuns
    <2>3. CASE AcceptedRun(f)
        <3>1. PICK u \in Launcher : launch[u].fence = f /\ ticket[u] = "accepted"
            BY <2>3 DEF AcceptedRun
        <3>2. QED
            BY <2>1, <3>1 DEF ThreadsInv, LaunchInv, Fence
    <2>4. QED
        BY <2>1, <2>2, <2>3
<1>3. SilentInv'
    BY DEF SilentInv
<1>4. BeatInv'
    <2>1. SUFFICES ASSUME lease' = "ours"
                   PROVE  /\ \A t \in Launcher : launch[t].fence = fence /\ Needs(t)'
                               => renewing' /\ Beating(fence)'
                          /\ \E t \in Launcher : launch[t].fence = fence /\ Behind(t)'
                          /\ known = fence /\ fence # 0
        BY DEF BeatInv
    <2>2. lease = "ours" /\ known = fence /\ fence # 0 /\ fence \in Fence
        BY <2>1 DEF ThreadsInv, BeatInv, RestOK, Fence
    <2>3. ASSUME NEW t \in Launcher, launch[t].fence = fence, Needs(t)'
          PROVE  renewing' /\ Beating(fence)'
        <3>1. Needs(t)
            BY <2>1, <2>2, <2>3 DEF Needs
        <3>2. renewing /\ Beating(fence)
            BY <2>2, <2>3, <3>1 DEF ThreadsInv, BeatInv
        <3>3. run'[fence] \in {"none", "queued", "running", "decided"}
            <4>1. CASE launch[t].step \in {"acquired", "registered"}
                BY <2>2, <2>3, <4>1 DEF ThreadsInv, LaunchInv
            <4>2. CASE launch[t].step \notin {"acquired", "registered"}
                BY <2>3, <4>2 DEF Needs
            <4>3. QED
                BY <4>1, <4>2
        <3>4. QED
            BY <2>1, <2>2, <2>3, <3>2, <3>3
    <2>4. \E t \in Launcher : launch[t].fence = fence /\ Behind(t)'
        <3>1. PICK t \in Launcher : launch[t].fence = fence /\ Behind(t)
            BY <2>2 DEF ThreadsInv, BeatInv
        <3>2. CASE launch[t].step # "over"
            BY <3>1, <3>2 DEF Behind
        <3>3. CASE launch[t].step = "over"
            <4>1. ticket[t] = "accepted" /\ run[fence] \in {"queued"} \cup Inside
                BY <3>1, <3>3 DEF Behind
            <4>2. AcceptedRun(fence)
                BY <3>1, <4>1 DEF AcceptedRun
            <4>3. QED
                BY <2>1, <2>2, <3>1, <4>1, <4>2 DEF Behind
        <3>4. QED
            BY <3>2, <3>3
    <2>5. QED
        BY <2>2, <2>3, <2>4
<1>5. QED
    BY <1>1, <1>2, <1>3, <1>4 DEF ThreadsInv

\* The frame for a launching thread that moves on with what it acquired.
LEMMA LaunchFrame ==
    ASSUME RestOK, ThreadsInv, NEW t \in Launcher, UNCHANGED <<fence, known>>,
           lease' = "ours" => lease = "ours",
           \A u \in Launcher : u # t => launch'[u] = launch[u] /\ ticket'[u] = ticket[u],
           launch'[t].fence = launch[t].fence,
           launch'[t].step \in {"idle", "reserved"} => launch[t].step \in {"idle", "reserved"},
           launch'[t].step \in {"acquired", "registered", "abandoning", "releasing"} =>
             launch[t].step \in {"acquired", "registered", "abandoning", "releasing"},
           launch'[t].step \in {"reserved", "acquired", "registered", "abandoning", "releasing"} =>
             ticket'[t] = "preparing",
           launch'[t].step \in {"acquired", "registered"} =>
             launch[t].step \in {"acquired", "registered"} /\ run' = run,
           ticket[t] = "accepted" => ticket'[t] = "accepted",
           \/ run' = run
           \/ /\ launch[t].step = "registered"
              /\ run' = [run EXCEPT ![launch[t].fence] = "queued"],
           \/ UNCHANGED <<active, timer, tick, renewing>>
           \/ /\ active' = active \ {launch[t].fence} /\ timer' = timer \ {launch[t].fence}
              /\ tick' = tick /\ renewing' = (renewing /\ known # launch[t].fence)
              /\ launch[t].fence # 0
              /\ launch'[t].step \notin {"acquired", "registered"} /\ ticket'[t] # "accepted",
           launch[t].fence = fence /\ lease' = "ours" =>
             /\ Behind(t) => Behind(t)'
             /\ Needs(t)' => Needs(t)
    PROVE  ThreadsInv'
<1>1. \A u \in Launcher : launch'[u].fence = launch[u].fence
    OBVIOUS
<1>2. ASSUME launch[t].step = "registered", run' = [run EXCEPT ![launch[t].fence] = "queued"]
      PROVE  /\ launch[t].fence \in Fence
             /\ \A f \in Fence : run'[f] = IF f = launch[t].fence THEN "queued" ELSE run[f]
    BY <1>2 DEF ThreadsInv, LaunchInv, RestOK, LaunchRow, Fence
<1>3. \A f \in Fence : run'[f] = run[f]
        \/ (f = launch[t].fence /\ run'[f] = "queued" /\ launch[t].step = "registered")
    BY <1>2
<1>4. \A u \in Launcher : u # t /\ launch[u].fence # 0 => launch[u].fence # launch[t].fence
    BY DEF ThreadsInv, LaunchInv
<1>5. \A u \in Launcher : launch[u].fence \in 0 .. MaxFence
    BY DEF RestOK, LaunchRow
<1>6. \A u \in Launcher : u # t /\ launch[u].fence # 0 =>
        run'[launch[u].fence] = run[launch[u].fence]
    BY <1>3, <1>4, <1>5 DEF Fence
<1>7. LaunchInv'
    <2>1. SUFFICES ASSUME NEW u \in Launcher
                   PROVE  /\ launch'[u].fence <= fence
                          /\ launch'[u].step \in {"idle", "reserved"} => launch'[u].fence = 0
                          /\ launch'[u].step \in {"acquired", "registered", "abandoning", "releasing"}
                               => launch'[u].fence # 0
                          /\ launch'[u].step \in {"reserved", "acquired", "registered", "abandoning", "releasing"}
                               => ticket'[u] = "preparing"
                          /\ launch'[u].step \in {"acquired", "registered"}
                               => run'[launch'[u].fence] = "none"
                          /\ \A v \in Launcher : launch'[u].fence # 0
                               /\ launch'[v].fence = launch'[u].fence => v = u
        BY DEF LaunchInv
    <2>2. CASE u = t
        BY <1>1, <2>1, <2>2 DEF ThreadsInv, LaunchInv
    <2>3. CASE u # t
        BY <1>1, <1>6, <2>1, <2>3 DEF ThreadsInv, LaunchInv
    <2>4. QED
        BY <2>2, <2>3
<1>8. RunInv'
    BY <1>3, <1>5 DEF ThreadsInv, LaunchInv, RunInv, Fence, RestOK
<1>9. RefusedNeverRuns'
    BY <1>1, <1>3 DEF ThreadsInv, RefusedNeverRuns, Inside
<1>10. SilentInv'
    BY <1>3 DEF ThreadsInv, SilentInv
<1>11. BeatInv'
    <2>1. SUFFICES ASSUME lease' = "ours"
                   PROVE  /\ known = fence /\ fence # 0
                          /\ \A u \in Launcher : launch'[u].fence = fence /\ Needs(u)'
                               => renewing' /\ Beating(fence)'
                          /\ \E u \in Launcher : launch'[u].fence = fence /\ Behind(u)'
        BY DEF BeatInv
    <2>2. lease = "ours" /\ known = fence /\ fence # 0 /\ fence \in Fence
        BY <2>1 DEF ThreadsInv, BeatInv, RestOK, Fence
    <2>3. \A u \in Launcher : u # t /\ launch[u].fence = fence =>
            (Needs(u)' <=> Needs(u)) /\ (Behind(u)' <=> Behind(u))
        BY <1>6, <2>2 DEF Needs, Behind
    <2>4. ASSUME NEW u \in Launcher, launch'[u].fence = fence, Needs(u)'
          PROVE  renewing' /\ Beating(fence)'
        <3>1. Needs(u) /\ launch[u].fence = fence
            BY <1>1, <2>1, <2>3, <2>4
        <3>2. renewing /\ Beating(fence)
            BY <2>2, <3>1 DEF ThreadsInv, BeatInv
        <3>3. CASE UNCHANGED <<active, timer, tick, renewing>>
            BY <3>2, <3>3 DEF Beating
        <3>4. CASE ~UNCHANGED <<active, timer, tick, renewing>>
            <4>1. u # t
                BY <2>4, <3>4 DEF Needs
            <4>2. launch[t].fence # fence
                BY <1>4, <2>2, <3>1, <4>1
            <4>3. QED
                BY <2>2, <3>2, <3>4, <4>2 DEF Beating
        <3>5. QED
            BY <3>3, <3>4
    <2>5. \E u \in Launcher : launch'[u].fence = fence /\ Behind(u)'
        <3>1. PICK u \in Launcher : launch[u].fence = fence /\ Behind(u)
            BY <2>2 DEF ThreadsInv, BeatInv
        <3>2. Behind(u)'
            BY <2>1, <2>3, <3>1
        <3>3. QED
            BY <1>1, <3>1, <3>2
    <2>6. QED
        BY <2>2, <2>4, <2>5
<1>12. QED
    BY <1>7, <1>8, <1>9, <1>10, <1>11 DEF ThreadsInv

\* A new acquisition is nobody else's, and its beat starts with it.
LEMMA AcquireKeeps ==
    ASSUME ProcessAssumption, RestOK, ThreadsInv, NEW t \in Launcher, launch[t].step = "reserved",
           fence < MaxFence,
           fence' = fence + 1, known' = fence', renewing' = TRUE,
           Heartbeat!Succeed(known, fence'),
           launch'[t].step = "acquired", launch'[t].fence = fence',
           \A u \in Launcher : u # t => launch'[u] = launch[u],
           UNCHANGED <<ticket, run>>
    PROVE  ThreadsInv'
<1> DEFINE new == fence + 1
<1>1. /\ new \in Fence /\ fence \in Nat /\ new \in Nat /\ new # 0
      /\ fence' = new /\ known' = new
    BY DEF RestOK, Fence, ProcessAssumption, Heartbeat!Succeed
<1>2. launch'[t].step = "acquired" /\ launch'[t].fence = new /\ launch[t].fence = 0
    BY <1>1 DEF ThreadsInv, LaunchInv
<1>3. \A u \in Launcher : u # t => launch'[u] = launch[u]
    OBVIOUS
<1>4. \A u \in Launcher : launch[u].fence <= fence /\ launch[u].fence \in Nat
    BY DEF RestOK, LaunchRow, ThreadsInv, LaunchInv, ProcessAssumption
<1>5. run[new] = "none" /\ run' = run /\ ticket' = ticket
    BY <1>1 DEF ThreadsInv, RunInv
<1>6. new \in active' /\ new \in timer' /\ active' \subseteq active \cup {new}
      /\ timer' \subseteq timer \cup {new}
    BY <1>1 DEF Heartbeat!Succeed
<1>7. ticket[t] = "preparing"
    BY DEF ThreadsInv, LaunchInv
<1> HIDE DEF new
<1>8. LaunchInv'
    <2>1. SUFFICES ASSUME NEW u \in Launcher
                   PROVE  /\ launch'[u].fence <= fence'
                          /\ launch'[u].step \in {"idle", "reserved"} => launch'[u].fence = 0
                          /\ launch'[u].step \in {"acquired", "registered", "abandoning", "releasing"}
                               => launch'[u].fence # 0
                          /\ launch'[u].step \in {"reserved", "acquired", "registered", "abandoning", "releasing"}
                               => ticket'[u] = "preparing"
                          /\ launch'[u].step \in {"acquired", "registered"}
                               => run'[launch'[u].fence] = "none"
                          /\ \A v \in Launcher : launch'[u].fence # 0
                               /\ launch'[v].fence = launch'[u].fence => v = u
        BY DEF LaunchInv
    <2>2. \A v \in Launcher : v # t => launch'[v].fence # new
        BY <1>1, <1>3, <1>4 DEF new
    <2>3. CASE u = t
        BY <1>1, <1>2, <1>5, <1>7, <2>2, <2>3
    <2>4. CASE u # t
        <3>1. launch'[u] = launch[u] /\ launch[u].fence <= fence'
            BY <1>1, <1>3, <1>4, <2>4 DEF new
        <3>2. QED
            BY <1>2, <1>3, <1>5, <2>2, <2>4, <3>1 DEF ThreadsInv, LaunchInv
    <2>5. QED
        BY <2>3, <2>4
<1>9. RunInv'
    BY <1>1, <1>5 DEF ThreadsInv, RunInv, new, Fence
<1>10. RefusedNeverRuns'
    BY <1>2, <1>3, <1>5 DEF ThreadsInv, RefusedNeverRuns, Inside
<1>11. SilentInv'
    BY <1>5, <1>6 DEF ThreadsInv, SilentInv
<1>12. BeatInv'
    <2>1. Beating(fence)'
        BY <1>1, <1>6 DEF Beating
    <2>2. Behind(t)'
        BY <1>2 DEF Behind
    <2>3. QED
        BY <1>1, <1>2, <2>1, <2>2 DEF BeatInv
<1>13. QED
    BY <1>8, <1>9, <1>10, <1>11, <1>12 DEF ThreadsInv

\* A launching thread keeps the invariant at every step.
LEMMA LaunchThreadKeeps ==
    ASSUME ProcessAssumption, RestOK, ThreadsInv, NEW t \in Launcher, LaunchThread(t)
    PROVE  ThreadsInv'
<1>1. launch[t] \in LaunchRow /\ ticket[t] \in Admission!TicketStep
    BY DEF RestOK, Admission!AdmissionTypeOK
<1>2. \A u \in Launcher : u # t => launch'[u] = launch[u] /\ ticket'[u] = ticket[u]
    BY LaunchMoves
<1>3. CASE ReserveLaunch(t)
    <2>1. /\ launch[t].step = "idle" /\ launch'[t].fence = launch[t].fence
          /\ launch'[t].step \in {"over", "reserved"}
          /\ launch'[t].step = "reserved" => ticket'[t] = "preparing"
          /\ ticket[t] = "accepted" => ticket' = ticket
        BY <1>1, <1>3 DEF ReserveLaunch, LaunchGoes, Admission!Reserve, gate, RestOK, LaunchRow,
                          Admission!AdmissionTypeOK
    <2>2. launch[t].fence = 0
        BY <2>1 DEF ThreadsInv, LaunchInv
    <2>3. /\ UNCHANGED <<fence, known, lease, run>>
          /\ UNCHANGED <<active, timer, tick, renewing>>
        BY <1>3 DEF ReserveLaunch, tables, memory, beats
    <2>4. ~(launch[t].fence = fence /\ lease' = "ours")
        BY <2>2, <2>3 DEF ThreadsInv, BeatInv
    <2>5. QED
        BY <1>2, <2>1, <2>3, <2>4, LaunchFrame
<1>4. CASE AcquireLaunch(t)
    <2>1. launch[t].step = "reserved" /\ UNCHANGED run
        BY <1>4 DEF AcquireLaunch
    <2>2. CASE fence' = fence + 1
        <3>1. fence' # fence
            BY <2>2 DEF RestOK
        <3>2. /\ fence < MaxFence
              /\ known' = fence' /\ renewing' = TRUE
              /\ Heartbeat!Succeed(known, fence')
              /\ launch' = [launch EXCEPT ![t].step = "acquired", ![t].fence = fence']
              /\ UNCHANGED gate
            BY <1>4, <3>1 DEF AcquireLaunch
        <3>3. UNCHANGED ticket
            BY <3>2 DEF gate
        <3>4. QED
            <4>1. launch'[t].step = "acquired" /\ launch'[t].fence = fence'
                BY <1>1, <3>2 DEF RestOK, LaunchRow
            <4>2. QED
                BY <1>2, <2>1, <2>2, <3>2, <3>3, <4>1, AcquireKeeps
    <2>3. CASE fence' # fence + 1
        <3>1. /\ UNCHANGED <<fence, lease, known, renewing, active, timer, tick>>
              /\ LaunchGoes(t, "over") /\ Admission!Retire(t)
            BY <1>4, <2>3 DEF AcquireLaunch, beats
        <3>2. /\ launch'[t].step = "over" /\ launch'[t].fence = launch[t].fence
              /\ ticket[t] # "accepted"
            BY <1>1, <3>1 DEF LaunchGoes, Admission!Retire, RestOK, LaunchRow
        <3>3. launch[t].fence = 0
            BY <2>1 DEF ThreadsInv, LaunchInv
        <3>4. ~(launch[t].fence = fence /\ lease' = "ours")
            BY <3>1, <3>3 DEF ThreadsInv, BeatInv
        <3>5. QED
            BY <1>2, <2>1, <3>1, <3>2, <3>4, LaunchFrame
    <2>4. QED
        BY <2>2, <2>3
<1>5. CASE RegisterLaunch(t)
    <2>1. /\ launch[t].step = "acquired" /\ launch'[t].fence = launch[t].fence
          /\ launch'[t].step \in {"registered", "abandoning"}
        BY <1>1, <1>5 DEF RegisterLaunch, LaunchGoes, RestOK, LaunchRow
    <2>2. UNCHANGED <<fence, known, lease, run, ticket, active, timer, tick, renewing>>
        BY <1>5 DEF RegisterLaunch, gate, beats
    <2>3. ticket[t] = "preparing"
        BY <2>1 DEF ThreadsInv, LaunchInv
    <2>4. Behind(t)' /\ (Needs(t)' => Needs(t))
        BY <2>1, <2>2, <2>3 DEF Behind, Needs
    <2>5. QED
        BY <1>2, <2>1, <2>2, <2>3, <2>4, LaunchFrame
<1>6. CASE SubmitLaunch(t)
    <2>1. /\ launch[t].step = "registered" /\ launch'[t].fence = launch[t].fence
          /\ \/ launch'[t].step = "abandoning" /\ ticket' = ticket
                /\ (run' = run \/ run' = [run EXCEPT ![launch[t].fence] = "queued"])
             \/ /\ launch'[t].step = "over" /\ ticket'[t] = "accepted"
                /\ run' = [run EXCEPT ![launch[t].fence] = "queued"]
        BY <1>1, <1>6 DEF SubmitLaunch, LaunchGoes, RunGoes, Admission!Accept, gate, RestOK,
                          LaunchRow, Admission!AdmissionTypeOK
    <2>2. UNCHANGED <<fence, known, lease, active, timer, tick, renewing>>
        BY <1>6 DEF SubmitLaunch, beats, tables, memory
    <2>3. ticket[t] = "preparing" /\ launch[t].fence \in Fence
        BY <1>1, <2>1 DEF ThreadsInv, LaunchInv, LaunchRow, Fence
    <2>4. Needs(t)
        BY <2>1 DEF Needs
    <2>5. Behind(t)'
        BY <2>1, <2>3 DEF Behind, RestOK
    <2>6. QED
        BY <1>2, <2>1, <2>2, <2>3, <2>4, <2>5, LaunchFrame
<1>7. CASE AbandonLaunch(t)
    <2>1. /\ launch[t].step = "abandoning" /\ launch'[t].fence = launch[t].fence
          /\ launch'[t].step = "releasing"
        BY <1>1, <1>7 DEF AbandonLaunch, LaunchGoes, RestOK, LaunchRow
    <2>2. /\ UNCHANGED <<fence, known, lease, run, ticket, tick>>
          /\ active' = active \ {launch[t].fence} /\ timer' = timer \ {launch[t].fence}
          /\ renewing' = (renewing /\ known # launch[t].fence)
        BY <1>7 DEF AbandonLaunch, Heartbeat!Stop, gate
    <2>3. launch[t].fence # 0
        BY <2>1 DEF ThreadsInv, LaunchInv
    <2>4. Behind(t)' /\ (Needs(t)' => Needs(t))
        BY <2>1, <2>2 DEF Behind, Needs
    <2>5. ticket[t] = "preparing"
        BY <2>1 DEF ThreadsInv, LaunchInv
    <2>6. QED
        BY <1>2, <2>1, <2>2, <2>3, <2>4, <2>5, LaunchFrame
<1>8. CASE ReleaseLaunch(t)
    <2>1. /\ launch[t].step = "releasing" /\ launch'[t].fence = launch[t].fence
          /\ launch'[t].step = "over" /\ ticket[t] # "accepted"
        BY <1>1, <1>8 DEF ReleaseLaunch, LaunchGoes, RestOK, LaunchRow, Admission!Retire
    <2>2. /\ UNCHANGED <<fence, known, run, active, timer, tick, renewing>>
          /\ lease' = LeaseDeleted(launch[t].fence)
        BY <1>8 DEF ReleaseLaunch, beats, memory
    <2>3. /\ lease' = "ours" => lease = "ours"
          /\ ~(launch[t].fence = fence /\ lease' = "ours")
        BY <2>2 DEF LeaseDeleted
    <2>4. QED
        BY <1>2, <2>1, <2>2, <2>3, LaunchFrame
<1>9. QED
    BY <1>3, <1>4, <1>5, <1>6, <1>7, <1>8 DEF LaunchThread
-------------------------------------------------------------------------------
(* Types *)

\* What prepare answers is a plan, or none.
LEMMA PreparedIsAPlan ==
    ASSUME ProcessAssumption, PlansInv, NEW f \in Nat, closed \/ Scheduler!CanInstall
    PROVE  Scheduler!Prepared(f) \in 0 .. MaxPlans
<1>1. CASE closed \/ (current # 0 /\ plans[current].fence >= f)
    <2>1. Scheduler!Prepared(f) \in {0, current}
        BY <1>1 DEF Scheduler!Prepared, PlansInv, Scheduler!SchedulerTypeOK,
                    Scheduler!Plan, Scheduler!PlanRow
    <2>2. QED
        BY <2>1 DEF PlansInv, Scheduler!SchedulerTypeOK, ProcessAssumption
<1>2. CASE ~closed /\ ~(current # 0 /\ plans[current].fence >= f)
    <2>1. Scheduler!Prepared(f) = Scheduler!NextPlan
        BY <1>2 DEF Scheduler!Prepared, PlansInv, Scheduler!SchedulerTypeOK,
                    Scheduler!Plan, Scheduler!PlanRow
    <2>2. Scheduler!NextPlan \in Plans
        BY <1>2 DEF Scheduler!NextPlan, Scheduler!CanInstall, Scheduler!Plan, Plans
    <2>3. QED
        BY <2>1, <2>2 DEF Plans
<1>3. QED
    BY <1>1, <1>2

\* A launching thread keeps the types.
LEMMA LaunchThreadTypes ==
    ASSUME ProcessAssumption, RestOK, NEW t \in Launcher, LaunchThread(t)
    PROVE  RestOK'
<1>1. launch[t] \in LaunchRow
    BY DEF RestOK
<1>2. CASE ReserveLaunch(t)
    <2>1. /\ ticket' \in [Launcher -> Admission!TicketStep] /\ closing' \in BOOLEAN
          /\ launch' \in [Launcher -> LaunchRow]
        BY <1>1, <1>2 DEF ReserveLaunch, LaunchGoes, RestOK, LaunchRow, LaunchStep, gate,
             Admission!Reserve, Admission!AdmissionTypeOK, Admission!TicketStep
    <2>2. QED
        BY <1>2, <2>1 DEF ReserveLaunch, RestOK, beats, tables, memory,
             Admission!AdmissionTypeOK, Heartbeat!HeartbeatTypeOK
<1>3. CASE AcquireLaunch(t)
    <2>1. CASE fence < MaxFence /\ lease = "free" /\ (t \in User \/ PauseStands(plans[t].fence))
        <3>1. /\ fence' = fence + 1 /\ lease' = "ours" /\ known' = fence' /\ renewing' = TRUE
              /\ Heartbeat!Succeed(known, fence')
              /\ launch' = [launch EXCEPT ![t].step = "acquired", ![t].fence = fence']
              /\ UNCHANGED gate
            BY <1>3, <2>1 DEF AcquireLaunch
        <3>2. fence' \in Fence /\ fence' \in 0 .. MaxFence
            BY <2>1, <3>1 DEF RestOK, Fence, ProcessAssumption
        <3>3. launch' \in [Launcher -> LaunchRow]
            BY <1>1, <3>1, <3>2 DEF RestOK, LaunchRow, LaunchStep
        <3>4. active' \subseteq Fence /\ timer' \subseteq Fence /\ tick' = tick
            BY <3>1, <3>2 DEF Heartbeat!Succeed, RestOK, Heartbeat!HeartbeatTypeOK
        <3>5. QED
            BY <1>3, <3>1, <3>2, <3>3, <3>4 DEF AcquireLaunch, RestOK, gate,
                 Admission!AdmissionTypeOK, Heartbeat!HeartbeatTypeOK
    <2>2. CASE ~(fence < MaxFence /\ lease = "free" /\ (t \in User \/ PauseStands(plans[t].fence)))
        <3>1. Admission!Retire(t) /\ LaunchGoes(t, "over")
              /\ UNCHANGED <<fence, lease, known, renewing, resumes, beats>>
            BY <1>3, <2>2 DEF AcquireLaunch
        <3>2. ticket' \in [Launcher -> Admission!TicketStep] /\ closing' = closing
            BY <3>1 DEF Admission!Retire, RestOK, Admission!AdmissionTypeOK, Admission!TicketStep
        <3>3. launch' \in [Launcher -> LaunchRow]
            BY <1>1, <3>1 DEF LaunchGoes, RestOK, LaunchRow, LaunchStep
        <3>4. QED
            BY <1>3, <3>1, <3>2, <3>3 DEF AcquireLaunch, RestOK, beats,
                 Admission!AdmissionTypeOK, Heartbeat!HeartbeatTypeOK
    <2>3. QED
        BY <2>1, <2>2
<1>4. CASE RegisterLaunch(t)
    <2>1. line' \in Line /\ fenced' \in BOOLEAN /\ halted' \in BOOLEAN
        BY <1>4 DEF RegisterLaunch, RestOK, Line
    <2>2. launch[t].fence \in 0 .. MaxFence /\ registry' \in {0, registry, launch[t].fence}
        BY <1>1, <1>4 DEF RegisterLaunch, LaunchRow
    <2>3. registry' \in 0 .. MaxFence
        BY <2>2 DEF RestOK, ProcessAssumption
    <2>4. launch' \in [Launcher -> LaunchRow]
        <3>1. CASE LaunchGoes(t, "abandoning")
            BY <1>1, <3>1 DEF LaunchGoes, RestOK, LaunchRow, LaunchStep
        <3>2. CASE launch' = [launch EXCEPT ![t].step = "registered", ![t].prior = line]
            BY <1>1, <3>2 DEF RestOK, LaunchRow, LaunchStep, Line
        <3>3. QED
            BY <1>4, <3>1, <3>2 DEF RegisterLaunch
    <2>5. QED
        BY <1>4, <2>1, <2>3, <2>4 DEF RegisterLaunch, RestOK, gate, beats,
             Admission!AdmissionTypeOK, Heartbeat!HeartbeatTypeOK
<1>5. CASE SubmitLaunch(t)
    <2>1. launch' \in [Launcher -> LaunchRow]
        BY <1>1, <1>5 DEF SubmitLaunch, LaunchGoes, RestOK, LaunchRow, LaunchStep
    <2>2. run' \in [Fence -> RunStep]
        BY <1>5 DEF SubmitLaunch, RunGoes, RestOK, RunStep
    <2>3. ticket' \in [Launcher -> Admission!TicketStep] /\ closing' = closing
        BY <1>5 DEF SubmitLaunch, Admission!Accept, gate, RestOK, Admission!AdmissionTypeOK,
                    Admission!TicketStep
    <2>4. QED
        BY <1>5, <2>1, <2>2, <2>3 DEF SubmitLaunch, RestOK, beats, tables, memory,
             Admission!AdmissionTypeOK, Heartbeat!HeartbeatTypeOK
<1>6. CASE AbandonLaunch(t)
    <2>1. launch' \in [Launcher -> LaunchRow] /\ registry' \in 0 .. MaxFence /\ renewing' \in BOOLEAN
        BY <1>1, <1>6 DEF AbandonLaunch, LaunchGoes, RestOK, LaunchRow, LaunchStep, ProcessAssumption
    <2>2. line' \in Line
        BY <1>1, <1>6 DEF AbandonLaunch, Restored, RestOK, LaunchRow, Line
    <2>3. active' \subseteq Fence /\ timer' \subseteq Fence /\ tick' = tick
        BY <1>6 DEF AbandonLaunch, Heartbeat!Stop, RestOK, Heartbeat!HeartbeatTypeOK
    <2>4. QED
        BY <1>6, <2>1, <2>2, <2>3 DEF AbandonLaunch, RestOK, gate,
             Admission!AdmissionTypeOK, Heartbeat!HeartbeatTypeOK
<1>7. CASE ReleaseLaunch(t)
    <2>1. launch' \in [Launcher -> LaunchRow] /\ lease' \in {"free", "ours", "theirs"}
        BY <1>1, <1>7 DEF ReleaseLaunch, LaunchGoes, LeaseDeleted, RestOK, LaunchRow, LaunchStep
    <2>2. ticket' \in [Launcher -> Admission!TicketStep] /\ closing' = closing
        BY <1>7 DEF ReleaseLaunch, Admission!Retire, RestOK, Admission!AdmissionTypeOK,
                    Admission!TicketStep
    <2>3. QED
        BY <1>7, <2>1, <2>2 DEF ReleaseLaunch, RestOK, beats, memory,
             Admission!AdmissionTypeOK, Heartbeat!HeartbeatTypeOK
<1>8. QED
    BY <1>2, <1>3, <1>4, <1>5, <1>6, <1>7 DEF LaunchThread

\* A run thread and a tick keep the types.
LEMMA RunThreadTypes ==
    ASSUME ProcessAssumption, RestOK, PlansInv, NEW f \in Fence,
           EpilogueThread(f) \/ DecideRun(f) \/ TickThread(f)
    PROVE  RestOK'
<1>1. CASE EnterRun(f)
    BY <1>1 DEF EnterRun, RunGoes, RestOK, RunStep, Inside, gate, beats, tables, memory,
         Admission!AdmissionTypeOK, Heartbeat!HeartbeatTypeOK
<1>2. CASE RevokeRun(f)
    BY <1>2 DEF RevokeRun, RunGoes, Heartbeat!Stop, RestOK, RunStep, Inside, gate, tables,
         Admission!AdmissionTypeOK, Heartbeat!HeartbeatTypeOK
<1>3. CASE ReleaseRun(f)
    BY <1>3 DEF ReleaseRun, RunGoes, LeaseDeleted, RestOK, RunStep, Inside, gate, beats, memory,
         Admission!AdmissionTypeOK, Heartbeat!HeartbeatTypeOK
<1>4. CASE ValidateRun(f)
    <2>1. run' \in [Fence -> RunStep]
        BY <1>4 DEF ValidateRun, RunGoes, RestOK, RunStep
    <2>2. QED
        BY <1>4, <2>1 DEF ValidateRun, RestOK, gate, beats, tables, memory,
             Admission!AdmissionTypeOK, Heartbeat!HeartbeatTypeOK
<1>5. CASE ArmRun(f)
    BY <1>5 DEF ArmRun, RunGoes, RestOK, RunStep, gate, beats, tables, memory,
         Admission!AdmissionTypeOK, Heartbeat!HeartbeatTypeOK
<1>6. CASE DecideRun(f)
    <2>1. run' \in [Fence -> RunStep] /\ line' \in Line
        BY <1>6 DEF DecideRun, RunGoes, RestOK, RunStep, Inside, Line
    <2>2. handoff' = handoff \/ (/\ closed \/ Scheduler!CanInstall
                                 /\ handoff' = [handoff EXCEPT ![f] = Scheduler!Prepared(f)])
        BY <1>6 DEF DecideRun
    <2>3. handoff' \in [Fence -> 0 .. MaxPlans]
        <3>1. f \in Nat
            BY DEF Fence
        <3>2. QED
            BY <2>2, <3>1, PreparedIsAPlan DEF RestOK
    <2>4. QED
        BY <1>6, <2>1, <2>3 DEF DecideRun, RestOK, gate, beats, memory,
             Admission!AdmissionTypeOK, Heartbeat!HeartbeatTypeOK
<1>7. CASE ClaimTick(f)
    BY <1>7 DEF ClaimTick, Heartbeat!Claim, RestOK, gate, tables, memory,
         Admission!AdmissionTypeOK, Heartbeat!HeartbeatTypeOK, Heartbeat!TickStep
<1>8. CASE CheckTick(f)
    BY <1>8 DEF CheckTick, Heartbeat!Checked, RestOK, gate, tables, memory,
         Admission!AdmissionTypeOK, Heartbeat!HeartbeatTypeOK, Heartbeat!TickStep
<1>9. CASE RenewTick(f)
    BY <1>9 DEF RenewTick, Heartbeat!Renewed, RestOK, gate, memory,
         Admission!AdmissionTypeOK, Heartbeat!HeartbeatTypeOK, Heartbeat!TickStep
<1>10. CASE RearmTick(f)
    BY <1>10 DEF RearmTick, Heartbeat!Rearm, RestOK, gate, tables, memory,
         Admission!AdmissionTypeOK, Heartbeat!HeartbeatTypeOK, Heartbeat!TickStep
<1>11. CASE LoseTick(f)
    <2>1. fenced' \in BOOLEAN /\ halted' \in BOOLEAN
        BY <1>11 DEF LoseTick, RestOK
    <2>2. QED
        BY <1>11, <2>1 DEF LoseTick, Heartbeat!Notify, RestOK, gate, tables,
             Admission!AdmissionTypeOK, Heartbeat!HeartbeatTypeOK, Heartbeat!TickStep
<1>12. QED
    BY <1>1, <1>2, <1>3, <1>4, <1>5, <1>6, <1>7, <1>8, <1>9, <1>10, <1>11
       DEF EpilogueThread, TickThread

\* So do the scan, the scheduler's timers, shutdown and other processes.
LEMMA OtherTypes ==
    ASSUME ProcessAssumption, RestOK,
           \/ \E i \in Plans : PlanStep(i)
           \/ ScanPauses \/ ScanArms \/ ExitThread \/ Usurp \/ Yield
    PROVE  RestOK'
<1>1. CASE \/ \E i \in Plans : PlanStep(i)
           \/ ScanPauses \/ ScanArms
    BY <1>1 DEF PlanStep, ScanPauses, ScanArms, RestOK, gate, beats, tables, memory,
         Admission!AdmissionTypeOK, Heartbeat!HeartbeatTypeOK
<1>2. CASE BeginExit
    BY <1>2 DEF BeginExit, Admission!Close, RestOK, ExitStep, beats, tables, memory,
         Admission!AdmissionTypeOK, Heartbeat!HeartbeatTypeOK
<1>3. CASE AwaitLaunches \/ StopPlans \/ AwaitRuns
    BY <1>3 DEF AwaitLaunches, StopPlans, AwaitRuns, RestOK, ExitStep, gate, beats, tables, memory,
         Admission!AdmissionTypeOK, Heartbeat!HeartbeatTypeOK
<1>4. CASE StopEngines
    BY <1>4 DEF StopEngines, RestOK, ExitStep, gate, beats, tables,
         Admission!AdmissionTypeOK, Heartbeat!HeartbeatTypeOK
<1>5. CASE StopBeats
    BY <1>5 DEF StopBeats, Heartbeat!StopAll, LeaseDeleted, RestOK, ExitStep, gate,
         Admission!AdmissionTypeOK, Heartbeat!HeartbeatTypeOK
<1>6. CASE Usurp \/ Yield
    BY <1>6 DEF Usurp, Yield, RestOK, Line, gate, beats, memory, ProcessAssumption,
         Admission!AdmissionTypeOK, Heartbeat!HeartbeatTypeOK
<1>7. QED
    BY <1>1, <1>2, <1>3, <1>4, <1>5, <1>6 DEF ExitThread

\* Every step keeps the types.
LEMMA TypesStep ==
    ASSUME ProcessAssumption, RestOK, PlansInv, Next
    PROVE  RestOK'
BY LaunchThreadTypes, RunThreadTypes, OtherTypes DEF Next, Plans
-------------------------------------------------------------------------------
(* The start-up scan and the shutdown *)

\* Before the start-up scan nothing was launched, so nothing is planned.
ScanInv ==
    scan = "todo" =>
        /\ \A t \in Launcher : launch[t].step = "idle"
        /\ \A f \in Fence : run[f] = "none"
        /\ \A i \in Plans : plans[i] = Scheduler!NoPlan
        /\ current = 0

\* What the closing thread waited for stays: no launch in preparation, and then
\* no run thread.
ExitInv ==
    /\ closing <=> exit # "up"
    /\ exit \notin {"up", "closing"} => \A t \in Launcher : ticket[t] # "preparing"
    /\ exit \in {"drained", "down"} => \A f \in Fence : run[f] \in {"none", "done", "gone"}

ProcessInv == RestOK /\ PlansInv /\ ThreadsInv /\ ScanInv /\ ExitInv

\* No thread uses the scheduler in any other way.
LEMMA NextMovesPlans ==
    ASSUME ProcessAssumption, ProcessInv, Next
    PROVE  PlansMove
<1>1. current \in 0 .. MaxPlans /\ 0 \in 0 .. MaxPlans
    BY DEF ProcessInv, PlansInv, Scheduler!SchedulerTypeOK, ProcessAssumption
<1>2. \A f \in Fence : handoff[f] \in 0 .. MaxPlans /\ f \in Nat
    BY DEF ProcessInv, RestOK, Fence
<1>3. fence \in Nat
    BY DEF ProcessInv, RestOK
<1>4. \A f : Scheduler!Outdated(f) \in {0, current} /\ Scheduler!PlanOf(f) \in {0, current}
    BY DEF Scheduler!Outdated, Scheduler!PlanOf
<1>5. ASSUME NEW t \in Launcher, LaunchThread(t) PROVE PlansMove
    <2>1. UNCHANGED resumes \/ Scheduler!Drop(Scheduler!Outdated(fence'))
        BY <1>5 DEF LaunchThread, ReserveLaunch, AcquireLaunch, RegisterLaunch, SubmitLaunch,
                    AbandonLaunch, ReleaseLaunch
    <2>2. Scheduler!Outdated(fence') \in 0 .. MaxPlans
        BY <1>1, <1>4
    <2>3. QED
        BY <2>1, <2>2 DEF PlansMove
<1>6. ASSUME NEW f \in Fence, EpilogueThread(f) \/ TickThread(f) PROVE PlansMove
    <2>1. \/ UNCHANGED resumes
          \/ Scheduler!Drop(handoff[f]) \/ Scheduler!ArmBegin(handoff[f])
          \/ Scheduler!Drop(Scheduler!PlanOf(f))
        BY <1>6 DEF EpilogueThread, TickThread, EnterRun, RevokeRun, ReleaseRun, ValidateRun,
                    ArmRun, ClaimTick, CheckTick, RenewTick, RearmTick, LoseTick
    <2>2. Scheduler!PlanOf(f) \in 0 .. MaxPlans
        BY <1>1, <1>4
    <2>3. QED
        BY <1>2, <2>1, <2>2 DEF PlansMove
<1>7. ASSUME NEW f \in Fence, DecideRun(f) PROVE PlansMove
    <2>1. UNCHANGED resumes \/ ((closed \/ Scheduler!CanInstall) /\ Scheduler!Prepare(f))
        BY <1>7 DEF DecideRun
    <2>2. QED
        BY <1>2, <2>1 DEF PlansMove
<1>8. CASE \E i \in Plans : PlanStep(i)
    BY <1>8 DEF PlanStep, PlansMove
<1>9. CASE ScanPauses
    <2>1. 1 \in Plans /\ \A i \in Plans : plans[i].fence = 0
        BY <1>9 DEF ScanPauses, ProcessInv, ScanInv, Scheduler!NoPlan, Plans, ProcessAssumption
    <2>2. Scheduler!CanInstall
        BY <2>1 DEF Scheduler!CanInstall, Scheduler!Plan, Plans
    <2>3. UNCHANGED resumes \/ Scheduler!Prepare(fence)
        BY <1>9 DEF ScanPauses
    <2>4. QED
        BY <1>3, <2>2, <2>3 DEF PlansMove
<1>10. CASE ScanArms
    BY <1>1, <1>10 DEF ScanArms, PlansMove
<1>11. CASE ExitThread \/ Usurp \/ Yield
    BY <1>11 DEF ExitThread, BeginExit, AwaitLaunches, StopPlans, StopEngines, AwaitRuns,
                 StopBeats, Usurp, Yield, PlansMove
<1>12. QED
    BY <1>5, <1>6, <1>7, <1>8, <1>9, <1>10, <1>11 DEF Next, Plans

\* Nothing is launched, run or planned before the scan.
LEMMA ScanStep ==
    ASSUME ProcessAssumption, ProcessInv, Next
    PROVE  ScanInv'
<1>1. SUFFICES ASSUME scan' = "todo"
               PROVE  /\ \A t \in Launcher : launch'[t].step = "idle"
                      /\ \A f \in Fence : run'[f] = "none"
                      /\ \A i \in Plans : plans'[i] = Scheduler!NoPlan
                      /\ current' = 0
    BY DEF ScanInv
<1>2. scan = "todo"
    BY <1>1 DEF Next, LaunchThread, EpilogueThread, TickThread, PlanStep, ExitThread,
                ReserveLaunch, AcquireLaunch, RegisterLaunch, SubmitLaunch, AbandonLaunch,
                ReleaseLaunch, EnterRun, RevokeRun, ReleaseRun, ValidateRun, ArmRun, DecideRun,
                ClaimTick, CheckTick, RenewTick, RearmTick, LoseTick, ScanPauses, ScanArms,
                BeginExit, AwaitLaunches, StopPlans, StopEngines, AwaitRuns, StopBeats, Usurp, Yield
<1>3. /\ \A t \in Launcher : launch[t].step = "idle"
      /\ \A f \in Fence : run[f] = "none"
      /\ \A i \in Plans : plans[i] = Scheduler!NoPlan
      /\ current = 0
    BY <1>2 DEF ProcessInv, ScanInv
<1>4. \A i \in Plans : /\ plans[i].arm = "idle" /\ plans[i].timer = "none"
                       /\ ~plans[i].resumed
    BY <1>3 DEF Scheduler!NoPlan
<1>5. ASSUME NEW t \in Launcher, LaunchThread(t) PROVE FALSE
    <2>1. ReserveLaunch(t)
        BY <1>3, <1>5 DEF LaunchThread, AcquireLaunch, RegisterLaunch, SubmitLaunch,
                          AbandonLaunch, ReleaseLaunch
    <2>2. t \in User \/ t \in Plans
        BY DEF Launcher, Plans
    <2>3. QED
        BY <1>2, <1>4, <2>1, <2>2 DEF ReserveLaunch
<1>6. ASSUME NEW f \in Fence, EpilogueThread(f) \/ DecideRun(f) PROVE FALSE
    BY <1>3, <1>6 DEF EpilogueThread, DecideRun, EnterRun, RevokeRun, ReleaseRun, ValidateRun, ArmRun
<1>7. ASSUME NEW f \in Fence, TickThread(f)
      PROVE  UNCHANGED <<launch, run, plans, current>>
    BY <1>3, <1>7 DEF TickThread, ClaimTick, CheckTick, RenewTick, RearmTick, LoseTick, resumes,
                      Scheduler!Drop, Scheduler!PlanOf
<1>8. ASSUME NEW i \in Plans, PlanStep(i) PROVE FALSE
    BY <1>4, <1>8 DEF PlanStep, Scheduler!ArmMake, Scheduler!ArmStart, Scheduler!ArmAccept,
                      Scheduler!Fire, Scheduler!ArmFire
<1>9. ASSUME ScanPauses \/ ScanArms PROVE FALSE
    BY <1>1, <1>2, <1>9 DEF ScanPauses, ScanArms
<1>10. ASSUME ExitThread \/ Usurp \/ Yield
       PROVE  UNCHANGED <<launch, run, plans, current>>
    BY <1>3, <1>10 DEF ExitThread, BeginExit, AwaitLaunches, StopPlans, StopEngines, AwaitRuns,
                       StopBeats, Usurp, Yield, resumes, Scheduler!Shutdown
<1>11. UNCHANGED <<launch, run, plans, current>>
    BY <1>5, <1>6, <1>7, <1>8, <1>9, <1>10 DEF Next, Plans
<1>12. QED
    BY <1>3, <1>11

\* What shutdown waited for does not come back.
LEMMA ExitStepKeeps ==
    ASSUME ProcessAssumption, ProcessInv, Next
    PROVE  ExitInv'
<1>1. /\ closing <=> exit # "up"
      /\ exit \notin {"up", "closing"} => \A t \in Launcher : ticket[t] # "preparing"
      /\ exit \in {"drained", "down"} => \A f \in Fence : run[f] \in {"none", "done", "gone"}
    BY DEF ProcessInv, ExitInv
<1>2. ASSUME NEW t \in Launcher, LaunchThread(t) PROVE ExitInv'
    <2>1. exit' = exit /\ closing' = closing
        BY <1>2 DEF LaunchThread, ReserveLaunch, AcquireLaunch, RegisterLaunch, SubmitLaunch,
                    AbandonLaunch, ReleaseLaunch, gate, Admission!Reserve, Admission!Retire,
                    Admission!Accept
    <2>2. \A u \in Launcher : ticket'[u] = ticket[u] \/ u = t
        BY <1>2, LaunchMoves DEF ProcessInv
    <2>3. closing /\ ticket'[t] = "preparing" => ticket[t] = "preparing"
        BY <1>2 DEF LaunchThread, ReserveLaunch, AcquireLaunch, RegisterLaunch, SubmitLaunch,
                    AbandonLaunch, ReleaseLaunch, gate, Admission!Reserve, Admission!Retire,
                    Admission!Accept, Admission!Open, ProcessInv, RestOK, Admission!AdmissionTypeOK
    <2>4. run' = run \/ ticket[t] = "preparing"
        <3>1. run' = run \/ launch[t].step = "registered"
            BY <1>2 DEF LaunchThread, ReserveLaunch, AcquireLaunch, RegisterLaunch, SubmitLaunch,
                        AbandonLaunch, ReleaseLaunch
        <3>2. QED
            BY <3>1 DEF ProcessInv, ThreadsInv, LaunchInv
    <2>5. QED
        BY <1>1, <2>1, <2>2, <2>3, <2>4 DEF ExitInv
<1>3. ASSUME NEW f \in Fence, EpilogueThread(f) \/ DecideRun(f) PROVE ExitInv'
    <2>1. run[f] \notin {"none", "done", "gone"} /\ UNCHANGED <<gate, exit>>
        BY <1>3 DEF EpilogueThread, DecideRun, EnterRun, RevokeRun, ReleaseRun, ValidateRun, ArmRun
    <2>2. QED
        BY <1>1, <2>1 DEF ExitInv, gate
<1>4. ASSUME NEW f \in Fence, TickThread(f) PROVE ExitInv'
    <2>1. UNCHANGED <<gate, run, exit>>
        BY <1>4 DEF TickThread, ClaimTick, CheckTick, RenewTick, RearmTick, LoseTick
    <2>2. QED
        BY <1>1, <2>1 DEF ExitInv, gate
<1>5. CASE (\E i \in Plans : PlanStep(i)) \/ ScanPauses \/ ScanArms \/ Usurp \/ Yield
    <2>1. UNCHANGED <<gate, run, exit>>
        BY <1>5 DEF PlanStep, ScanPauses, ScanArms, Usurp, Yield
    <2>2. QED
        BY <1>1, <2>1 DEF ExitInv, gate
<1>6. CASE BeginExit
    BY <1>1, <1>6 DEF BeginExit, Admission!Close, ExitInv
<1>7. CASE AwaitLaunches
    BY <1>1, <1>7 DEF AwaitLaunches, Admission!Drained, Admission!Preparing, ExitInv, gate
<1>8. CASE StopPlans \/ StopEngines
    BY <1>1, <1>8 DEF StopPlans, StopEngines, ExitInv, gate
<1>9. CASE AwaitRuns
    BY <1>1, <1>9 DEF AwaitRuns, ExitInv, gate
<1>10. CASE StopBeats
    BY <1>1, <1>10 DEF StopBeats, ExitInv, gate
<1>11. QED
    BY <1>2, <1>3, <1>4, <1>5, <1>6, <1>7, <1>8, <1>9, <1>10 DEF Next, Plans, ExitThread
-------------------------------------------------------------------------------
(* Run threads, ticks, shutdown and other processes *)

\* The frame for a step that changes neither launches nor acquisitions nor run
\* threads: a tick may only hand its key on.
LEMMA QuietFrame ==
    ASSUME RestOK, ThreadsInv, UNCHANGED <<launch, ticket, run, fence, known, renewing>>,
           lease' = "ours" => lease = "ours",
           active' = active,
           \A f \in timer' : f \in timer \/ f \in active,
           fence \in Fence /\ lease' = "ours" /\ renewing /\ known = fence /\ Beating(fence)
             => Beating(fence)'
    PROVE  ThreadsInv'
<1>1. \A f \in Fence :
        /\ run'[f] = "none" <=> run[f] = "none"
        /\ run'[f] \in Inside => run[f] \in Inside
        /\ run'[f] \in {"revoked", "settled", "validated", "done"} =>
             f \notin active' /\ f \notin timer'
    BY DEF ThreadsInv, SilentInv
<1>2. fence \in Fence /\ lease' = "ours" => lease = "ours" /\ known = fence
    BY DEF ThreadsInv, BeatInv
<1>3. QED
    BY <1>1, <1>2, ThreadsFrame

\* A tick hands its key on, or ends because the lease is lost or given back.
LEMMA TickKeeps ==
    ASSUME ProcessAssumption, RestOK, ThreadsInv, NEW f \in Fence, TickThread(f)
    PROVE  ThreadsInv'
<1>1. UNCHANGED <<launch, ticket, run, fence, known, renewing, active>>
    BY DEF TickThread, ClaimTick, CheckTick, RenewTick, RearmTick, LoseTick, gate, tables, memory,
           Heartbeat!Claim, Heartbeat!Checked, Heartbeat!Renewed, Heartbeat!Rearm, Heartbeat!Notify
<1>2. lease' = "ours" => lease = "ours"
    BY DEF TickThread, ClaimTick, CheckTick, RenewTick, RearmTick, LoseTick, tables, CanTouch
<1>3. \A g \in timer' : g \in timer \/ g \in active
    BY DEF TickThread, ClaimTick, CheckTick, RenewTick, RearmTick, LoseTick,
           Heartbeat!Claim, Heartbeat!Checked, Heartbeat!Renewed, Heartbeat!Rearm, Heartbeat!Notify
<1>4. ASSUME fence \in Fence, lease' = "ours", renewing, known = fence, Beating(fence)
      PROVE  Beating(fence)'
    <2>1. \A g \in Fence : g # f => tick'[g] = tick[g] /\ (g \in timer' <=> g \in timer)
        BY DEF TickThread, ClaimTick, CheckTick, RenewTick, RearmTick, LoseTick,
               Heartbeat!Claim, Heartbeat!Checked, Heartbeat!Renewed, Heartbeat!Rearm,
               Heartbeat!Notify, RestOK, Heartbeat!HeartbeatTypeOK
    <2>2. CASE f # fence
        BY <1>1, <1>4, <2>1, <2>2 DEF Beating
    <2>3. CASE f = fence
        <3>1. CASE ClaimTick(f)
            BY <1>1, <1>4, <2>3, <3>1 DEF ClaimTick, Heartbeat!Claim, Beating, RestOK,
                 Heartbeat!HeartbeatTypeOK
        <3>2. CASE CheckTick(f)
            BY <1>1, <1>4, <2>3, <3>2 DEF CheckTick, Heartbeat!Checked, Beating, RestOK,
                 Heartbeat!HeartbeatTypeOK
        <3>3. CASE RenewTick(f)
            BY <1>1, <1>2, <1>4, <2>3, <3>3 DEF RenewTick, Heartbeat!Renewed, CanTouch, Beating,
                 RestOK, Heartbeat!HeartbeatTypeOK
        <3>4. CASE RearmTick(f)
            BY <1>1, <1>4, <2>3, <3>4 DEF RearmTick, Heartbeat!Rearm, Beating, RestOK,
                 Heartbeat!HeartbeatTypeOK
        <3>5. CASE LoseTick(f)
            BY <1>1, <1>4, <2>3, <3>5 DEF LoseTick, Heartbeat!Notify, Beating, RestOK,
                 Heartbeat!HeartbeatTypeOK
        <3>6. QED
            BY <3>1, <3>2, <3>3, <3>4, <3>5 DEF TickThread
    <2>4. QED
        BY <2>2, <2>3
<1>5. QED
    BY <1>1, <1>2, <1>3, <1>4, QuietFrame

\* A run thread is beaten for until it revokes its beat itself.
LEMMA EpilogueKeeps ==
    ASSUME ProcessAssumption, RestOK, ThreadsInv, NEW f \in Fence, EpilogueThread(f) \/ DecideRun(f)
    PROVE  ThreadsInv'
<1>1. UNCHANGED <<launch, ticket, fence, known>>
    BY DEF EpilogueThread, DecideRun, EnterRun, RevokeRun, ReleaseRun, ValidateRun, ArmRun,
           gate, tables, memory
<1>2. lease' = "ours" => lease = "ours"
    BY DEF EpilogueThread, DecideRun, EnterRun, RevokeRun, ReleaseRun, ValidateRun, ArmRun,
           tables, LeaseDeleted
<1>3. PICK step \in RunStep : run' = [run EXCEPT ![f] = step]
    BY DEF EpilogueThread, DecideRun, EnterRun, RevokeRun, ReleaseRun, ValidateRun, ArmRun,
           RunGoes, RunStep, Inside
<1>4. run'[f] = step /\ \A g \in Fence : g # f => run'[g] = run[g]
    BY <1>3 DEF RestOK
<1>5. lease = "ours" /\ run[f] \in {"queued", "running", "decided"} /\ fence = f => known = f
    BY DEF ThreadsInv, BeatInv
<1>6. CASE EnterRun(f)
    <2>1. /\ run[f] = "queued" /\ step = IF AcceptedRun(f) THEN "running" ELSE "gone"
          /\ UNCHANGED <<active, timer, tick, renewing>>
        BY <1>4, <1>6 DEF EnterRun, RunGoes, RestOK, beats, memory
    <2>2. Beating(fence) => Beating(fence)'
        BY <1>1, <2>1 DEF Beating
    <2>3. QED
        BY <1>1, <1>2, <1>4, <2>1, <2>2, ThreadsFrame DEF ThreadsInv, SilentInv, Inside
<1>7. CASE DecideRun(f)
    <2>1. /\ run[f] = "running" /\ step = "decided"
          /\ UNCHANGED <<active, timer, tick, renewing>>
        BY <1>4, <1>7 DEF DecideRun, RunGoes, RestOK, beats, memory
    <2>2. Beating(fence) => Beating(fence)'
        BY <1>1, <2>1 DEF Beating
    <2>3. QED
        BY <1>1, <1>2, <1>4, <2>1, <2>2, ThreadsFrame DEF ThreadsInv, SilentInv, Inside
<1>8. CASE RevokeRun(f)
    <2>1. /\ run[f] = "decided" /\ step = IF known = f THEN "revoked" ELSE "settled"
          /\ active' = active \ {f} /\ timer' = timer \ {f} /\ tick' = tick
          /\ renewing' = (renewing /\ known # f)
        BY <1>4, <1>8 DEF RevokeRun, Heartbeat!Stop, RunGoes, RestOK
    <2>2. fence # f /\ renewing /\ Beating(fence) /\ lease = "ours" => renewing' /\ Beating(fence)'
        BY <1>1, <2>1 DEF Beating, ThreadsInv, BeatInv
    <2>3. fence = f => run'[fence] \notin {"none", "queued", "running", "decided"}
        BY <1>4, <2>1
    <2>4. \A g \in Fence : run'[g] \in {"revoked", "settled", "validated", "done"} =>
            g \notin active' /\ g \notin timer'
        BY <1>4, <2>1 DEF ThreadsInv, SilentInv
    <2>5. QED
        BY <1>1, <1>2, <1>4, <1>5, <2>1, <2>2, <2>3, <2>4, ThreadsFrame DEF Inside
<1>9. CASE ReleaseRun(f)
    <2>1. /\ run[f] = "revoked" /\ step = "settled"
          /\ UNCHANGED <<active, timer, tick, renewing>>
          /\ lease' = LeaseDeleted(f)
        BY <1>4, <1>9 DEF ReleaseRun, RunGoes, RestOK, beats, memory
    <2>2. Beating(fence) => Beating(fence)'
        BY <1>1, <2>1 DEF Beating
    <2>3. fence = f => lease' # "ours"
        BY <2>1 DEF LeaseDeleted
    <2>4. QED
        BY <1>1, <1>2, <1>4, <2>1, <2>2, <2>3, ThreadsFrame DEF ThreadsInv, SilentInv, Inside
<1>10. CASE ValidateRun(f) \/ ArmRun(f)
    <2>1. /\ run[f] \in {"settled", "validated"} /\ step \in {"validated", "done"}
          /\ UNCHANGED <<active, timer, tick, renewing>>
        BY <1>4, <1>10 DEF ValidateRun, ArmRun, RunGoes, RestOK, beats, memory
    <2>2. Beating(fence) => Beating(fence)'
        BY <1>1, <2>1 DEF Beating
    <2>3. QED
        BY <1>1, <1>2, <1>4, <2>1, <2>2, ThreadsFrame DEF ThreadsInv, SilentInv, Inside
<1>11. QED
    BY <1>6, <1>7, <1>8, <1>9, <1>10 DEF EpilogueThread

\* Another process takes the run: nothing this process holds is beaten any more.
LEMMA UsurpKeeps ==
    ASSUME ProcessAssumption, RestOK, ThreadsInv, Usurp
    PROVE  ThreadsInv'
<1>1. /\ fence' = fence + 1 /\ lease' = "theirs" /\ fence \in Nat
      /\ UNCHANGED <<launch, ticket, run, active, timer, tick, renewing, known>>
    BY DEF Usurp, gate, beats, memory, RestOK
<1>2. \A t \in Launcher : launch[t].fence \in Nat
    BY DEF RestOK, LaunchRow
<1>3. LaunchInv'
    BY <1>1, <1>2 DEF ThreadsInv, LaunchInv
<1>4. RunInv' /\ RefusedNeverRuns' /\ SilentInv' /\ BeatInv'
    BY <1>1 DEF ThreadsInv, RunInv, RefusedNeverRuns, SilentInv, BeatInv, Fence
<1>5. QED
    BY <1>3, <1>4 DEF ThreadsInv

\* Shutdown stops the beats when no thread needs one any more.
LEMMA OtherKeeps ==
    ASSUME ProcessAssumption, ProcessInv,
           \/ \E i \in Plans : PlanStep(i)
           \/ ScanPauses \/ ScanArms \/ ExitThread \/ Yield
    PROVE  ThreadsInv'
<1> USE DEF ProcessInv
<1>1. CASE ~StopBeats
    <2>1. /\ UNCHANGED <<launch, ticket, run, fence, known, renewing, active, timer, tick>>
          /\ lease' = "ours" => lease = "ours"
        BY <1>1 DEF PlanStep, ScanPauses, ScanArms, ExitThread, BeginExit, AwaitLaunches,
             StopPlans, StopEngines, AwaitRuns, Yield, gate, beats, tables, memory, Admission!Close
    <2>2. Beating(fence) => Beating(fence)'
        BY <2>1 DEF Beating
    <2>3. QED
        BY <2>1, <2>2, QuietFrame
<1>2. CASE StopBeats
    <2>1. /\ UNCHANGED <<launch, ticket, run, fence, known>> /\ active' = {} /\ timer' = {}
          /\ lease' = "ours" => lease = "ours"
          /\ exit = "drained"
        BY <1>2 DEF StopBeats, Heartbeat!StopAll, LeaseDeleted, gate
    <2>2. /\ \A g \in Fence : run[g] \in {"none", "done", "gone"}
          /\ \A t \in Launcher : ticket[t] # "preparing"
        BY <2>1 DEF ExitInv
    <2>3. \A t \in Launcher : launch[t].fence = fence /\ fence \in Fence => ~Needs(t)'
        BY <2>1, <2>2 DEF ThreadsInv, LaunchInv, Needs
    <2>4. QED
        BY <2>1, <2>2, <2>3, ThreadsFrame DEF Inside
<1>3. QED
    BY <1>1, <1>2

\* Every step keeps the invariant of the threads.
LEMMA ThreadsStep ==
    ASSUME ProcessAssumption, ProcessInv, Next
    PROVE  ThreadsInv'
BY LaunchThreadKeeps, TickKeeps, EpilogueKeeps, UsurpKeeps, OtherKeeps DEF Next, Plans, ProcessInv
-------------------------------------------------------------------------------
(* The theorems *)

\* The invariant holds of a process that starts.
LEMMA ProcessInitially ==
    ASSUME ProcessAssumption, Init
    PROVE  ProcessInv
<1>1. /\ \A t \in Launcher : launch[t].step = "idle" /\ launch[t].fence = 0
                             /\ ticket[t] = "none"
      /\ \A f \in Fence : run[f] = "none"
      /\ lease = "free" /\ scan = "todo" /\ exit = "up" /\ closing = FALSE
      /\ fence \in 0 .. MaxFence
    BY DEF Init, Admission!AdmissionInit, ProcessAssumption
<1>2. RestOK
    <2>1. [step |-> "idle", fence |-> 0, prior |-> "none"] \in LaunchRow
        BY DEF LaunchRow, LaunchStep, ProcessAssumption
    <2>2. launch \in [Launcher -> LaunchRow]
        BY <2>1 DEF Init
    <2>3. Admission!AdmissionTypeOK /\ Heartbeat!HeartbeatTypeOK
        BY DEF Init, Admission!AdmissionInit, Admission!AdmissionTypeOK, Admission!TicketStep,
               Heartbeat!HeartbeatInit, Heartbeat!HeartbeatTypeOK, Heartbeat!TickStep
    <2>4. 0 \in 0 .. MaxFence /\ 0 \in 0 .. MaxPlans
        BY DEF ProcessAssumption
    <2>5. run \in [Fence -> RunStep] /\ handoff \in [Fence -> 0 .. MaxPlans]
        BY <2>4 DEF Init, RunStep
    <2>6. line \in Line /\ exit \in ExitStep
        BY DEF Init, Line, ExitStep
    <2>7. known = 0 /\ renewing = FALSE /\ registry = 0 /\ fenced = FALSE /\ halted = FALSE
        BY DEF Init
    <2>8. QED
        BY <1>1, <2>2, <2>3, <2>4, <2>5, <2>6, <2>7 DEF RestOK
<1>3. /\ \A i \in Plans : plans[i] = Scheduler!NoPlan
      /\ current = 0
    BY DEF Init, Scheduler!SchedulerInit, Scheduler!Plan, Plans
<1>4. PlansInv
    <2>1. Scheduler!NoPlan \in Scheduler!PlanRow /\ ~Scheduler!NoPlan.accepted
        BY DEF Scheduler!NoPlan, Scheduler!PlanRow
    <2>2. Scheduler!SchedulerTypeOK
        <3>1. 0 \in 0 .. MaxPlans
            BY DEF ProcessAssumption
        <3>2. plans \in [Scheduler!Plan -> Scheduler!PlanRow]
            BY <2>1 DEF Init, Scheduler!SchedulerInit
        <3>3. QED
            BY <3>1, <3>2 DEF Init, Scheduler!SchedulerInit, Scheduler!SchedulerTypeOK
    <2>3. ArmInv
        BY <1>3, <2>1 DEF ArmInv, Plans
    <2>4. QED
        BY <2>2, <2>3 DEF PlansInv
<1>5. ThreadsInv
    BY <1>1 DEF ThreadsInv, LaunchInv, RunInv, RefusedNeverRuns, SilentInv, BeatInv, Inside
<1>6. ScanInv /\ ExitInv
    BY <1>1, <1>3 DEF ScanInv, ExitInv
<1>7. QED
    BY <1>2, <1>4, <1>5, <1>6 DEF ProcessInv

\* It is inductive.
LEMMA ProcessStep ==
    ASSUME ProcessAssumption, ProcessInv, [Next]_vars
    PROVE  ProcessInv'
<1>1. CASE Next
    <2>1. RestOK'
        BY <1>1, TypesStep DEF ProcessInv
    <2>2. PlansInv'
        BY <1>1, NextMovesPlans, PlansStep DEF ProcessInv
    <2>3. QED
        BY <1>1, <2>1, <2>2, ThreadsStep, ScanStep, ExitStepKeeps DEF ProcessInv
<1>2. CASE UNCHANGED vars
    <2>1. RestOK'
        BY <1>2 DEF ProcessInv, RestOK, vars, gate, beats, tables, memory,
                    Admission!AdmissionTypeOK, Heartbeat!HeartbeatTypeOK
    <2>2. PlansInv' /\ ScanInv' /\ ExitInv'
        BY <1>2 DEF ProcessInv, PlansInv, ArmInv, Scheduler!SchedulerTypeOK, ScanInv, ExitInv,
                    vars, gate, resumes
    <2>3. ThreadsInv'
        BY <1>2 DEF ProcessInv, ThreadsInv, LaunchInv, RunInv, RefusedNeverRuns, SilentInv,
                    BeatInv, Needs, Behind, Beating, vars, gate, beats, tables, memory
    <2>4. QED
        BY <2>1, <2>2, <2>3 DEF ProcessInv
<1>3. QED
    BY <1>1, <1>2

\* It holds throughout.
LEMMA ProcessAlways ==
    ASSUME ProcessAssumption
    PROVE  Spec => []ProcessInv
<1>1. Init => ProcessInv
    BY ProcessInitially
<1>2. ProcessInv /\ [Next]_vars => ProcessInv'
    BY ProcessStep
<1>3. QED
    BY <1>1, <1>2, PTL DEF Spec

\* Its parts are the types of its variables.
LEMMA InvTypes == ProcessInv => TypeOK
BY DEF ProcessInv, RestOK, PlansInv, TypeOK

\* Every variable of a process keeps its type: in particular no acquisition and
\* no plan is numbered beyond its bound, and a run's hand-off is a plan or none.
THEOREM TypesHold ==
    ASSUME ProcessAssumption
    PROVE  Spec => []TypeOK
BY InvTypes, ProcessAlways, PTL

\* What holds the beats together is that a lease is beaten.
LEMMA InvBeats == ProcessInv => LeaseIsBeaten
<1>1. SUFFICES ASSUME ProcessInv PROVE LeaseIsBeaten
    OBVIOUS
<1>2. InsideIsBeating
    <2>1. SUFFICES ASSUME NEW f \in Fence, run[f] \in {"queued", "running", "decided"},
                          AcceptedRun(f), fence = f, lease = "ours"
                   PROVE  Beating(f)
        BY DEF InsideIsBeating, Beating
    <2>2. PICK t \in Launcher : launch[t].fence = f /\ ticket[t] = "accepted"
        BY <2>1 DEF AcceptedRun
    <2>3. Needs(t)
        BY <2>1, <2>2 DEF Needs
    <2>4. QED
        BY <1>1, <2>1, <2>2, <2>3 DEF ProcessInv, ThreadsInv, BeatInv
<1>3. LeaseHasAThread
    <2>1. SUFFICES ASSUME lease = "ours"
                   PROVE  \/ \E t \in Launcher : launch[t].fence = fence /\ launch[t].step # "over"
                          \/ run[fence] \in {"queued"} \cup Inside
        BY DEF LeaseHasAThread
    <2>2. PICK t \in Launcher : launch[t].fence = fence /\ Behind(t)
        BY <1>1, <2>1 DEF ProcessInv, ThreadsInv, BeatInv
    <2>3. QED
        BY <2>2 DEF Behind
<1>4. GivenBackIsSilent
    BY <1>1 DEF GivenBackIsSilent, ProcessInv, ThreadsInv, SilentInv
<1>5. QED
    BY <1>2, <1>3, <1>4 DEF LeaseIsBeaten

\* A lease this process holds is beaten as long as a thread is inside the run, has
\* a thread that will give it back, and is not beaten for once it was given back,
\* whatever ticks, launches, releases and shutdown interleave
\* (lease_heartbeat.py, runstate_store.py, service.py).
THEOREM LeasesAreBeaten ==
    ASSUME ProcessAssumption
    PROVE  Spec => []LeaseIsBeaten
BY InvBeats, ProcessAlways, PTL

\* What holds the plans and the launches together is that acceptances are kept.
LEMMA InvKeeps == ProcessInv => AcceptanceIsKept
BY DEF ProcessInv, ThreadsInv, PlansInv, ArmInv, AcceptanceIsKept, ArmedPlanWillFire, Plans

\* A launch that was refused never executes, though the pool may have queued it,
\* and a plan that stays current after its arming has a timer that will fire
\* (submission.py, autoresume.py).
THEOREM AcceptancesAreKept ==
    ASSUME ProcessAssumption
    PROVE  Spec => []AcceptanceIsKept
BY InvKeeps, ProcessAlways, PTL
===============================================================================
