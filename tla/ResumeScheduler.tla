---------------------------- MODULE ResumeScheduler ----------------------------
(***************************************************************************)
(* The auto-resume timer of one run (workflow/autoresume.py): at most one  *)
(* identified plan, installed when a quota pause is accepted, armed when   *)
(* the paused run's Future is done, claimed when its timer fires.  Timer   *)
(* effects run outside the mutex, so arm is a sequence of steps that a     *)
(* firing, a cancel and a shutdown may cut into.                           *)
(***************************************************************************)
EXTENDS Integers

CONSTANT MaxPlans  \* bound: plans ever installed

Plan == 1 .. MaxPlans

VARIABLES
    current,  \* the plan in _plans, or 0
    plans,    \* [Plan -> PlanRow]; one never installed has fence 0
    closed    \* shutdown was called

schedulerVars == <<current, plans, closed>>

\* arm: where the one thread that arms the plan is; "fire" is its own call of
\* _fire after an inline firing.
PlanRow == [fence : Nat,
            arm : {"idle", "starting", "made", "started", "fire", "over"},
            timer : {"none", "set", "live", "cancelled", "fired"},
            accepted : BOOLEAN, early : BOOLEAN, resumed : BOOLEAN]

NoPlan == [fence |-> 0, arm |-> "idle", timer |-> "none",
           accepted |-> FALSE, early |-> FALSE, resumed |-> FALSE]

SchedulerTypeOK ==
    /\ current \in 0 .. MaxPlans
    /\ plans \in [Plan -> PlanRow]
    /\ closed \in BOOLEAN

SchedulerInit ==
    current = 0 /\ plans = [i \in Plan |-> NoPlan] /\ closed = FALSE
-------------------------------------------------------------------------------
\* The plan's timer after _cancel_timer: one that fired cannot be taken back.
TimerCancelled(row) ==
    IF row.timer \in {"set", "live"} THEN [row EXCEPT !.timer = "cancelled"] ELSE row

\* Any plan never installed.
NextPlan == CHOOSE i \in Plan : plans[i].fence = 0

CanInstall == \E i \in Plan : plans[i].fence = 0

\* What prepare answers for a pause of this fence: the plan that is already
\* there for it, none when the scheduler is closed or holds a newer one, or a
\* new plan.
Prepared(fence) ==
    CASE closed -> 0
      [] ~closed /\ current # 0 /\ plans[current].fence = fence -> current
      [] ~closed /\ current # 0 /\ plans[current].fence > fence -> 0
      [] OTHER -> NextPlan

\* Install a new plan; the one it replaces loses its timer.
Prepare(fence) ==
    LET i == Prepared(fence) IN
    /\ current' = IF i = 0 THEN current ELSE i
    /\ plans' = IF i \in {0, current} THEN plans
                ELSE [j \in Plan |->
                        IF j = i THEN [NoPlan EXCEPT !.fence = fence]
                        ELSE IF j = current THEN TimerCancelled(plans[j])
                        ELSE plans[j]]
    /\ UNCHANGED closed

\* cancel of an identified plan: only while it is still the current one.
Drop(i) ==
    /\ current' = IF current = i THEN 0 ELSE current
    /\ plans' = IF current = i /\ i # 0
                  THEN [plans EXCEPT ![i] = TimerCancelled(@)] ELSE plans
    /\ UNCHANGED closed

\* acquired: only a newer acquisition revokes the plan.
Outdated(fence) == IF current # 0 /\ plans[current].fence < fence THEN current ELSE 0

\* cancel_fence: only the plan of exactly this acquisition.
PlanOf(fence) == IF current # 0 /\ plans[current].fence = fence THEN current ELSE 0

\* No plan outlives the service, and none is installed any more.
Shutdown ==
    /\ closed' = TRUE
    /\ current' = 0
    /\ plans' = IF current = 0 THEN plans
                ELSE [plans EXCEPT ![current] = TimerCancelled(@)]
-------------------------------------------------------------------------------
\* arm: the first caller marks the plan, any other is refused.
ArmBegin(i) ==
    /\ plans' = IF current = i /\ plans[i].arm = "idle"
                  THEN [plans EXCEPT ![i].arm = "starting"] ELSE plans
    /\ UNCHANGED <<current, closed>>

\* timer_factory, then the timer is attached if the plan is still current;
\* a factory that raises drops the plan.
ArmMake(i) ==
    /\ plans[i].arm = "starting"
    /\ \/ /\ plans' = [plans EXCEPT ![i].arm = IF current = i THEN "made" ELSE "over",
                                    ![i].timer = IF current = i THEN "set" ELSE "none"]
          /\ UNCHANGED current
       \/ /\ plans' = [plans EXCEPT ![i].arm = "over"]
          /\ current' = IF current = i THEN 0 ELSE current
    /\ UNCHANGED closed

\* timer.start(): a timer cancelled meanwhile never fires; a start that raises
\* drops the plan.
ArmStart(i) ==
    /\ plans[i].arm = "made"
    /\ \/ /\ plans' = [plans EXCEPT ![i].arm = "started",
                                    ![i].timer = IF @ = "set" THEN "live" ELSE @]
          /\ UNCHANGED current
       \/ /\ plans' = [plans EXCEPT ![i] = [TimerCancelled(@) EXCEPT !.arm = "over"]]
          /\ current' = IF current = i THEN 0 ELSE current
    /\ UNCHANGED closed

\* The start was accepted: a firing recorded in the meantime is done now.
ArmAccept(i) ==
    /\ plans[i].arm = "started"
    /\ plans' = [plans EXCEPT ![i] =
         IF current = i
           THEN [@ EXCEPT !.accepted = TRUE,
                          !.arm = IF plans[i].early THEN "fire" ELSE "over"]
           ELSE [TimerCancelled(@) EXCEPT !.arm = "over"]]
    /\ UNCHANGED <<current, closed>>

\* _fire under the mutex: a plan that is gone does nothing, one that was not
\* accepted yet notes it, any other is claimed and resumes.
Fired(i, row) ==
    IF current # i THEN row
    ELSE IF ~row.accepted THEN [row EXCEPT !.early = TRUE]
    ELSE [row EXCEPT !.resumed = TRUE]

Claimed(i) == current = i /\ plans[i].accepted

\* The timer thread.
Fire(i) ==
    /\ plans[i].timer = "live"
    /\ plans' = [plans EXCEPT ![i] = [Fired(i, @) EXCEPT !.timer = "fired"]]
    /\ current' = IF Claimed(i) THEN 0 ELSE current
    /\ UNCHANGED closed

\* The arming thread repeats the firing that came too early.
ArmFire(i) ==
    /\ plans[i].arm = "fire"
    /\ plans' = [plans EXCEPT ![i] = [Fired(i, @) EXCEPT !.arm = "over"]]
    /\ current' = IF Claimed(i) THEN 0 ELSE current
    /\ UNCHANGED closed
===============================================================================
