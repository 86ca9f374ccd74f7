------------------------------- MODULE RunStore -------------------------------
(***************************************************************************)
(* The durable side of ONE workflow run: its line (workflow_run_state), its *)
(* ownership fence (workflow_run_fence), its lease (workflow_run_locks) and *)
(* the per-run publication guard.  state/runstate.py and the lease half of  *)
(* state/db.py run every operator below as one SQLite transaction, so each  *)
(* is one atomic step of whoever calls it.                                  *)
(*                                                                         *)
(* The tables of different runs never meet: everything is keyed by run_id.  *)
(* Time is relative: lease.left is expires_at - now, and a lease row whose  *)
(* left is 0 is the expired row that is still on disk.                      *)
(***************************************************************************)
EXTENDS Integers

CONSTANTS
    Process,    \* service processes; each is one lease holder
    NoProcess,  \* "nobody"
    Ttl         \* RUN_LEASE_TTL, in clock ticks

ASSUME StoreAssumption == NoProcess \notin Process /\ Ttl \in Nat \ {0}

VARIABLES
    row,    \* the run's line; revision 0 and status "missing" when absent
    fence,  \* the current fence, 0 before the first acquisition
    lease,  \* the lock row: its holder and the time it has left
    guard   \* the fence of the acquisition inside the publication guard, or 0

storeVars == <<row, fence, lease, guard>>
-------------------------------------------------------------------------------
Finished == {"complete", "degraded", "failed"}

Status == Finished \cup {"running", "paused", "cancelled"}

\* "user" stands for every pause a human must answer (user_requested,
\* token_budget, checkpoint, route_fault); only "quota" is auto-resumed.
PauseReason == {"none", "quota", "user"}

RunRow == [status : Status \cup {"missing"}, reason : PauseReason,
           revision : Nat, attempts : Nat]

Missing == [status |-> "missing", reason |-> "none", revision |-> 0, attempts |-> 0]

NoLease == [holder |-> NoProcess, left |-> 0]

\* Mutant: an expired row counts as a lease.
Leased_Expired == lease.left >= 0

Leased == lease.left > 0

\* No fence presented: an ownerless cancel.
Ownerless == 0

\* The reads a caller's captured revision is compared with.
AnyRevision == -1

StoreTypeOK ==
    /\ row \in RunRow
    /\ fence \in Nat
    /\ lease \in [holder : Process \cup {NoProcess}, left : 0 .. Ttl]
    /\ guard \in Nat

StoreInit ==
    /\ row = Missing
    /\ fence = 0
    /\ lease = NoLease
    /\ guard = 0
-------------------------------------------------------------------------------
LaunchModes == {"launch", "refuse_launch"}

\* Mutant: the write is not fenced.
CanWrite_Unfenced(f, mode, expected, status) ==
    /\ mode \in LaunchModes => row.revision = expected
    /\ mode \notin LaunchModes => row.status # "missing"
    /\ mode = "finish" => row.status = "running"
    /\ mode = "snapshot" => row.revision = expected /\ row.status = status

\* Mutant: a late snapshot is compared with nothing.
CanWrite_BlindSnapshot(f, mode, expected, status) ==
    /\ f = fence
    /\ mode \in LaunchModes => row.revision = expected
    /\ mode \notin LaunchModes => row.status # "missing"
    /\ mode = "finish" => row.status = "running"

\* runstate.write answers "written": the fence is current, a launch presents
\* the revision it read, a finish finds the run still running, and a snapshot
\* finds both the revision and the status it captured.
CanWrite(f, mode, expected, status) ==
    /\ f = fence
    /\ mode \in LaunchModes => row.revision = expected
    /\ mode \notin LaunchModes => row.status # "missing"
    /\ mode = "finish" => row.status = "running"
    /\ mode = "snapshot" => row.revision = expected /\ row.status = status

\* Mutant: the revision does not move.
Put_SameRevision(status, reason, attempts) ==
    row' = [status |-> status, reason |-> reason,
            revision |-> row.revision, attempts |-> attempts]

\* INSERT OR REPLACE of the line, one revision up.
Put(status, reason, attempts) ==
    row' = [status |-> status, reason |-> reason,
            revision |-> row.revision + 1, attempts |-> attempts]

\* Mutant: nobody looks at the guard.
GuardFree_Ignored == TRUE

\* The guard is taken without blocking before cancel and acquire touch SQLite:
\* while a publication holds it both answer publication_busy.
GuardFree == guard = 0

\* Mutant: the captured revision is not compared.
CanCancel_AnyRevision(f, expected) ==
    /\ GuardFree
    /\ row.status \in {"running", "paused", "cancelled"}
    /\ f # Ownerless => f = fence
    /\ f = Ownerless => ~Leased

\* Mutant: a finished line can be cancelled.
CanCancel_Finished(f, expected) ==
    /\ GuardFree
    /\ row.status # "missing"
    /\ f # Ownerless => f = fence
    /\ f = Ownerless => ~Leased
    /\ expected # AnyRevision => row.revision = expected

\* runstate.cancel does not refuse: f is current, or the caller is ownerless
\* and nobody holds a live lease; a finished line and a moved revision refuse.
CanCancel(f, expected) ==
    /\ GuardFree
    /\ row.status \in {"running", "paused", "cancelled"}
    /\ f # Ownerless => f = fence
    /\ f = Ownerless => ~Leased
    /\ expected # AnyRevision => row.revision = expected

\* A line already cancelled is acknowledged again and not rewritten.
Cancel ==
    IF row.status = "cancelled" THEN UNCHANGED row
    ELSE Put("cancelled", "none", row.attempts)

\* What a paused-only launch validates in the acquiring transaction: the
\* revision and fence a manual resume read, or the pause an auto-resume timer
\* was armed for (progress revisions do not matter to the latter).
PauseTokenHolds(revision, f) ==
    row.status = "paused" /\ row.revision = revision /\ fence = f

ResumeTokenHolds(f, attempts) ==
    /\ row.status = "paused"
    /\ row.reason = "quota"
    /\ row.attempts = attempts
    /\ fence = f

CanAcquire == GuardFree /\ ~Leased

\* DELETE the expired lock, INSERT ours, fence := fence + 1, in one transaction.
Acquire(p) ==
    /\ fence' = fence + 1
    /\ lease' = [holder |-> p, left |-> Ttl]
    /\ UNCHANGED <<row, guard>>

\* The UPDATE of renew_run_lease matches a row: ours, under the current fence.
\* It does not ask whether the lease has expired, so it can revive one.
CanRenew(p, f) == lease.holder = p /\ f = fence

Renew(p) == lease' = [holder |-> p, left |-> Ttl]

\* DELETE ... WHERE holder = p and the current fence is f.
Release(p, f) ==
    lease' = IF lease.holder = p /\ f = fence THEN NoLease ELSE lease

\* One unit of the wall clock.
Tick ==
    /\ Leased
    /\ lease' = [lease EXCEPT !.left = @ - 1]
    /\ UNCHANGED <<row, fence, guard>>
===============================================================================
