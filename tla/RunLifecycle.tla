----------------------------- MODULE RunLifecycle -----------------------------
(***************************************************************************)
(* What the service promises of one workflow run, whoever executes it: the *)
(* run has one line and, at any time, at most one acquisition that counts.  *)
(* Only that acquisition launches, withdraws, decides and announces; taking *)
(* the run over ends what its predecessor could still do to the line.       *)
(* There are no processes here, no lease, no cached views and no messages:  *)
(* RunOwnership implements this with all of them.                           *)
(***************************************************************************)
EXTENDS Integers

VARIABLES
    status,      \* what the run's line says
    generation,  \* the acquisition that counts, 0 before the first
    phase        \* how far that acquisition got

lifecycleVars == <<status, generation, phase>>

Verdict == {"complete", "degraded", "failed"}

Decision == Verdict \cup {"paused", "cancelled"}

Phase == {"none", "launching", "launched", "executing", "decided",
          "announcing", "closed"}

LifecycleInit == status = "missing" /\ generation = 0 /\ phase = "none"

\* Ownership moves, but never in the middle of an announcement.
Take ==
    /\ phase # "announcing"
    /\ generation' = generation + 1
    /\ phase' = "launching"
    /\ UNCHANGED status

\* A launch shows the run as running, or leaves the line as it is when the
\* launching process already knows something else of it.
Launch ==
    /\ phase = "launching"
    /\ phase' = "launched"
    /\ status' = "running" \/ (status # "missing" /\ status' = status)
    /\ UNCHANGED generation

Execute ==
    /\ phase = "launched"
    /\ phase' = "executing"
    /\ UNCHANGED <<status, generation>>

\* A launch that never executed puts the line back to something at rest.
Withdraw ==
    /\ phase = "launched"
    /\ phase' = "closed"
    /\ status' \in Decision
    /\ UNCHANGED generation

\* One verdict per acquisition, and only for a run that is still running.
Decide ==
    /\ phase = "executing"
    /\ status = "running"
    /\ status' \in Decision
    /\ phase' = "decided"
    /\ UNCHANGED generation

\* Anybody may cancel what has no verdict yet.
CancelLine ==
    /\ phase # "announcing"
    /\ status \in {"running", "paused"}
    /\ status' = "cancelled"
    /\ UNCHANGED <<generation, phase>>

\* What is announced is the acquisition's own decision, never a cancellation.
Announce ==
    /\ phase = "decided"
    /\ status \in Decision \ {"cancelled"}
    /\ phase' = "announcing"
    /\ UNCHANGED <<status, generation>>

\* Refused, failed, crashed, or done.
Close ==
    /\ phase # "none"
    /\ phase' = "closed"
    /\ UNCHANGED <<status, generation>>

LifecycleNext ==
    \/ Take \/ Launch \/ Execute \/ Withdraw \/ Decide
    \/ CancelLine \/ Announce \/ Close

LifecycleSpec == LifecycleInit /\ [][LifecycleNext]_lifecycleVars
===============================================================================
