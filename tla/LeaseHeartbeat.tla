---------------------------- MODULE LeaseHeartbeat ----------------------------
(***************************************************************************)
(* The repeating tick that keeps a run's lease fresh                        *)
(* (workflow/lease_heartbeat.py).  A key is one acquisition.  Every step    *)
(* below is what one thread does inside the bookkeeping mutex; between two  *)
(* of them a stop, another acquisition or a shutdown may run.               *)
(***************************************************************************)
CONSTANT Key

VARIABLES
    active,  \* the keys it is supposed to be beating for
    timer,   \* the keys whose timer is in _timers
    tick     \* [Key -> TickStep]: the timer thread inside _tick

heartbeatVars == <<active, timer, tick>>

TickStep == {"none", "claimed", "checked", "held", "lost"}

HeartbeatTypeOK ==
    active \subseteq Key /\ timer \subseteq Key /\ tick \in [Key -> TickStep]

HeartbeatInit == active = {} /\ timer = {} /\ tick = [k \in Key |-> "none"]
-------------------------------------------------------------------------------
\* stop: a tick that was already claimed is not in _timers any more.
Stop(k) ==
    active' = active \ {k} /\ timer' = timer \ {k} /\ UNCHANGED tick

\* start, which arms at once, after the previous acquisition of this store stopped.
Succeed(prior, k) ==
    /\ active' = (active \ {prior}) \cup {k}
    /\ timer' = (timer \ {prior}) \cup {k}
    /\ UNCHANGED tick

\* shutdown: cancel them all, but a tick in flight goes on.
StopAll == active' = {} /\ timer' = {} /\ UNCHANGED tick

\* The timer fires and _tick claims it under the mutex: a stop that raced it
\* already took it away.
Claim(k) ==
    /\ k \in timer
    /\ timer' = timer \ {k}
    /\ tick' = [tick EXCEPT ![k] = "claimed"]
    /\ UNCHANGED active

\* renew asks its own store first ...
Checked(k, ours) ==
    /\ tick[k] = "claimed"
    /\ tick' = [tick EXCEPT ![k] = IF ours THEN "checked" ELSE "lost"]
    /\ UNCHANGED <<active, timer>>

\* ... and then the database.
Renewed(k, held) ==
    /\ tick[k] = "checked"
    /\ tick' = [tick EXCEPT ![k] = IF held THEN "held" ELSE "lost"]
    /\ UNCHANGED <<active, timer>>

\* _arm from a tick: a stop in between is authoritative.
Rearm(k) ==
    /\ tick[k] = "held"
    /\ tick' = [tick EXCEPT ![k] = "none"]
    /\ timer' = IF k \in active THEN timer \cup {k} ELSE timer
    /\ UNCHANGED active

\* _notify_lost: the tick ends without arming another.
Notify(k) ==
    /\ tick[k] = "lost"
    /\ tick' = [tick EXCEPT ![k] = "none"]
    /\ UNCHANGED <<active, timer>>
===============================================================================
