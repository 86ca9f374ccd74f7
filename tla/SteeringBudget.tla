---------------------------- MODULE SteeringBudget ----------------------------
(***************************************************************************)
(* Steering a live run from outside (workflow/supervision.py steer_live_run*)
(* and workflow/steering.py), against the engine's own corrections and the *)
(* durable half of the budget (state/db.py steering_reserve and release).  *)
(* Each call is one thread; the outcome of an accepted steer arrives on a  *)
(* thread of the core, before or after the call has regained control.      *)
(*                                                                         *)
(* A run that changed hands has two processes, each with its own engine,   *)
(* its own limits and its own leaves, and one durable row. Of a leaf only  *)
(* the occurrence it is in and whether it takes steers matter.             *)
(***************************************************************************)
EXTENDS Integers, Sequences, FiniteSetsExt

CONSTANTS
    Call,           \* threads, each of which steers once
    Process, Leaf,
    MaxPerRun,      \* MAX_EXTERNAL_STEERS_PER_RUN
    MaxPerLeaf,     \* MAX_EXTERNAL_STEERS_PER_LEAF
    MaxCorrections, \* MAX_CORRECTIONS_PER_LEAF
    MaxCrashes      \* bound

VARIABLES
    used,    \* workflow_steering_budget: the run's durable count
    limits,  \* [Process -> [Leaf -> [external, corrections, open]]]
    turn,    \* [Process -> [Leaf -> [open, n]]]: the leaf's occurrence
    call,    \* [Call -> the local state of steer_live_run]
    inbox,   \* [Call -> where the core is with its steer]
    trail,   \* [Call -> Seq(Event)]: the audit events of it
    dead     \* SUBSET Process

steerVars == <<used, limits, turn, call, inbox, trail, dead>>

Event == {"exhausted", "rejected", "accepted", "read", "discarded"}

SteeringTypeOK ==
    /\ used \in 0..MaxPerRun
    /\ limits \in [Process -> [Leaf -> [external : 0..MaxPerLeaf, corrections : 0..MaxCorrections,
                                        open : BOOLEAN]]]
    /\ turn \in [Process -> [Leaf -> [open : BOOLEAN, n : 0..MaxCorrections]]]
    /\ \A s \in Call :
         /\ call[s].pc \in {"idle", "local", "unwind", "inject", "accepted", "publish", "done"}
         /\ call[s].accepted \in BOOLEAN /\ call[s].parked \subseteq Event
         /\ inbox[s].at \in {"none", "queued", "release", "tell", "told"}
    /\ trail \in [Call -> Seq(Event)] /\ dead \subseteq Process

SteeringInit ==
    /\ used = 0 /\ dead = {}
    /\ limits = [p \in Process |-> [l \in Leaf |-> [external |-> 0, corrections |-> 0,
                                                    open |-> FALSE]]]
    /\ turn = [p \in Process |-> [l \in Leaf |-> [open |-> TRUE, n |-> 0]]]
    /\ call = [s \in Call |-> [pc |-> "idle", accepted |-> FALSE, parked |-> {}]]
    /\ inbox = [s \in Call |-> [at |-> "none", outcome |-> "read"]]
    /\ trail = [s \in Call |-> <<>>]

Lives(s) == call[s].pc # "idle" /\ call[s].proc \notin dead
At(s, pc) == call[s].pc = pc /\ Lives(s)
Goto(s, pc) == call' = [call EXCEPT ![s].pc = pc]
Log(s, event) == trail' = [trail EXCEPT ![s] = Append(@, event)]
Counters(s) == limits[call[s].proc][call[s].leaf]
Occurrence(s) == turn[call[s].proc][call[s].leaf]

RunExternal(p) == MapThenSumSet(LAMBDA l : limits[p][l].external, Leaf)
-----------------------------------------------------------------------------
(* steer_live_run, on the caller's thread *)

\* Mutant: the ceiling of a run is off by one.
MayTake_One == used <= MaxPerRun

\* steering_reserve: what every process that runs it took, against one ceiling.
MayTake == used < MaxPerRun

\* steer: the run is live in this process, its engine and its core with it.
Steerable(p) == p \notin dead

(* The occurrence is the one the caller saw; the durable slot is taken     *)
(* first, in one immediate transaction.                                    *)
Reserve(s, p, l) ==
    LET row == [pc |-> "local", proc |-> p, leaf |-> l, turn |-> turn[p][l].n,
                accepted |-> FALSE, parked |-> {}]
    IN  /\ call[s].pc = "idle" /\ Steerable(p)
        /\ IF MayTake
             THEN used' = used + 1 /\ call' = [call EXCEPT ![s] = row] /\ UNCHANGED trail
             ELSE /\ call' = [call EXCEPT ![s] = [row EXCEPT !.pc = "done"]]
                  /\ Log(s, "exhausted") /\ UNCHANGED used
        /\ UNCHANGED <<limits, turn, inbox, dead>>

MayReserve(s) ==
    /\ Counters(s).external < MaxPerLeaf /\ Counters(s).corrections < MaxCorrections
    /\ RunExternal(call[s].proc) < MaxPerRun

Taken(s) == [limits EXCEPT ![call[s].proc][call[s].leaf] =
               [external |-> @.external + 1, corrections |-> @.corrections + 1, open |-> TRUE]]

Returned(s) == [limits EXCEPT ![call[s].proc][call[s].leaf] =
                  [external |-> @.external - 1, corrections |-> @.corrections - 1, open |-> FALSE]]

Spent(s) == [limits EXCEPT ![call[s].proc][call[s].leaf].open = FALSE]

ReserveLocal(s) ==
    /\ At(s, "local")
    /\ IF MayReserve(s)
         THEN limits' = Taken(s) /\ Goto(s, "inject")
         ELSE call' = [call EXCEPT ![s] = [@ EXCEPT !.pc = "unwind", !.parked = {"exhausted"}]]
              /\ UNCHANGED limits
    /\ UNCHANGED <<used, turn, inbox, trail, dead>>

\* Mutant: a refused steer keeps the slot other processes count.
Release_Nothing == UNCHANGED used

\* steering_release: never below zero.
Release == used' = IF used > 0 THEN used - 1 ELSE used

(* A refusal gives the durable slot back and says why. *)
Unwind(s) ==
    /\ At(s, "unwind")
    /\ Release
    /\ \E why \in call[s].parked : Log(s, why)
    /\ call' = [call EXCEPT ![s] = [@ EXCEPT !.pc = "done", !.parked = {}]]
    /\ UNCHANGED <<limits, turn, inbox, dead>>

\* core.steer_active: queued only into the occurrence the caller saw.
Accepts(s) == Occurrence(s).open /\ Occurrence(s).n = call[s].turn

Inject(s) ==
    /\ At(s, "inject")
    /\ IF Accepts(s)
         THEN /\ inbox' = [inbox EXCEPT ![s].at = "queued"]
              /\ Goto(s, "accepted") /\ UNCHANGED limits
         ELSE /\ limits' = Returned(s)
              /\ call' = [call EXCEPT ![s] = [@ EXCEPT !.pc = "unwind", !.parked = {"rejected"}]]
              /\ UNCHANGED inbox
    /\ UNCHANGED <<used, turn, trail, dead>>

Accept(s) ==
    /\ At(s, "accepted")
    /\ Log(s, "accepted") /\ Goto(s, "publish")
    /\ UNCHANGED <<used, limits, turn, inbox, dead>>

(* Under state_lock: from here on the outcome is told by whoever brings    *)
(* it; what was parked before is told now.                                 *)
Publish(s) ==
    /\ At(s, "publish")
    /\ call' = [call EXCEPT ![s] = [@ EXCEPT !.pc = "done", !.accepted = TRUE, !.parked = {}]]
    /\ trail' = [trail EXCEPT ![s] = IF call[s].parked = {} THEN @
                                     ELSE Append(@, CHOOSE o \in call[s].parked : TRUE)]
    /\ UNCHANGED <<used, limits, turn, inbox, dead>>
-----------------------------------------------------------------------------
(* settle, on a thread of the core *)

(* A steer is read while the occurrence it was accepted in is open, and    *)
(* discarded when a cancel or the end of the turn empties the inbox.       *)
Settle(s, outcome) ==
    /\ inbox[s].at = "queued" /\ Lives(s)
    /\ outcome = "read" => Occurrence(s).open
    /\ limits' = IF outcome = "discarded" THEN Returned(s) ELSE Spent(s)
    /\ inbox' = [inbox EXCEPT ![s] = [outcome |-> outcome,
                                      at |-> IF outcome = "discarded" THEN "release" ELSE "tell"]]
    /\ UNCHANGED <<used, turn, call, trail, dead>>

ReleaseDurable(s) ==
    /\ inbox[s].at = "release" /\ Lives(s)
    /\ Release
    /\ inbox' = [inbox EXCEPT ![s].at = "tell"]
    /\ UNCHANGED <<limits, turn, call, trail, dead>>

MustPark(s) == ~call[s].accepted

Tell(s) ==
    /\ inbox[s].at = "tell" /\ Lives(s)
    /\ inbox' = [inbox EXCEPT ![s].at = "told"]
    /\ IF MustPark(s)
         THEN call' = [call EXCEPT ![s].parked = {inbox[s].outcome}] /\ UNCHANGED trail
         ELSE Log(s, inbox[s].outcome) /\ UNCHANGED call
    /\ UNCHANGED <<used, limits, turn, dead>>
-----------------------------------------------------------------------------
(* The engine's corrections and the end of a process *)

Queued(p, l) == {s \in Call : inbox[s].at = "queued" /\ call[s].proc = p /\ call[s].leaf = l}

(* A turn ends when its inbox is empty or is about to be discarded. *)
TurnEnds(p, l) ==
    /\ turn[p][l].open /\ p \notin dead
    /\ turn' = [turn EXCEPT ![p][l].open = FALSE]
    /\ UNCHANGED <<used, limits, call, inbox, trail, dead>>

(* _collect_validate: reserve_internal, then a correction, which is a new  *)
(* occurrence of the leaf. At the limit the node settles uncorrected.      *)
Correct(p, l) ==
    /\ ~turn[p][l].open /\ Queued(p, l) = {} /\ p \notin dead
    /\ limits[p][l].corrections < MaxCorrections
    /\ limits' = [limits EXCEPT ![p][l].corrections = @ + 1]
    /\ turn' = [turn EXCEPT ![p][l] = [open |-> TRUE, n |-> @.n + 1]]
    /\ UNCHANGED <<used, call, inbox, trail, dead>>

Crash(p) ==
    /\ p \notin dead /\ Cardinality(dead) < MaxCrashes
    /\ dead' = dead \cup {p}
    /\ UNCHANGED <<used, limits, turn, call, inbox, trail>>

SteeringNext ==
    \/ \E s \in Call :
         \/ \E p \in Process, l \in Leaf : Reserve(s, p, l)
         \/ ReserveLocal(s) \/ Unwind(s) \/ Inject(s) \/ Accept(s) \/ Publish(s)
         \/ \E outcome \in {"read", "discarded"} : Settle(s, outcome)
         \/ ReleaseDurable(s) \/ Tell(s)
    \/ \E p \in Process : Crash(p) \/ \E l \in Leaf : TurnEnds(p, l) \/ Correct(p, l)

SteeringSpec == SteeringInit /\ [][SteeringNext]_steerVars
-----------------------------------------------------------------------------
Landed == {s \in Call : inbox[s].at \in {"tell", "told"} /\ inbox[s].outcome = "read"}
Pending == {s \in Call : call[s].pc \in {"local", "inject", "unwind"}
                         \/ inbox[s].at \in {"queued", "release"}}

(* A steer counts once and is told once.  The run's durable count is what  *)
(* was delivered in every process that ran it, plus what is still under    *)
(* way, plus what crashed under way: one refused or discarded costs        *)
(* nothing anywhere, and no hand-over refills the ceiling.  And whoever is *)
(* faster, the audit tells each steer as one story: refused, or accepted   *)
(* and then settled (supervision.py steer_live_run; settle parks an        *)
(* outcome that comes before the acceptance).                              *)
SteersAreKept ==
    /\ used = Cardinality(Landed \cup Pending)
    /\ \A s \in Call :
         /\ trail[s] \in {<<>>, <<"exhausted">>, <<"rejected">>, <<"accepted">>,
                         <<"accepted", inbox[s].outcome>>}
         /\ call[s].pc = "done" /\ inbox[s].at = "told" => Len(trail[s]) = 2
=============================================================================
