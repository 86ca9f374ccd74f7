----------------------------- MODULE EngineBooks -----------------------------
(***************************************************************************)
(* What every node of a run shares in workflow/engine.py: the leaves it    *)
(* spawned on the core, the books their costs are closed in, the latch     *)
(* that stops the run, and the faults its verdict is read from.            *)
(*                                                                         *)
(* A leaf is a number, in the order the core accepted it.  Operators below *)
(* are the critical sections of engine.py as functions on the books; the   *)
(* modules of the strategies make steps of them.                           *)
(***************************************************************************)
EXTENDS LeafBudget, Sequences, FiniteSets

CONSTANT Ends    \* how turns end: the Answers and Deaths the leaves may show

VARIABLES
    leaf,     \* what core.collect says of each leaf
    book,     \* _accounted, _pending_account, _spawned and the seal
    stop,     \* the cancel event and the PauseSignal
    faults    \* RunResult.faults, each with the door its discount came by

bookVars == <<budget, leaf, book, stop, faults>>

Terminal == {"complete", "error", "interrupted", "cancelled"}
Answer == {"good", "empty", "invalid"}
Death == {"plain", "quota", "auth", "no_model"}
PauseReason == {"quota_exhausted", "token_budget_exhausted", "route_fault", "user"}
Door == {"counted", "pause", "advisory"}

Leaves == 1..Len(leaf)

BooksTypeOK ==
    /\ BudgetTypeOK
    /\ leaf \in Seq([status : Terminal \cup {"queued", "running"},
                     says : Answer \cup Death \cup {"nothing"},
                     asked : BOOLEAN, turns : Nat])
    /\ book.accounted \subseteq Leaves /\ book.tracked \subseteq Leaves
    /\ DOMAIN book.pending \subseteq Leaves
    /\ \A l \in DOMAIN book.pending : book.pending[l] \in BOOLEAN
    /\ book.stragglers \subseteq Leaves /\ book.sealed \in BOOLEAN
    /\ book.expired \in {"no", "timeout", "pause"}
    /\ book.tokens \in Nat /\ book.uncertain \in Nat
    /\ stop \in [cancel : BOOLEAN, pause : PauseReason \cup {"none"}]
    /\ \A f \in faults : f.door \in Door

BooksInit ==
    /\ BudgetInit
    /\ leaf = <<>>
    /\ book = [accounted |-> {}, pending |-> <<>>, tracked |-> {}, stragglers |-> {},
               sealed |-> FALSE, expired |-> "no", tokens |-> 0, uncertain |-> 0]
    /\ stop = [cancel |-> FALSE, pause |-> "none"]
    /\ faults = {}

Fault(why, of, door) == [why |-> why, of |-> of, door |-> door]

Paused == stop.pause # "none"
Stopped == stop.cancel \/ Paused
Live(l) == leaf[l].status \notin Terminal
Cost(l) == leaf[l].turns             \* a leaf's usage adds up over its turns
Uncertain(l) == IF leaf[l].status = "interrupted" THEN 1 ELSE 0

(* PauseSignal.record: only the first reporter latches, and writes a fault. *)
Latched(reason) == IF Paused THEN stop ELSE [stop EXCEPT !.pause = reason]
LatchFault(reason) == IF Paused THEN {} ELSE {Fault(reason, 0, "pause")}

(* note_leaf_failure: quota and a refused credential latch a pause, and the *)
(* first to do so stops what is in flight.                                 *)
Latches(says) == CASE says = "quota" -> "quota_exhausted"
                   [] says \in {"auth", "no_model"} -> "route_fault"
                   [] OTHER -> "none"

(* The faults of a leaf that died: one for the latch, none for a later     *)
(* quota death, the pause's own if this pause stopped the leaf or its node *)
(* is the one whose route is dead, an ordinary one else.                   *)
FailureFaults(l) ==
    LET reason == Latches(leaf[l].says)
        administrative == leaf[l].status \in {"interrupted", "cancelled"} /\ Paused /\ ~stop.cancel
    IN  IF reason = "quota_exhausted" \/ (reason # "none" /\ ~Paused) THEN LatchFault(reason)
        ELSE {Fault("died", l, IF administrative \/ stop.pause = "route_fault"
                               THEN "pause" ELSE "counted")}
-----------------------------------------------------------------------------
(* The core, as the engine sees it. *)

Accepted == Append(leaf, [status |-> "queued", says |-> "nothing",
                          asked |-> FALSE, turns |-> 0])

(* core.cancel: a queued turn is dropped, a running one asked to stop. *)
AfterCancel(set) ==
    [l \in Leaves |->
        IF l \notin set THEN leaf[l]
        ELSE CASE leaf[l].status = "queued" -> [leaf[l] EXCEPT !.status = "cancelled"]
               [] leaf[l].status = "running" -> [leaf[l] EXCEPT !.asked = TRUE]
               [] OTHER -> leaf[l]]

LeafStarts(l) ==
    /\ leaf[l].status = "queued"
    /\ leaf' = [leaf EXCEPT ![l].status = "running"]
    /\ UNCHANGED <<budget, book, stop, faults>>

(* A turn ends with an answer, an error, or interrupted when asked to. *)
LeafEnds(l) ==
    /\ leaf[l].status = "running"
    /\ \/ \E a \in Answer \cap Ends :
             leaf' = [leaf EXCEPT ![l].status = "complete", ![l].says = a, ![l].turns = @ + 1]
       \/ \E d \in Death \cap Ends : leaf' = [leaf EXCEPT ![l].status = "error", ![l].says = d]
       \/ leaf[l].asked /\ leaf' = [leaf EXCEPT ![l].status = "interrupted"]
    /\ UNCHANGED <<budget, book, stop, faults>>
-----------------------------------------------------------------------------
(* _track: what the seal will look for; an expired pipeline's late leaf is *)
(* pending at once.                                                        *)
Tracked(b, l) ==
    LET late == b.expired # "no" /\ l \notin b.accounted /\ ~b.sealed
    IN  [b EXCEPT !.tracked = @ \cup {l},
                  !.pending = IF late /\ l \notin DOMAIN @
                              THEN [x \in DOMAIN @ \cup {l} |->
                                      IF x = l THEN b.expired = "pause" ELSE @[x]]
                              ELSE @]

(* account_leaf and _defer_account return early on these. *)
Closed(b, l) == l \in b.accounted \/ b.sealed

Without(f, l) == [x \in DOMAIN f \ {l} |-> f[x]]

(* account_leaf: a terminal leaf enters the rollup once, never after the   *)
(* seal; one still live is written down as pending, the first cause kept.  *)
Accounted(b, l, pauseCaused) ==
    IF Closed(b, l) THEN b
    ELSE IF Live(l)
         THEN IF l \in DOMAIN b.pending THEN b
              ELSE [b EXCEPT !.pending = [x \in DOMAIN @ \cup {l} |->
                                            IF x = l THEN pauseCaused ELSE @[x]]]
    ELSE [b EXCEPT !.accounted = @ \cup {l}, !.pending = Without(@, l),
                   !.tokens = @ + Cost(l), !.uncertain = @ + Uncertain(l)]

Bills(b, l) == ~Closed(b, l) /\ ~Live(l)

\* Mutant: whatever did not answer gives its slot back.
NeverRan_Dead(l) == leaf[l].status # "complete"

(* Only a turn the pool dropped is refunded. *)
NeverRan(l) == leaf[l].status = "cancelled"

(* After the books: the budget is charged, the crossing said once, and the *)
(* slot of a leaf that never ran given back.                               *)
ChargedFor(b, l) == LET c == Charged(b, Cost(l)) IN IF NeverRan(l) THEN Refunded(c) ELSE c
Overrun(b, l) == IF Crosses(b, Cost(l)) THEN {Fault("overrun", l, "advisory")} ELSE {}

(* _settle_pending: the catch-up of an expired pipeline ... *)
CaughtUp(b) ==
    LET late == {l \in b.tracked \ b.accounted : b.expired # "no"}
    IN  [b EXCEPT !.pending = [l \in DOMAIN @ \cup late |->
                                 IF l \in DOMAIN @ THEN @[l] ELSE b.expired = "pause"]]

(* ... and its end: in one hold of the lock what is left becomes uncertain *)
(* and nothing is written any more.                                        *)
Sealed(b) ==
    LET left == DOMAIN b.pending \ b.accounted
    IN  [b EXCEPT !.sealed = TRUE, !.stragglers = left,
                  !.uncertain = @ + Cardinality(left)]

StragglerFaults(b) ==
    {Fault("unsettled", l, IF b.pending[l] /\ ~stop.cancel THEN "pause" ELSE "counted") :
        l \in DOMAIN b.pending \ b.accounted}
-----------------------------------------------------------------------------
(* The operator *)

RequestCancel ==
    /\ ~stop.cancel
    /\ stop' = [stop EXCEPT !.cancel = TRUE]
    /\ UNCHANGED <<budget, leaf, book, faults>>

RequestPause ==
    /\ ~Paused
    /\ stop' = Latched("user") /\ faults' = faults \cup LatchFault("user")
    /\ UNCHANGED <<budget, leaf, book>>
=============================================================================
