----------------------------- MODULE PipelineRun -----------------------------
(***************************************************************************)
(* One pipeline node (_PipelineRun of workflow/strategies.py), the engine  *)
(* around it and the seal of the run that follows.  Items walk the stages  *)
(* without a barrier: the node thread dispatches, and each leaf's          *)
(* completion hook, on a worker, settles its cell and spawns the next.     *)
(* job[0] is the node thread, job[l] the hook of leaf l; a step is one     *)
(* hold of a lock, or one call of the core.                                *)
(***************************************************************************)
EXTENDS EngineBooks

CONSTANTS Items, Stages,
          Retries     \* the retries of every stage

PipelineAssumption ==
    Items \in Nat \ {0} /\ Stages \in Nat \ {0} /\ Retries \in Nat

VARIABLES job, pipe

vars == <<bookVars, job, pipe>>

Item == 1..Items
Stage == 1..Stages
Thread == DOMAIN job

PC == {"idle", "advance", "claim", "spawn", "track", "append", "strand", "drop", "finish",
       "charge", "accept", "stage", "stopall",
       "wait", "mark", "sweep", "read", "settle", "seal", "verdict", "end"}

Job == [pc : PC, item : 0..Items, stage : 1..Stages + 1, again : BOOLEAN, sub : Nat]

PipelineTypeOK ==
    /\ BooksTypeOK
    /\ DOMAIN job = 0..Len(leaf) /\ \A t \in Thread : job[t] \in Job
    /\ pipe.results \in [Item -> {"pending", "null", "answer"}]
    /\ pipe.holes \subseteq Item /\ pipe.expired \in BOOLEAN
    /\ pipe.retries \in [Item \X Stage -> 0..Retries + 1]
    /\ pipe.spawned \subseteq Leaves /\ pipe.sweep \subseteq Leaves
    /\ pipe.cells \subseteq Item \X Stage
    /\ pipe.published \in Seq([results : [Item -> {"null", "answer"}], holes : SUBSET Item])

(* A resume finds some cells of the first item in the cache. *)
Init ==
    /\ BooksInit
    /\ job = [t \in {0} |-> [pc |-> "advance", item |-> 1, stage |-> 1, again |-> FALSE, sub |-> 0]]
    /\ \E cells \in {{}, {<<1, 1>>}} :
         pipe = [results |-> [i \in Item |-> "pending"], holes |-> {}, expired |-> FALSE,
                 retries |-> [c \in Item \X Stage |-> 0], spawned |-> {}, sweep |-> {},
                 cells |-> cells, published |-> <<>>, status |-> "running"]

Settled == {i \in Item : pipe.results[i] # "pending"}
At(t, pc) == t \in Thread /\ job[t].pc = pc
Goto(t, pc) == job' = [job EXCEPT ![t].pc = pc]

(* What a thread does when its item is settled or handed over: a hook ends, *)
(* the node thread takes the next item, then waits.                        *)
Returned(t) ==
    IF t # 0 THEN [job EXCEPT ![t].pc = "idle"]
    ELSE IF job[0].item < Items
         THEN [job EXCEPT ![0].pc = "advance", ![0].item = @ + 1, ![0].stage = 1]
         ELSE [job EXCEPT ![0].pc = "wait"]

Return(t) == job' = Returned(t)
-----------------------------------------------------------------------------
\* Mutant: a stopped run just returns from the item.
Halt_Leave(t) == Return(t)

(* A stopped run settles the item, so that the barrier need not time out. *)
Halt(t) == Goto(t, "drop")

(* _advance up to the spawn: closed barrier, stopped run, last stage, cell *)
(* in the cache (only on the first attempt).                               *)
Advance(t) ==
    LET j == job[t] IN
    /\ At(t, "advance")
    /\ CASE pipe.expired -> Return(t)
         [] ~pipe.expired /\ Stopped -> Halt(t)
         [] ~pipe.expired /\ ~Stopped /\ j.stage > Stages -> Goto(t, "finish")
         [] OTHER -> IF ~j.again /\ <<j.item, j.stage>> \in pipe.cells
                     THEN job' = [job EXCEPT ![t].stage = @ + 1]
                     ELSE Goto(t, "claim")
    /\ UNCHANGED <<bookVars, pipe>>

(* _gate_tokens, then _reserve_lifetime: out of money pauses the run, out  *)
(* of slots is a fault of the cell; either way the item is dropped.        *)
Claim(t) ==
    /\ At(t, "claim")
    /\ \/ /\ ~MaySpawn
          /\ stop' = Latched("token_budget_exhausted")
          /\ faults' = faults \cup LatchFault("token_budget_exhausted")
          /\ Goto(t, "drop")
          /\ UNCHANGED budget
       \/ /\ MaySpawn /\ ~CanReserve(budget)
          /\ faults' = faults \cup {Fault("lifetime", job[t].item, "counted")}
          /\ Goto(t, "drop")
          /\ UNCHANGED <<budget, stop>>
       \/ /\ MaySpawn /\ CanReserve(budget)
          /\ budget' = Reserved(budget)
          /\ Goto(t, "spawn")
          /\ UNCHANGED <<stop, faults>>
    /\ UNCHANGED <<leaf, book, pipe>>

(* core.spawn: accepted, with the hook installed; its leaf may be done and *)
(* its hook running before this thread goes on.                            *)
Spawn(t) ==
    LET l == Len(leaf) + 1 IN
    /\ At(t, "spawn")
    /\ leaf' = Accepted
    /\ job' = [x \in 0..l |->
                 IF x = l THEN [job[t] EXCEPT !.pc = "idle", !.sub = l, !.again = FALSE]
                 ELSE IF x = t THEN [job[t] EXCEPT !.pc = "track", !.sub = l] ELSE job[x]]
    /\ UNCHANGED <<budget, book, stop, faults, pipe>>

(* core.spawn raises: the slot goes back; the item is dropped with a fault, *)
(* unless this is a hook of a closed barrier.                              *)
SpawnRaises(t) ==
    /\ At(t, "spawn")
    /\ budget' = Refunded(budget)
    /\ IF t # 0 /\ pipe.expired
       THEN Return(t) /\ UNCHANGED faults
       ELSE /\ Goto(t, "drop")
            /\ faults' = faults \cup {Fault("crashed", job[t].item, "counted")}
    /\ UNCHANGED <<leaf, book, stop, pipe>>

Track(t) ==
    /\ At(t, "track")
    /\ book' = Tracked(book, job[t].sub)
    /\ Goto(t, "append")
    /\ UNCHANGED <<budget, leaf, stop, faults, pipe>>

IsStranded(p) == p.expired

(* _spawned and the barrier, in one hold of the lock. *)
AppendSpawned(t) ==
    /\ At(t, "append")
    /\ pipe' = [pipe EXCEPT !.spawned = @ \cup {job[t].sub}]
    /\ IF IsStranded(pipe) THEN Goto(t, "strand") ELSE Return(t)
    /\ UNCHANGED bookVars

(* _cancel_running of one leaf: cancel it if it runs, then account it: a   *)
(* dropped one is billed (and refunded) now, a live one is pending.        *)
CancelAndAccount(l) ==
    LET seen == AfterCancel({l})
        dropped == seen[l].status = "cancelled" /\ ~Closed(book, l)
    IN  /\ leaf' = seen
        /\ IF leaf[l].status = "queued"
           THEN /\ book' = IF dropped
                           THEN [book EXCEPT !.accounted = @ \cup {l}, !.pending = Without(@, l)]
                           ELSE book
                /\ budget' = IF dropped THEN Refunded(budget) ELSE budget
                /\ UNCHANGED faults
           ELSE /\ book' = Accounted(book, l, book.expired = "pause")
                /\ budget' = IF Bills(book, l) THEN ChargedFor(budget, l) ELSE budget
                /\ faults' = IF Bills(book, l) THEN faults \cup Overrun(budget, l) ELSE faults

Strand(t) ==
    /\ At(t, "strand")
    /\ CancelAndAccount(job[t].sub)
    /\ Return(t)
    /\ UNCHANGED <<stop, pipe>>

\* Mutant: a late item is settled although the barrier was closed.
MaySettle_Late(p, i) == p.results[i] = "pending"

MaySettle(p, i) == ~p.expired /\ p.results[i] = "pending"

(* _finish settles an item once, and a closed barrier settles no more. *)
Settle(t, value) ==
    LET i == job[t].item IN
    /\ pipe' = [pipe EXCEPT !.results[i] = IF MaySettle(pipe, i) THEN value ELSE @,
                            !.holes = IF value = "null" THEN @ \cup {i} ELSE @]
    /\ Return(t)
    /\ UNCHANGED bookVars

Finish(t) == At(t, "finish") /\ Settle(t, "answer")

(* _drop writes the hole down, then settles: whoever looks in between      *)
(* finds the item unsettled, and so a hole as well.                        *)
Drop(t) == At(t, "drop") /\ Settle(t, "null")
-----------------------------------------------------------------------------
(* The hook of a leaf: account, charge, ask the barrier, settle the cell.  *)
(* It has not fired while its job still names the leaf itself.             *)

HookFires(l) ==
    /\ At(l, "idle") /\ l # 0 /\ job[l].sub = l /\ ~Live(l)
    /\ book' = Accounted(book, l, FALSE)
    /\ job' = [job EXCEPT ![l].pc = IF Bills(book, l) THEN "charge" ELSE "accept", ![l].sub = 0]
    /\ UNCHANGED <<budget, leaf, stop, faults, pipe>>

Charge(l) ==
    /\ At(l, "charge")
    /\ budget' = ChargedFor(budget, l)
    /\ faults' = faults \cup Overrun(budget, l)
    /\ Goto(l, IF pipe.expired THEN "idle" ELSE "stage")
    /\ UNCHANGED <<leaf, book, stop, pipe>>

Accept(l) ==
    /\ At(l, "accept")
    /\ Goto(l, IF pipe.expired THEN "idle" ELSE "stage")
    /\ UNCHANGED <<bookVars, pipe>>

(* _stage_done.  A dead leaf may latch a pause; an answer is cached and    *)
(* carried on; an empty or invalid one buys a fresh leaf while retries     *)
(* last.                                                                   *)
StageDone(l) ==
    LET cell == <<job[l].item, job[l].stage>>
        reason == Latches(leaf[l].says)
    IN
    /\ At(l, "stage")
    /\ \/ /\ leaf[l].status # "complete"
          /\ stop' = IF reason = "none" THEN stop ELSE Latched(reason)
          /\ faults' = faults \cup FailureFaults(l)
          /\ Goto(l, IF reason # "none" /\ ~Paused THEN "stopall" ELSE "drop")
          /\ UNCHANGED pipe
       \/ /\ leaf[l].says = "good"
          /\ pipe' = [pipe EXCEPT !.cells = @ \cup {cell}]
          /\ job' = [job EXCEPT ![l].pc = "advance", ![l].stage = @ + 1]
          /\ UNCHANGED <<stop, faults>>
       \/ /\ leaf[l].says \in {"empty", "invalid"}
          /\ pipe' = [pipe EXCEPT !.retries[cell] = @ + 1]
          /\ IF pipe.retries[cell] + 1 > Retries
             THEN /\ Goto(l, "drop")
                  /\ faults' = IF leaf[l].says = "empty"
                               THEN faults \cup {Fault("empty", l, "counted")} ELSE faults
             ELSE /\ job' = [job EXCEPT ![l].pc = "advance", ![l].again = TRUE]
                  /\ UNCHANGED faults
          /\ UNCHANGED stop
    /\ UNCHANGED <<budget, leaf, book>>

(* _cancel_inflight: every leaf tracked by now. *)
StopAll(l) ==
    /\ At(l, "stopall")
    /\ leaf' = AfterCancel(book.tracked)
    /\ Goto(l, "drop")
    /\ UNCHANGED <<budget, book, stop, faults, pipe>>
-----------------------------------------------------------------------------
(* The node thread after the dispatch *)

BarrierOpens ==
    /\ At(0, "wait") /\ Settled = Item
    /\ Goto(0, "read")
    /\ UNCHANGED <<bookVars, pipe>>

(* PIPELINE_TIMEOUT: what the barrier strands are holes. *)
Expire ==
    /\ At(0, "wait") /\ Settled # Item
    /\ pipe' = [pipe EXCEPT !.expired = TRUE, !.holes = @ \cup (Item \ Settled),
                            !.sweep = pipe.spawned,
                            !.status = IF Paused /\ ~stop.cancel THEN "pause" ELSE "timeout"]
    /\ Goto(0, "mark")
    /\ UNCHANGED bookVars

NoteExpired ==
    /\ At(0, "mark")
    /\ book' = [book EXCEPT !.expired = pipe.status]
    /\ Goto(0, "sweep")
    /\ UNCHANGED <<budget, leaf, stop, faults, pipe>>

Sweep ==
    /\ At(0, "sweep")
    /\ \E l \in pipe.sweep :
         /\ \A k \in pipe.sweep : l <= k
         /\ CancelAndAccount(l)
         /\ pipe' = [pipe EXCEPT !.sweep = @ \ {l}]
    /\ UNCHANGED <<stop, job>>

(* await_quiescence waits a bounded while, so it may end at any time. *)
ExpiryFault ==
    /\ At(0, "sweep") /\ pipe.sweep = {}
    /\ faults' = faults \cup {Fault("expired", 0, IF pipe.status = "pause" THEN "pause" ELSE "counted")}
    /\ Goto(0, "read")
    /\ UNCHANGED <<budget, leaf, book, stop, pipe>>

(* run returns copies of the results and of the holes, taken in one hold. *)
Read ==
    /\ At(0, "read")
    /\ pipe' = [pipe EXCEPT !.published =
                  <<[results |-> [i \in Item |-> IF i \in Settled THEN pipe.results[i] ELSE "null"],
                     holes |-> pipe.holes]>>]
    /\ Goto(0, "settle")
    /\ UNCHANGED bookVars

(* _settle_pending: catch up, then give every leaf pending now its second  *)
(* chance.                                                                 *)
CatchUp ==
    /\ At(0, "settle")
    /\ book' = CaughtUp(book)
    /\ pipe' = [pipe EXCEPT !.sweep = DOMAIN book'.pending]
    /\ Goto(0, "seal")
    /\ UNCHANGED <<budget, leaf, stop, faults>>

SecondChance ==
    /\ At(0, "seal")
    /\ \E l \in pipe.sweep :
         /\ book' = Accounted(book, l, FALSE)
         /\ budget' = IF Bills(book, l) THEN ChargedFor(budget, l) ELSE budget
         /\ faults' = IF Bills(book, l) THEN faults \cup Overrun(budget, l) ELSE faults
         /\ pipe' = [pipe EXCEPT !.sweep = @ \ {l}]
    /\ UNCHANGED <<leaf, stop, job>>

Seal ==
    /\ At(0, "seal") /\ pipe.sweep = {}
    /\ book' = Sealed(book)
    /\ faults' = faults \cup StragglerFaults(book)
    /\ Goto(0, "verdict")
    /\ UNCHANGED <<budget, leaf, stop, pipe>>

(* An explicit cancel outranks a pause, and a pause the arithmetic: the    *)
(* node itself answered (a list), so only a fault degrades the run.        *)
Verdict ==
    /\ At(0, "verdict")
    /\ pipe' = [pipe EXCEPT !.status =
                  CASE stop.cancel -> "cancelled"
                    [] ~stop.cancel /\ Paused -> "paused"
                    [] OTHER -> IF \E f \in faults : f.door = "counted" \/ f.door = "pause"
                                THEN "degraded" ELSE "complete"]
    /\ Goto(0, "end")
    /\ UNCHANGED bookVars
-----------------------------------------------------------------------------
ThreadStep(t) ==
    \/ Advance(t) \/ Claim(t) \/ Spawn(t) \/ SpawnRaises(t) \/ Track(t) \/ AppendSpawned(t)
    \/ Strand(t) \/ Drop(t) \/ Finish(t)
HookStep(l) ==
    HookFires(l) \/ Charge(l) \/ Accept(l) \/ StageDone(l) \/ StopAll(l)
NodeStep ==
    \/ BarrierOpens \/ NoteExpired \/ Sweep \/ ExpiryFault \/ Read
    \/ CatchUp \/ SecondChance \/ Seal \/ Verdict

Environment ==
    /\ \/ \E l \in Leaves : LeafStarts(l) \/ LeafEnds(l)
       \/ RequestCancel \/ RequestPause
    /\ UNCHANGED <<job, pipe>>

Next ==
    \/ \E t \in Thread : ThreadStep(t) \/ HookStep(t)
    \/ NodeStep \/ Expire \/ Environment

Spec == Init /\ [][Next]_vars

(* The pools run what is submitted to them and a provider call returns; the *)
(* timeout and the operator are owed nothing.                              *)
Progress ==
    \/ \E t \in Thread : ThreadStep(t) \/ HookStep(t)
    \/ NodeStep
    \/ \E l \in Leaves : LeafStarts(l) /\ UNCHANGED <<job, pipe>>
    \/ \E l \in Leaves : LeafEnds(l) /\ UNCHANGED <<job, pipe>>

FairSpec == Spec /\ WF_vars(Progress)
-----------------------------------------------------------------------------
(* The books are the leaves'.  A lifetime slot is taken by a spawn under   *)
(* way or by a leaf, and free again only for a leaf whose turn was dropped *)
(* and whose account is closed; never more are taken than the run declared.*)
(* Once the books are sealed a leaf is accounted or a straggler, never     *)
(* both, and whatever still ends late, a turn that cost tokens is billed   *)
(* once or counted as uncertain (budget.py reserve, refund; engine.py      *)
(* account_leaf, _seal).                                                   *)
SlotsAreLeaves ==
    LET spawning == {t \in Thread : At(t, "spawn")}
        returned == {l \in book.accounted : leaf[l].status = "cancelled" /\ ~At(l, "charge")}
    IN  /\ budget.spawned = Cardinality(spawning) + Len(leaf) - Cardinality(returned)
        /\ budget.spawned <= Lifetime

Costly == {l \in book.accounted \cup book.stragglers : Cost(l) = 1}

SealedIsFinal ==
    book.sealed =>
        /\ book.accounted \cap book.stragglers = {}
        /\ book.tokens <= Cardinality(Costly)
        /\ Cardinality(Costly) <= book.tokens + book.uncertain

BooksAreTheLeaves == SlotsAreLeaves /\ SealedIsFinal

(* What the node reported is final.  The holes are exactly the items that  *)
(* came back null, and an answer has all its cells in the cache, whatever  *)
(* hooks were on their way when the barrier closed; and no leaf runs on    *)
(* that nobody stops: one still live was asked to, or the thread that      *)
(* spawned it is about to (strategies.py _finish, _drop, _expire,          *)
(* _advance's second look at the barrier, _cancel_running).                *)
ReportIsFinal ==
    /\ \A n \in DOMAIN pipe.published :
         LET p == pipe.published[n] IN
         /\ p.holes = {i \in Item : p.results[i] = "null"}
         /\ \A i \in Item \ p.holes : {i} \X Stage \subseteq pipe.cells
    /\ pipe.published # <<>> =>
         \A l \in Leaves :
             Live(l) => \/ leaf[l].asked
                        \/ \E t \in Thread : /\ job[t].pc \in {"track", "append", "strand"}
                                             /\ job[t].sub = l

(* Without the timeout the node still ends: every item is settled, by an   *)
(* answer, a death, a spent retry or a stop (strategies.py _advance,       *)
(* _stage_done, _hook).                                                    *)
Released == pipe.expired \/ At(0, "end")

BarrierReleases == <>Released
=============================================================================
