-------------------------- MODULE OrchestrationCore ---------------------------
(***************************************************************************)
(* The registry of sub-sessions and its capped thread pool                 *)
(* (orchestration/core.py): spawn, steer, watch_done, cancel and shutdown  *)
(* on any thread, against the pool's workers. What happens under the       *)
(* core's lock is one action; what happens outside it is a step of its own.*)
(*                                                                         *)
(* A call that is refused without a trace is a stuttering step. Of a turn  *)
(* only its end matters; the meters, the causal identity and the frames it *)
(* observes are left out. A session is busy only inside its one worker     *)
(* (StatusTellsWork), so the busy hand-off of _run has no action.          *)
(***************************************************************************)
EXTENDS Integers, Sequences, FiniteSets

CONSTANTS
    Sub,         \* the sub-sessions a caller may spawn
    Worker,      \* threads of the pool (max_concurrent)
    Text,        \* texts a caller may steer with, each once
    Canceller,   \* threads inside cancel()
    MaxChildren, \* the registry's cap
    MaxGhosts    \* bound: queued calls whose submission was rejected

ASSUME CoreAssumption ==
    IsFiniteSet(Sub) /\ "none" \notin Sub /\ MaxChildren \in Nat \ {0} /\ MaxGhosts \in Nat

VARIABLES
    sub,      \* [Sub -> _SubSession]; future is the Future of its last submission
    children, \* SUBSET Sub: the registry
    work,     \* Seq([sub, accepted]): the calls queued on the pool
    inbox,    \* [Sub -> SUBSET Text]: accepted, not yet detached
    sent,     \* [Text -> {"no", "queued", "prompt"}]: what was made of the text
    told,     \* [Text -> Seq(Outcome)]: how its acceptance was settled
    worker,   \* [Worker -> WorkerRow]: where _run is
    closer,   \* [Canceller -> [at, sub]]: where cancel is
    exit      \* [at, wait, todo, sub]: where shutdown is

vars == <<sub, children, work, inbox, sent, told, worker, closer, exit>>

Terminal == {"complete", "error", "interrupted", "cancelled"}

Outcome == {"read", "discarded"}

WorkerRow == [at : {"idle", "loop", "turn", "settle", "drop", "fire", "hook"},
              sub : Sub \cup {"none"}, batch : SUBSET Text, outcome : Outcome, more : BOOLEAN]

SubRow == [status : Terminal \cup {"absent", "refused", "running"},
           landed : BOOLEAN, cancelled : BOOLEAN, accepting : BOOLEAN,
           hook : BOOLEAN, fired : BOOLEAN,
           future : {"none", "queued", "running", "done", "dropped"},
           born : Nat,      \* its place in the registry's insertion order
           ran : BOOLEAN]   \* history: some turn of it was started

TypeOK ==
    /\ sub \in [Sub -> SubRow]
    /\ children \subseteq Sub
    /\ work \in Seq([sub : Sub, accepted : BOOLEAN])
    /\ inbox \in [Sub -> SUBSET Text]
    /\ sent \in [Text -> {"no", "queued", "prompt"}]
    /\ told \in [Text -> Seq(Outcome)]
    /\ worker \in [Worker -> WorkerRow]
    /\ closer \in [Canceller -> [at : {"idle", "flagged", "discard", "settle", "fire"},
                              sub : Sub \cup {"none"}]]
    /\ exit \in [at : {"up", "stopping", "closed", "sweeping", "settling", "firing", "joining",
                     "down"},
                wait : BOOLEAN, todo : SUBSET Sub, sub : Sub \cup {"none"}]

Resting == [at |-> "idle", sub |-> "none", batch |-> {}, outcome |-> "read", more |-> FALSE]

AtRest == [at |-> "idle", sub |-> "none"]

Unspawned == [status |-> "absent", landed |-> FALSE, cancelled |-> FALSE, accepting |-> FALSE,
              hook |-> FALSE, fired |-> FALSE, future |-> "none", born |-> 0, ran |-> FALSE]

Init ==
    /\ sub = [c \in Sub |-> Unspawned]
    /\ children = {} /\ work = <<>>
    /\ inbox = [c \in Sub |-> {}]
    /\ sent = [t \in Text |-> "no"] /\ told = [t \in Text |-> <<>>]
    /\ worker = [w \in Worker |-> Resting]
    /\ closer = [k \in Canceller |-> AtRest]
    /\ exit = [at |-> "up", wait |-> FALSE, todo |-> {}, sub |-> "none"]

texts == <<inbox, sent, told>>

threads == <<worker, closer, exit>>

Known(c) == c \in children

PoolOpen == exit.at \in {"up", "stopping"}

Done(c) == sub[c].future \in {"done", "dropped"}

SubBecomes(c, row) == sub' = [sub EXCEPT ![c] = row]

Settle(batch, outcome) ==
    told' = [t \in Text |-> IF t \in batch THEN Append(told[t], outcome) ELSE told[t]]

\* discard_steers: detach the inbox, then settle what was in it.
Discard(c) ==
    /\ inbox' = [inbox EXCEPT ![c] = {}]
    /\ Settle(inbox[c], "discarded")

\* Mutant: a dropped turn is cancelled whatever ran before it.
CancelledStatus_Always(c) == "cancelled"

\* A bill that landed is kept: only what never ran is cancelled.
CancelledStatus(c) == IF sub[c].landed THEN "interrupted" ELSE "cancelled"

\* _fire_done under the lock: claim the hook and consume it.
FireDone(c) ==
    IF sub[c].hook /\ ~sub[c].fired
      THEN SubBecomes(c, [sub[c] EXCEPT !.hook = FALSE, !.fired = TRUE])
      ELSE UNCHANGED sub
-------------------------------------------------------------------------------
(* Callers: spawn, steer, steer_active, watch_done *)

\* Mutant: the status alone decides.
Evictable_Status(c) == sub[c].status \in Terminal

\* _evict_if_needed: the oldest settled entries beyond the cap.
Evictable(c) == sub[c].status \in Terminal /\ Done(c)

Kept ==
    LET over == {c \in children : Evictable(c)}
        older(c) == {d \in over : sub[d].born <= sub[c].born}
        excess == Cardinality(children) - MaxChildren + 1
    IN  children \ {c \in over : Cardinality(older(c)) <= excess}

Spawned == {c \in Sub : sub[c].future # "none"}

Spawn(c, hook) ==
    /\ sub[c].status = "absent" /\ PoolOpen
    /\ work' = Append(work, [sub |-> c, accepted |-> TRUE])
    /\ children' = Kept \cup {c}
    /\ SubBecomes(c, [sub[c] EXCEPT !.status = "running", !.future = "queued",
                        !.accepting = TRUE, !.hook = hook, !.born = Cardinality(Spawned) + 1])
    /\ UNCHANGED <<texts, threads>>

\* A submission may be queued and still raise, while the pool is open.
Rejected(c) ==
    \/ UNCHANGED work
    \/ /\ PoolOpen
       /\ Cardinality({i \in DOMAIN work : ~work[i].accepted}) < MaxGhosts
       /\ work' = Append(work, [sub |-> c, accepted |-> FALSE])

\* Its prepared row ends as spawn_rejected; nothing else is published.
SpawnRejected(c) ==
    /\ sub[c].status = "absent"
    /\ Rejected(c)
    /\ SubBecomes(c, [sub[c] EXCEPT !.status = "refused"])
    /\ UNCHANGED <<children, texts, threads>>

Enqueue(c, t) ==
    /\ sent[t] = "no"
    /\ sent' = [sent EXCEPT ![t] = "queued"]
    /\ inbox' = [inbox EXCEPT ![c] = @ \cup {t}]
    /\ UNCHANGED <<sub, children, work, told, threads>>

\* steer on a series that still reads its inbox.
SteerLive(c, t) ==
    /\ Known(c) /\ ~sub[c].cancelled /\ ~Done(c)
    /\ sub[c].accepting /\ sub[c].status \notin Terminal
    /\ Enqueue(c, t)

\* steer on an idle sub-session: a new turn, published with its permission.
SteerIdle(c, t) ==
    /\ Known(c) /\ ~sub[c].cancelled /\ Done(c) /\ PoolOpen
    /\ sent[t] = "no"
    /\ sent' = [sent EXCEPT ![t] = "prompt"]
    /\ work' = Append(work, [sub |-> c, accepted |-> TRUE])
    /\ SubBecomes(c, [sub[c] EXCEPT !.status = "running", !.future = "queued",
                        !.accepting = TRUE, !.fired = FALSE])
    /\ UNCHANGED <<children, inbox, told, threads>>

SteerRejected(c) ==
    /\ Known(c) /\ ~sub[c].cancelled /\ Done(c)
    /\ Rejected(c)
    /\ UNCHANGED <<sub, children, texts, threads>>

\* steer_active never starts a turn: it only asks whether one still accepts.
SteerActive(c, t) ==
    /\ Known(c) /\ ~sub[c].cancelled /\ sub[c].accepting
    /\ Enqueue(c, t)

WatchDone(c) ==
    /\ Known(c) /\ sub[c].status \notin Terminal /\ ~sub[c].hook
    /\ SubBecomes(c, [sub[c] EXCEPT !.hook = TRUE])
    /\ UNCHANGED <<children, work, texts, threads>>
-------------------------------------------------------------------------------
(* A worker of the pool, inside _run *)

WorkerBecomes(w, row) == worker' = [worker EXCEPT ![w] = row]

WorkerGoes(w, at) == WorkerBecomes(w, [worker[w] EXCEPT !.at = at])

\* Mutant: the permission of this one call is not asked.
MayRun_Unasked(item) ==
    Known(item.sub) /\ (item.accepted => sub[item.sub].future = "queued")

\* The pool skips a Future that was cancelled; _run returns at once from a
\* call that was never accepted, or whose sub-session is not registered.
MayRun(item) == item.accepted /\ sub[item.sub].future = "queued" /\ Known(item.sub)

TakeWork(w) ==
    /\ worker[w].at = "idle" /\ work # <<>>
    /\ work' = Tail(work)
    /\ LET item == Head(work) IN
       IF MayRun(item)
         THEN /\ WorkerBecomes(w, [worker[w] EXCEPT !.at = "loop", !.sub = item.sub])
              /\ SubBecomes(item.sub, [sub[item.sub] EXCEPT !.future = "running"])
         ELSE UNCHANGED <<worker, sub>>
    /\ UNCHANGED <<children, texts, closer, exit>>

\* The top of the loop, under the lock: one more turn unless cancelled.
BeginTurn(w) ==
    LET c == worker[w].sub IN
    /\ worker[w].at = "loop"
    /\ IF sub[c].cancelled
         THEN /\ SubBecomes(c, [sub[c] EXCEPT !.status = CancelledStatus(c), !.accepting = FALSE])
              /\ WorkerGoes(w, "drop")
         ELSE /\ SubBecomes(c, [sub[c] EXCEPT !.status = "running", !.fired = FALSE, !.ran = TRUE])
              /\ WorkerGoes(w, "turn")
    /\ UNCHANGED <<children, work, texts, closer, exit>>

\* The running turn reads its inbox between two calls to the provider.
ReadMidTurn(w) ==
    LET c == worker[w].sub IN
    /\ worker[w].at = "turn" /\ inbox[c] # {}
    /\ inbox' = [inbox EXCEPT ![c] = {}]
    /\ Settle(inbox[c], "read")
    /\ UNCHANGED <<sub, children, work, sent, threads>>

\* submit returned: finalise, capture the inbox, and continue or close, in
\* one hold. A turn is interrupted only after cancel or shutdown asked.
Land(w) ==
    LET c == worker[w].sub
        batch == inbox[c]
        more == batch # {} /\ ~sub[c].cancelled
    IN
    /\ worker[w].at = "turn"
    /\ \E end \in Terminal \ {"cancelled"} :
          /\ end = "interrupted" => sub[c].cancelled
          /\ SubBecomes(c, IF more
               THEN [sub[c] EXCEPT !.landed = TRUE, !.status = "running", !.fired = FALSE]
               ELSE [sub[c] EXCEPT !.landed = TRUE, !.status = end, !.accepting = FALSE])
    /\ inbox' = [inbox EXCEPT ![c] = {}]
    /\ WorkerBecomes(w, [worker[w] EXCEPT !.at = "settle", !.batch = batch, !.more = more,
                           !.outcome = IF sub[c].cancelled THEN "discarded" ELSE "read"])
    /\ UNCHANGED <<children, work, sent, told, closer, exit>>

\* The captured batch is settled outside the lock.
SettleBatch(w) ==
    /\ worker[w].at = "settle"
    /\ Settle(worker[w].batch, worker[w].outcome)
    /\ WorkerBecomes(w, [worker[w] EXCEPT !.at = IF worker[w].more THEN "loop" ELSE "fire",
                           !.batch = {}, !.more = FALSE, !.outcome = "read"])
    /\ UNCHANGED <<sub, children, work, inbox, sent, closer, exit>>

\* submit raised after the provider's answer.
TurnRaises(w) ==
    LET c == worker[w].sub IN
    /\ worker[w].at = "turn"
    /\ SubBecomes(c, [sub[c] EXCEPT !.status = "error", !.accepting = FALSE, !.landed = TRUE])
    /\ WorkerGoes(w, "drop")
    /\ UNCHANGED <<children, work, texts, closer, exit>>

DropInbox(w) ==
    /\ worker[w].at = "drop"
    /\ Discard(worker[w].sub)
    /\ WorkerGoes(w, "fire")
    /\ UNCHANGED <<sub, children, work, sent, closer, exit>>

WorkerFires(w) ==
    /\ worker[w].at = "fire"
    /\ FireDone(worker[w].sub)
    /\ WorkerGoes(w, "hook")
    /\ UNCHANGED <<children, work, texts, closer, exit>>

\* The hook, if any, returned, and _run with it: the Future is done.
WorkerReturns(w) ==
    /\ worker[w].at = "hook"
    /\ SubBecomes(worker[w].sub, [sub[worker[w].sub] EXCEPT !.future = "done"])
    /\ WorkerBecomes(w, Resting)
    /\ UNCHANGED <<children, work, texts, closer, exit>>
-------------------------------------------------------------------------------
(* cancel and shutdown *)

CloserGoes(k, at) == closer' = [closer EXCEPT ![k].at = at]

\* The flags, under the lock.
Flagged(who) ==
    [c \in Sub |-> IF c \in who THEN [sub[c] EXCEPT !.cancelled = TRUE, !.accepting = FALSE]
                   ELSE sub[c]]

Cancel(k, c) ==
    /\ closer[k].at = "idle" /\ Known(c)
    /\ sub' = Flagged({c})
    /\ closer' = [closer EXCEPT ![k] = [at |-> "flagged", sub |-> c]]
    /\ UNCHANGED <<children, work, texts, worker, exit>>

\* future.cancel(): true of a queued call and of one cancelled before;
\* otherwise the running turn is asked to stop.
CancelFuture(k) ==
    LET c == closer[k].sub IN
    /\ closer[k].at = "flagged"
    /\ IF sub[c].future \in {"queued", "dropped"}
         THEN SubBecomes(c, [sub[c] EXCEPT !.future = "dropped"]) /\ CloserGoes(k, "discard")
         ELSE UNCHANGED sub /\ closer' = [closer EXCEPT ![k] = AtRest]
    /\ UNCHANGED <<children, work, texts, worker, exit>>

CancelDiscards(k) ==
    /\ closer[k].at = "discard"
    /\ Discard(closer[k].sub)
    /\ CloserGoes(k, "settle")
    /\ UNCHANGED <<sub, children, work, sent, worker, exit>>

CancelSettles(k) ==
    LET c == closer[k].sub IN
    /\ closer[k].at = "settle"
    /\ SubBecomes(c, [sub[c] EXCEPT !.status = CancelledStatus(c)])
    /\ CloserGoes(k, "fire")
    /\ UNCHANGED <<children, work, texts, worker, exit>>

CancelFires(k) ==
    /\ closer[k].at = "fire"
    /\ FireDone(closer[k].sub)
    /\ closer' = [closer EXCEPT ![k] = AtRest]
    /\ UNCHANGED <<children, work, texts, worker, exit>>

\* _stop_all: flag every sub-session; the snapshot is what is left to do.
StopAll(at, wait) ==
    /\ sub' = Flagged(children)
    /\ exit' = [at |-> at, wait |-> wait, todo |-> children, sub |-> "none"]
    /\ UNCHANGED <<children, work, texts, worker, closer>>

Shutdown(wait) == exit.at = "up" /\ StopAll("stopping", wait)

\* _stop_all, one by one outside the lock; in which order is left open.
StopOne ==
    /\ exit.at \in {"stopping", "sweeping"}
    /\ \E c \in exit.todo :
          /\ Discard(c)
          /\ exit' = [exit EXCEPT !.todo = @ \ {c}]
    /\ UNCHANGED <<sub, children, work, sent, worker, closer>>

\* pool.shutdown: it refuses from here on; without wait it drops what is queued.
ClosePool ==
    /\ exit.at = "stopping" /\ exit.todo = {}
    /\ IF exit.wait
         THEN exit' = [exit EXCEPT !.at = "joining"] /\ UNCHANGED <<sub, work>>
         ELSE /\ exit' = [exit EXCEPT !.at = "closed"]
              /\ work' = <<>>
              /\ sub' = [c \in Sub |-> IF sub[c].future = "queued"
                                       THEN [sub[c] EXCEPT !.future = "dropped"] ELSE sub[c]]
    /\ UNCHANGED <<children, texts, worker, closer>>

\* The second sweep: it reads the registry again.
SweepAgain == exit.at = "closed" /\ StopAll("sweeping", exit.wait)

\* The sweep's snapshot is the registry still: only spawn changes that.
StartSettling ==
    /\ exit.at = "sweeping" /\ exit.todo = {}
    /\ exit' = [exit EXCEPT !.at = "settling", !.todo = children]
    /\ UNCHANGED <<sub, children, work, texts, worker, closer>>

\* _settle_dropped, on each: the status under the lock, then its hook.
SettleOne ==
    /\ exit.at = "settling"
    /\ \E c \in exit.todo :
          IF sub[c].future = "dropped"
            THEN /\ SubBecomes(c, [sub[c] EXCEPT !.status = CancelledStatus(c)])
                 /\ exit' = [exit EXCEPT !.at = "firing", !.todo = @ \ {c}, !.sub = c]
            ELSE UNCHANGED sub /\ exit' = [exit EXCEPT !.todo = @ \ {c}]
    /\ UNCHANGED <<children, work, texts, worker, closer>>

FireOne ==
    /\ exit.at = "firing"
    /\ FireDone(exit.sub)
    /\ exit' = [exit EXCEPT !.at = "settling", !.sub = "none"]
    /\ UNCHANGED <<children, work, texts, worker, closer>>

ShutdownReturns ==
    /\ \/ exit.at = "settling" /\ exit.todo = {}
       \/ /\ exit.at = "joining" /\ work = <<>>
          /\ \A w \in Worker : worker[w].at = "idle"
    /\ exit' = [exit EXCEPT !.at = "down"]
    /\ UNCHANGED <<sub, children, work, texts, worker, closer>>
-------------------------------------------------------------------------------
Caller ==
    \/ \E c \in Sub :
          \/ \E hook \in BOOLEAN : Spawn(c, hook)
          \/ SpawnRejected(c) \/ SteerRejected(c) \/ WatchDone(c)
          \/ \E t \in Text : SteerLive(c, t) \/ SteerIdle(c, t) \/ SteerActive(c, t)
    \/ \E k \in Canceller, c \in Sub : Cancel(k, c)
    \/ \E wait \in BOOLEAN : Shutdown(wait)

Work(w) ==
    \/ TakeWork(w) \/ BeginTurn(w) \/ Land(w) \/ TurnRaises(w) \/ SettleBatch(w)
    \/ DropInbox(w) \/ WorkerFires(w) \/ WorkerReturns(w)

Cancelling(k) == CancelFuture(k) \/ CancelDiscards(k) \/ CancelSettles(k) \/ CancelFires(k)

Exiting ==
    \/ StopOne \/ ClosePool \/ SweepAgain \/ StartSettling \/ SettleOne \/ FireOne
    \/ ShutdownReturns

Next ==
    \/ Caller \/ Exiting
    \/ \E w \in Worker : Work(w) \/ ReadMidTurn(w)
    \/ \E k \in Canceller : Cancelling(k)

\* Threads inside a call go on, and a turn ends: the provider answers or the
\* transport's timeout raises. Nobody is obliged to spawn, steer or cancel.
Fairness ==
    /\ \A w \in Worker : WF_vars(Work(w))
    /\ \A k \in Canceller : WF_vars(Cancelling(k))
    /\ WF_vars(Exiting)

Spec == Init /\ [][Next]_vars

FairSpec == Spec /\ Fairness
-------------------------------------------------------------------------------
(* Properties *)

\* What the rest of the engine sees of a sub-session.
statusOf == [c \in Sub |-> sub[c].status]

hookOf == [c \in Sub |-> sub[c].hook]

ranOf == [c \in Sub |-> sub[c].ran]

Promise == INSTANCE SubSession WITH status <- statusOf, hook <- hookOf, ran <- ranOf

\* The core keeps SubSession's promise: one call of each installed hook, on a
\* settled status, and "cancelled" only where no turn was ever started.
ImplementsSubSession == Promise!Spec

Owners(c) == {w \in Worker : worker[w].at # "idle" /\ worker[w].sub = c}

\* A terminal status is said only of idle work: no turn runs and none is queued,
\* and a sub-session never has two workers (so no turn ever finds it busy).
StatusTellsWork ==
    \A c \in Sub :
        /\ sub[c].status \in Terminal =>
              /\ sub[c].future # "queued"
              /\ \A w \in Owners(c) : worker[w].at \notin {"loop", "turn"}
        /\ (Owners(c) # {}) <=> (sub[c].future = "running")
        /\ \A v, w \in Owners(c) : v = w

\* Some thread still has to settle this dropped future.
BeingDropped(c) ==
    \/ \E k \in Canceller : closer[k].at # "idle" /\ closer[k].sub = c
    \/ exit.at \in {"closed", "sweeping"}
    \/ exit.at \in {"settling", "firing"} /\ c \in exit.todo \cup {exit.sub}

\* What no thread works on any more owes nothing: its status is terminal, its
\* hook was called and its inbox is empty. What was evicted is over at least:
\* only the thread that dropped it may still have its hook to call. And an
\* accepted steer is held in one place or was settled once, never both.
SettledOwesNothing ==
    /\ \A c \in Sub : sub[c].future # "none" =>
        /\ Done(c) /\ ~BeingDropped(c) =>
              /\ sub[c].status \in Terminal
              /\ ~sub[c].accepting /\ ~sub[c].hook /\ inbox[c] = {}
        /\ ~Known(c) => Done(c) /\ sub[c].status \in Terminal /\ inbox[c] = {}
    /\ \A t \in Text :
        Len(told[t]) + Cardinality({c \in Sub : t \in inbox[c]})
                     + Cardinality({w \in Worker : t \in worker[w].batch})
          = (IF sent[t] = "queued" THEN 1 ELSE 0)

\* An installed hook is called: no series is left for ever without its end.
Owed(c) == sub[c].hook

HookFires == \A c \in Sub : Owed(c) ~> ~Owed(c)

===============================================================================
