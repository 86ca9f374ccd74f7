---------------------------- MODULE StreamServer ----------------------------
(***************************************************************************)
(* The server's streamed answers (server/stream_bridge.py,                 *)
(* stream_workers.py, stream_response.py, cancellation.py and the two body *)
(* formatters of app.py). Each request has one producer thread, which runs *)
(* the agent, and one task of the HTTP loop, which starts the producer,    *)
(* writes its pieces and frames the end; a bounded queue and a one-shot    *)
(* wake-up join them. A shutdown and the host's clean-up act on them all.  *)
(*                                                                         *)
(* One step is one lock section, or what the loop does between two awaits. *)
(* A piece is its number in the answer: texts and wire formats are left    *)
(* out. The service is one that binds cancellation (run_cancellable).      *)
(***************************************************************************)
EXTENDS Integers, Sequences, FiniteSets

CONSTANTS
    Request,
    Workers,   \* StreamLimits.workers
    Depth,     \* StreamLimits.pieces
    Nobody,    \* no request
    Answer     \* bound: the most pieces an answer has

StreamAssumption ==
    Workers \in Nat \ {0} /\ Depth \in Nat \ {0} /\ Answer \in Nat /\ Nobody \notin Request

VARIABLES
    bridge,    \* [Request -> the state of its StreamBridge and cancellation]
    prod,      \* [Request -> its producer thread]
    http,      \* [Request -> its task of the loop]
    workers,   \* the inventory: reserved, running and draining producers
    host       \* admission, shutdown and clean-up

streamVars == <<bridge, prod, http, workers, host>>

Disposition == {"none", "completed", "failed", "cancelled"}
Reading == {"read", "wait", "write", "frame"}
Closing == {"close", "signal", "clear"}

StreamTypeOK ==
    /\ \A r \in Request :
         /\ bridge[r].queue \in Seq(1..Answer) /\ Len(bridge[r].queue) =< Depth
         /\ bridge[r].disp \in Disposition
         /\ prod[r].pc \in {"none", "started", "bound", "putting", "wound", "publish", "tail",
                            "ended"}
         /\ http[r].pc \in {"idle", "launch", "launched", "drain", "done", "refused"}
                             \cup Reading \cup Closing
    /\ workers \subseteq Request
    /\ host.pc \in {"up", "wait", "down"} \cup Closing /\ host.todo \subseteq Request

StreamInit ==
    /\ bridge = [r \in Request |->
                   [queue |-> <<>>, closed |-> FALSE, disp |-> "none", receipt |-> FALSE,
                    pending |-> FALSE, ready |-> FALSE,
                    cancelled |-> FALSE, bound |-> FALSE, interrupted |-> FALSE]]
    /\ prod = [r \in Request |-> [pc |-> "none", size |-> 0, made |-> 0, fate |-> "completed"]]
    /\ http = [r \in Request |-> [pc |-> "idle", launching |-> FALSE, cancel |-> FALSE,
                                  sent |-> <<>>, piece |-> 0, terminal |-> "none"]]
    /\ workers = {}
    /\ host = [closed |-> FALSE, pc |-> "up", todo |-> {}, at |-> Nobody, cleaned |-> FALSE]

Alive(r) == prod[r].pc \notin {"none", "ended"}

\* Mutant: a thread whose receipt is out no longer counts.
Retained_UntilReceipt(r) == http[r].launching \/ (Alive(r) /\ ~bridge[r].receipt)

\* _reap_locked
Retained(r) == http[r].launching \/ Alive(r)
Reaped == {r \in workers : Retained(r)}

Goto(r, pc) == http' = [http EXCEPT ![r].pc = pc]
Step(r, pc) == prod' = [prod EXCEPT ![r].pc = pc]
-----------------------------------------------------------------------------
(* The bridge *)

\* _notify_locked and _notify: at most one callback is scheduled at a time.
Notified(b) == [b EXCEPT !.pending = TRUE]
Woken(b) == [b EXCEPT !.pending = FALSE, !.ready = TRUE]

Notify(r) ==
    /\ bridge[r].pending
    /\ bridge' = [bridge EXCEPT ![r] = Woken(@)]
    /\ UNCHANGED <<prod, http, workers, host>>

\* close(cancel=True): the delivery's first decision stands ...
Decided(b) == [b EXCEPT !.disp = IF b.disp = "none" THEN "cancelled" ELSE b.disp]

\* ... the sticky signal reaches the agent bound now, or the one that will be ...
Signalled(b) == [b EXCEPT !.cancelled = TRUE, !.interrupted = b.interrupted \/ b.bound]

\* ... and only then is a producer that waits for room let go.
Cleared(b) == Notified([b EXCEPT !.closed = TRUE, !.queue = <<>>])

\* One of the three sections of close, and where it leads.
CloseStep(r, pc, cancel, next) ==
    \/ /\ pc = "close" /\ next = (IF cancel THEN "signal" ELSE "clear")
       /\ bridge' = IF cancel THEN [bridge EXCEPT ![r] = Decided(@)] ELSE bridge
    \/ /\ pc = "signal" /\ next = "clear"
       /\ bridge' = [bridge EXCEPT ![r] = Signalled(@)]
    \/ /\ pc = "clear" /\ next = "closed"
       /\ bridge' = [bridge EXCEPT ![r] = Cleared(@)]
-----------------------------------------------------------------------------
(* The producer thread *)

(* The agent is bound under the lock; a cancellation that came first is    *)
(* delivered at once.                                                      *)
Bind(r) ==
    /\ prod[r].pc = "started"
    /\ \E n \in 0..Answer, fate \in {"completed", "failed"} :
         prod' = [prod EXCEPT ![r] = [@ EXCEPT !.pc = "bound", !.size = n, !.fate = fate]]
    /\ bridge' = [bridge EXCEPT ![r] = [@ EXCEPT !.bound = TRUE,
                         !.interrupted = bridge[r].interrupted \/ bridge[r].cancelled]]
    /\ UNCHANGED <<http, workers, host>>

Offer(r) ==
    /\ prod[r].pc = "bound" /\ prod[r].made < prod[r].size /\ ~bridge[r].interrupted
    /\ Step(r, "putting")
    /\ UNCHANGED <<bridge, http, workers, host>>

\* put: waits while there is no room and something to wait for.
Put(r) ==
    LET b == bridge[r]  over == b.closed \/ b.receipt
    IN  /\ prod[r].pc = "putting"
        /\ over \/ Len(b.queue) < Depth
        /\ prod' = [prod EXCEPT ![r] = [@ EXCEPT !.pc = "bound", !.made = prod[r].made + 1]]
        /\ bridge' = IF over THEN bridge
                     ELSE [bridge EXCEPT ![r] =
                             Notified([@ EXCEPT !.queue = Append(b.queue, prod[r].made + 1)])]
        /\ UNCHANGED <<http, workers, host>>

\* The conversation ends, by itself or because its agent saw the interrupt.
Unbind(r) ==
    /\ prod[r].pc = "bound"
    /\ prod[r].made = prod[r].size \/ prod[r].fate = "failed" \/ bridge[r].interrupted
    /\ prod' = [prod EXCEPT ![r] = [@ EXCEPT !.pc = "wound",
                                    !.fate = IF bridge[r].interrupted THEN "cancelled" ELSE prod[r].fate]]
    /\ bridge' = [bridge EXCEPT ![r].bound = FALSE]
    /\ UNCHANGED <<http, workers, host>>

\* CompletionService._run: a request cancelled by now has no completion.
Conclude(r) ==
    /\ prod[r].pc = "wound"
    /\ prod' = [prod EXCEPT ![r] = [@ EXCEPT !.pc = "publish",
                                    !.fate = IF bridge[r].cancelled THEN "cancelled" ELSE prod[r].fate]]
    /\ UNCHANGED <<bridge, http, workers, host>>

\* Mutant: the receipt wakes nobody.
Published_Quietly(b, fate) ==
    [b EXCEPT !.receipt = TRUE, !.disp = IF b.disp = "none" THEN fate ELSE b.disp]

Published(b, fate) ==
    Notified([b EXCEPT !.receipt = TRUE, !.disp = IF b.disp = "none" THEN fate ELSE b.disp])

Publish(r) ==
    /\ prod[r].pc = "publish"
    /\ bridge' = [bridge EXCEPT ![r] = Published(@, prod[r].fate)]
    /\ Step(r, "tail")
    /\ UNCHANGED <<http, workers, host>>

Exit(r) ==
    /\ prod[r].pc = "tail"
    /\ Step(r, "ended")
    /\ UNCHANGED <<bridge, http, workers, host>>
-----------------------------------------------------------------------------
(* The request's task of the HTTP loop *)

\* Admission, under the lock: closed or full is a 503 before any header.
Admit(r) ==
    /\ http[r].pc = "idle"
    /\ IF host.closed \/ Cardinality(Reaped) >= Workers
         THEN Goto(r, "refused") /\ workers' = Reaped
         ELSE /\ http' = [http EXCEPT ![r] = [@ EXCEPT !.pc = "launch", !.launching = TRUE]]
              /\ workers' = Reaped \cup {r}
    /\ UNCHANGED <<bridge, prod, host>>

(* thread.start() succeeds, or raises before the thread runs, or raises    *)
(* after it does: only the second gives the slot back.                     *)
Launch(r) ==
    /\ http[r].pc = "launch"
    /\ \E runs, raises \in BOOLEAN :
         /\ runs \/ raises
         /\ prod' = IF runs THEN [prod EXCEPT ![r].pc = "started"] ELSE prod
         /\ http' = [http EXCEPT ![r] = [@ EXCEPT !.pc = IF raises THEN "close" ELSE "launched",
                                                  !.cancel = raises]]
         /\ workers' = IF runs THEN workers ELSE workers \ {r}
    /\ UNCHANGED <<bridge, host>>

Launched(r) ==
    /\ http[r].pc = "launched"
    /\ http' = [http EXCEPT ![r] = [@ EXCEPT !.pc = "read", !.launching = FALSE]]
    /\ UNCHANGED <<bridge, prod, workers, host>>

\* Mutant: a receipt ends the reading before the queue is drained.
Over_AtReceipt(b) == b.closed \/ b.receipt

\* deltas: what is queued first, then the end.
Over(b) == b.queue = <<>> /\ (b.closed \/ b.receipt)

Read(r) ==
    LET b == bridge[r]
    IN  /\ http[r].pc = "read"
        /\ \/ Over(b) /\ Goto(r, "frame") /\ UNCHANGED bridge
           \/ /\ ~Over(b) /\ b.queue # <<>>
              /\ http' = [http EXCEPT ![r] = [@ EXCEPT !.pc = "write", !.piece = Head(b.queue)]]
              /\ bridge' = [bridge EXCEPT ![r].queue = Tail(@)]
           \/ /\ ~Over(b) /\ b.queue = <<>>
              /\ Goto(r, "wait") /\ bridge' = [bridge EXCEPT ![r].ready = FALSE]
        /\ UNCHANGED <<prod, workers, host>>

Wake(r) ==
    /\ http[r].pc = "wait" /\ bridge[r].ready
    /\ Goto(r, "read")
    /\ UNCHANGED <<bridge, prod, workers, host>>

\* The client takes a piece when it pleases.
Write(r) ==
    /\ http[r].pc = "write"
    /\ http' = [http EXCEPT ![r] = [@ EXCEPT !.pc = "read", !.sent = Append(http[r].sent, http[r].piece)]]
    /\ UNCHANGED <<bridge, prod, workers, host>>

\* _stream and _responses_stream: only a completed delivery is framed as one.
Frame(r) ==
    /\ http[r].pc = "frame"
    /\ http' = [http EXCEPT ![r] = [@ EXCEPT !.pc = "close",
         !.terminal = IF bridge[r].receipt /\ bridge[r].disp = "completed" THEN "stop" ELSE "error"]]
    /\ UNCHANGED <<bridge, prod, workers, host>>

\* The client disconnects, its send fails, or the task is cancelled.
Leave(r) ==
    /\ http[r].pc \in Reading
    /\ http' = [http EXCEPT ![r] = [@ EXCEPT !.pc = "close", !.cancel = TRUE]]
    /\ UNCHANGED <<bridge, prod, workers, host>>

\* The finally of __call__, or of a start that raised (then a 503 and no drain).
Close(r) ==
    \E next \in {"signal", "clear", "closed"} :
      /\ CloseStep(r, http[r].pc, http[r].cancel, next)
      /\ http' = [http EXCEPT ![r] =
                    IF next # "closed" THEN [@ EXCEPT !.pc = next]
                    ELSE [@ EXCEPT !.pc = IF http[r].launching THEN "refused" ELSE "drain",
                                   !.launching = FALSE]]
      /\ UNCHANGED <<prod, workers, host>>

\* The drain is bounded: it may end before the thread does.
Drained(r) ==
    /\ http[r].pc = "drain"
    /\ Goto(r, "done")
    /\ UNCHANGED <<bridge, prod, workers, host>>
-----------------------------------------------------------------------------
(* The host: shutdown, and the shared client's clean-up *)

Shutdown ==
    /\ host.pc = "up"
    /\ workers' = Reaped
    /\ host' = [host EXCEPT !.closed = TRUE, !.todo = Reaped,
                            !.pc = IF Reaped = {} THEN "wait" ELSE "close"]
    /\ UNCHANGED <<bridge, prod, http>>

(* The inventory's bridges are closed one after the other. *)
ShutdownClose ==
    \E r \in host.todo, next \in {"signal", "clear", "closed"} :
      /\ host.pc = "close" \/ host.at = r
      /\ CloseStep(r, host.pc, TRUE, next)
      /\ host' = [host EXCEPT
           !.at = IF next = "closed" THEN Nobody ELSE r,
           !.todo = IF next = "closed" THEN @ \ {r} ELSE @,
           !.pc = IF next # "closed" THEN next ELSE IF host.todo = {r} THEN "wait" ELSE "close"]
      /\ UNCHANGED <<prod, http, workers>>

\* One collective deadline, whatever still drains.
ShutdownEnd ==
    /\ host.pc = "wait"
    /\ host' = [host EXCEPT !.pc = "down"] /\ workers' = Reaped
    /\ UNCHANGED <<bridge, prod, http>>

\* cleanup_if_idle
Cleanup ==
    /\ host.closed /\ Reaped = {} /\ ~host.cleaned
    /\ workers' = {} /\ host' = [host EXCEPT !.cleaned = TRUE]
    /\ UNCHANGED <<bridge, prod, http>>
-----------------------------------------------------------------------------
Producer(r) ==
    Bind(r) \/ Offer(r) \/ Put(r) \/ Unbind(r) \/ Conclude(r) \/ Publish(r) \/ Exit(r)

Task(r) ==
    Admit(r) \/ Launch(r) \/ Launched(r) \/ Read(r) \/ Wake(r) \/ Frame(r) \/ Close(r) \/ Drained(r)

StreamNext ==
    \/ \E r \in Request : Notify(r) \/ Producer(r) \/ Task(r) \/ Write(r) \/ Leave(r)
    \/ Shutdown \/ ShutdownClose \/ ShutdownEnd \/ Cleanup

(* Threads run and provider calls end; the loop runs its callbacks and the *)
(* tasks that can go on. No client has to read, nor to leave.              *)
StreamFairness ==
    \A r \in Request : /\ WF_streamVars(Notify(r)) /\ WF_streamVars(Producer(r))
                       /\ WF_streamVars(Task(r))

StreamSpec == StreamInit /\ [][StreamNext]_streamVars /\ StreamFairness
-----------------------------------------------------------------------------
(* Every live producer is in the inventory, which never exceeds its limit, *)
(* and the shared client is closed only when none is left nor to come: a   *)
(* published receipt, a start that raised late and a reservation whose     *)
(* thread has not begun all still count (_reap_locked, start,              *)
(* cleanup_if_idle).                                                       *)
ProducersAreOwned ==
    /\ {r \in Request : Alive(r)} \subseteq workers
    /\ Cardinality(workers) =< Workers
    /\ host.cleaned => \A r \in Request : ~Alive(r) /\ http[r].pc # "launch"

(* A client gets pieces of the answer in order, from the first, and is     *)
(* told "stop" only for an answer it has whole and that nobody cancelled   *)
(* before it completed; the one exception is a shutdown, which drops what  *)
(* is queued of an answer already complete (publish, close, deltas and the *)
(* two formatters).                                                        *)
WholeAnswers ==
    \A r \in Request :
      /\ http[r].sent = [i \in 1..Len(http[r].sent) |-> i]
      /\ http[r].terminal = "stop" =>
           /\ prod[r].fate = "completed" /\ bridge[r].disp = "completed"
           /\ Len(http[r].sent) = prod[r].size \/ host.closed

(* A reader that waits is woken for a piece or for the end, and once a     *)
(* response has closed its bridge the producer ends, however full its      *)
(* queue was and however little the client read (put, publish, close,      *)
(* _notify).                                                               *)
Waits(r) == http[r].pc = "wait"
Answered(r) == http[r].pc \in {"write", "frame"} \cup Closing
Responded(r) == http[r].pc \in {"drain", "done", "refused"}

StreamsMoveOn ==
    \A r \in Request :
      /\ Waits(r) ~> Answered(r)
      /\ Responded(r) ~> ~Alive(r)
=============================================================================
