------------------------------ MODULE AgentTurn -------------------------------
(***************************************************************************)
(* One turn of an agent (agent/loop.py run_conversation): requests to the  *)
(* provider until it stops, the tools it asks for in between, against an   *)
(* interrupt raised by another thread, a signal that unwinds the turn, and *)
(* a provider whose stream may end anywhere.                               *)
(*                                                                         *)
(* A stream is what it has delivered so far: up to MaxSlots tool calls,    *)
(* each partial or whole, a finish reason and a receipt. The three stream  *)
(* readers of agent/client.py and the normalisers behind them are one      *)
(* operator, Reading, by dialect. A message is its role and the ids of the *)
(* calls it makes or answers; a request weighs as much as it has messages. *)
(* A history is its messages by the place each was appended at, and the    *)
(* next place: what is taken out of it leaves a gap.                       *)
(***************************************************************************)
EXTENDS Integers, Sequences, FiniteSets, Functions

CONSTANTS
    Dialect,        \* the provider APIs: a subset of {"chat", "anthropic", "responses"}
    MaxIterations,  \* agent.max_iterations
    Window,         \* messages beyond which the preflight compacts
    KeepFirst, KeepLast,  \* protect_first_n, protect_last_n
    MaxWorkers,     \* _MAX_TOOL_WORKERS
    MaxSlots,       \* bound: tool calls of one response
    MaxSteers       \* bound: texts steered into the turn

TurnAssumption ==
    /\ Dialect \subseteq {"chat", "anthropic", "responses"}
    /\ MaxIterations \in Nat /\ MaxSlots \in Nat /\ KeepFirst \in Nat /\ KeepLast \in Nat

VARIABLES
    mode,     \* [dialect, streams, forced, dispatch, sameFile]: how the turn was set up
    agent,    \* [interrupt, steers, inbox]
    hist,     \* [at: place -> message, next]
    turn,     \* the locals of run_conversation
    stream,   \* what the open response has delivered
    tools,    \* [queued, running, done, ran]: the batch, and every call ever started
    billed,   \* history: requests the providers charged for, calls and summaries
    asked     \* history: where the turn was when it was first told to stop

turnVars == <<mode, agent, hist, turn, stream, tools, billed, asked>>

Slot == 1..MaxSlots
Reason == {"stop", "tool_calls", "length", "pause"}
None == "none"

User == [role |-> "user", ids |-> {}, text |-> TRUE]
Said(ids, text) == [role |-> "assistant", ids |-> ids, text |-> text]
Result(id) == [role |-> "tool", ids |-> {id}, text |-> TRUE]

Plus(h, m) ==
    [at |-> [i \in DOMAIN h.at \cup {h.next} |-> IF i = h.next THEN m ELSE h.at[i]],
     next |-> h.next + 1]
Size(h) == Cardinality(DOMAIN h.at)

Silent == [slot |-> [k \in Slot |-> None], finish |-> None, receipt |-> FALSE]

TurnTypeOK ==
    /\ mode.dialect \in Dialect /\ {mode.streams, mode.forced, mode.dispatch, mode.sameFile} \subseteq BOOLEAN
    /\ agent.interrupt \in BOOLEAN /\ agent.inbox <= agent.steers /\ agent.steers \in 0..MaxSteers
    /\ \A i \in DOMAIN hist.at : hist.at[i].role \in {"user", "assistant", "tool"}
    /\ turn.pc \in {"top", "prepare", "send", "stream", "reply", "tools", "end", "dead"}
    /\ turn.n \in 0..MaxIterations /\ turn.total \in 0..MaxIterations
    /\ turn.stop \in Reason \cup {None} /\ turn.error \in BOOLEAN /\ turn.interrupted \in BOOLEAN
    /\ turn.complete \in BOOLEAN /\ turn.uncertain \in BOOLEAN /\ turn.latch \in BOOLEAN
    /\ stream.slot \in [Slot -> {None, "partial", "whole"}]
    /\ stream.finish \in Reason \cup {None} /\ stream.receipt \in BOOLEAN
    /\ tools.queued \cap tools.running = {}
    /\ billed \in [calls : 0..MaxIterations, summaries : 0..MaxIterations]

TurnInit ==
    /\ mode \in [dialect : Dialect, streams : BOOLEAN, forced : BOOLEAN, dispatch : BOOLEAN,
                sameFile : BOOLEAN]
    /\ agent = [interrupt |-> FALSE, steers |-> 0, inbox |-> 0]
    /\ hist = [at |-> [i \in {0} |-> User], next |-> 1]
    /\ turn = [pc |-> "top", n |-> 0, latch |-> FALSE, stop |-> None, error |-> FALSE,
               interrupted |-> FALSE, total |-> 0, complete |-> TRUE, uncertain |-> FALSE]
    /\ stream = Silent
    /\ tools = [queued |-> {}, running |-> {}, done |-> {}, ran |-> <<>>]
    /\ billed = [calls |-> 0, summaries |-> 0]
    /\ asked = [n |-> MaxIterations, dispatched |-> TRUE]

Live == turn.pc \notin {"end", "dead"}
At(pc) == turn.pc = pc

(* finally: the request to stop is consumed by the turn it stops. *)
Ends(with) ==
    /\ turn' = [with EXCEPT !.pc = "end"]
    /\ agent' = [agent EXCEPT !.interrupt = FALSE]
-----------------------------------------------------------------------------
(* Other threads *)

RequestInterrupt ==
    /\ Live /\ ~agent.interrupt
    /\ agent' = [agent EXCEPT !.interrupt = TRUE]
    /\ asked' = [n |-> turn.n, dispatched |-> turn.pc \notin {"stream", "reply"}]
    /\ UNCHANGED <<mode, hist, turn, stream, tools, billed>>

Steer ==
    /\ Live /\ agent.steers < MaxSteers
    /\ agent' = [agent EXCEPT !.steers = @ + 1, !.inbox = @ + 1]
    /\ UNCHANGED <<mode, hist, turn, stream, tools, billed, asked>>
-----------------------------------------------------------------------------
(* Before a request *)

Top ==
    /\ At("top")
    /\ IF turn.n = MaxIterations
         THEN Ends([turn EXCEPT !.error = TRUE])
         ELSE IF agent.interrupt
           THEN Ends([turn EXCEPT !.interrupted = TRUE])
           ELSE turn' = [turn EXCEPT !.pc = "prepare"] /\ UNCHANGED agent
    /\ UNCHANGED <<mode, hist, stream, tools, billed, asked>>

(* _strip_orphan_tools: a result without its call goes, a call without its *)
(* result goes, and a message that says nothing else goes with it.         *)
StripOrphans(at) ==
    LET Ids(role) == UNION {at[i].ids : i \in {j \in DOMAIN at : at[j].role = role}}
        Stays(m) == CASE m.role = "tool" -> m.ids \subseteq Ids("assistant")
                      [] m.role = "assistant" ->
                             m.ids = {} \/ m.ids \cap Ids("tool") # {} \/ m.text
                      [] OTHER -> TRUE
        Trim(m) == IF m.role = "assistant" THEN [m EXCEPT !.ids = @ \cap Ids("tool")] ELSE m
    IN  [i \in {j \in DOMAIN at : Stays(at[j])} |-> Trim(at[i])]

\* The messages up to a place.
Rank(h, i) == Cardinality({j \in DOMAIN h.at : j <= i})
First(h) == {i \in DOMAIN h.at : Rank(h, i) <= KeepFirst}
Last(h) == {i \in DOMAIN h.at : Rank(h, i) > Size(h) - KeepLast}

\* The summary takes the place of the first message that goes.
Around(h, middle) ==
    LET head == StripOrphans(Restrict(h.at, First(h)))
        tail == StripOrphans(Restrict(h.at, Last(h)))
    IN  [at |-> [i \in DOMAIN head \cup {middle} \cup DOMAIN tail |->
            IF i \in DOMAIN head THEN head[i] ELSE IF i \in DOMAIN tail THEN tail[i] ELSE User],
         next |-> h.next]

Compress(h) ==
    IF Size(h) <= KeepFirst + KeepLast THEN {h}
    ELSE {Around(h, i) : i \in {j \in DOMAIN h.at : Rank(h, j) = KeepFirst + 1}}

Summarised == [billed EXCEPT !.summaries = @ + 1]

(* What was steered is said as one message. Compaction is tried unless it  *)
(* has failed, or did not help, in this turn. Its summary is a request of  *)
(* its own, whose usage nobody reads; it may fail, also after it was       *)
(* charged for.                                                            *)
Prepare ==
    LET ms == IF agent.inbox > 0 THEN Plus(hist, User) ELSE hist
        long == Size(ms) > KeepFirst + KeepLast
    IN  /\ At("prepare")
        /\ agent' = [agent EXCEPT !.inbox = 0]
        /\ IF ~turn.latch /\ Size(ms) > Window
             THEN \/ \E small \in Compress(ms) :
                       /\ hist' = small /\ billed' = IF long THEN Summarised ELSE billed
                       /\ turn' = [turn EXCEPT !.pc = "send", !.latch = Size(small) >= Size(ms)]
                  \/ /\ long /\ billed' \in {billed, Summarised}
                     /\ hist' = ms /\ turn' = [turn EXCEPT !.pc = "send", !.latch = TRUE]
             ELSE hist' = ms /\ turn' = [turn EXCEPT !.pc = "send"] /\ UNCHANGED billed
        /\ UNCHANGED <<mode, stream, tools, asked>>

Send ==
    /\ At("send")
    /\ stream' = Silent
    /\ \/ billed' = [billed EXCEPT !.calls = @ + 1] /\ UNCHANGED agent
          /\ turn' = [turn EXCEPT !.pc = "stream", !.n = @ + 1]
       \/ UNCHANGED billed   \* refused, or unreachable
          /\ Ends([turn EXCEPT !.n = @ + 1, !.error = TRUE, !.complete = FALSE])
    /\ UNCHANGED <<mode, hist, tools, asked>>
-----------------------------------------------------------------------------
(* The response *)

(* abort_gate: read before each event and at the end of the stream; a call *)
(* that does not stream has no such point.                                 *)
Gate == mode.streams /\ agent.interrupt

Abort ==
    /\ At("stream") /\ Gate
    /\ Ends([turn EXCEPT !.interrupted = TRUE, !.uncertain = TRUE, !.complete = FALSE])
    /\ UNCHANGED <<mode, hist, stream, tools, billed, asked>>

Deliver ==
    /\ At("stream") /\ ~Gate
    /\ \E k \in Slot, part \in {"partial", "whole"} :
         /\ stream.slot[k] # "whole" /\ stream.slot[k] # part
         /\ \A j \in 1..k - 1 : stream.slot[j] # None
         /\ stream' = [stream EXCEPT !.slot[k] = part]
    /\ UNCHANGED <<mode, agent, hist, turn, tools, billed, asked>>

(* A read timeout or a broken connection: nothing of the answer is kept.   *)
Break ==
    /\ At("stream") /\ ~Gate
    /\ Ends([turn EXCEPT !.error = TRUE, !.complete = FALSE])
    /\ UNCHANGED <<mode, hist, stream, tools, billed, asked>>

Delivered(got) == {k \in Slot : got.slot[k] # None}
Whole(got) == {k \in Slot : got.slot[k] = "whole"}
Answer(finish, slots, receipt) ==
    [kind |-> "answer", finish |-> finish, slots |-> slots, receipt |-> receipt]
Refused(receipt) == [kind |-> "refused", finish |-> None, slots |-> {}, receipt |-> receipt]

(* What each reader makes of a stream at its end. Without a terminal it is *)
(* an error, and calls without the authority to run are refused; the chat  *)
(* reader drops them when the finish is not a tool finish. A refusal by    *)
(* the normaliser keeps the receipt, one by the reader loses it. What is   *)
(* not streamed has no reader: only the normaliser refuses.                *)
Reading(got) ==
    LET whole == Whole(got) = Delivered(got) /\ Whole(got) # {} IN
    CASE got.finish = None -> Refused(~mode.streams /\ got.receipt)
      [] got.finish # None /\ mode.dialect = "chat" /\ mode.streams ->
           CASE got.finish = "pause" -> Refused(got.receipt)
             [] got.finish = "tool_calls" /\ ~whole -> Refused(FALSE)
             [] OTHER -> Answer(got.finish, IF got.finish = "tool_calls" THEN Whole(got) ELSE {},
                                got.receipt)
      [] got.finish # None /\ mode.dialect = "chat" /\ ~mode.streams ->
           IF got.finish = "pause" \/ (Delivered(got) # {} /\ got.finish # "tool_calls")
           THEN Refused(got.receipt)
           ELSE Answer(got.finish, Delivered(got), got.receipt)
      [] got.finish # None /\ mode.dialect = "anthropic" ->
           IF Delivered(got) # {} /\ got.finish # "tool_calls" THEN Refused(got.receipt)
           ELSE Answer(got.finish, Delivered(got), got.receipt)
      [] got.finish # None /\ mode.dialect = "responses" ->
           CASE got.finish \notin {"stop", "length"} -> Refused(got.receipt)
             [] Delivered(got) = {} -> Answer(got.finish, {}, got.receipt)
             [] got.finish = "stop" /\ whole -> Answer("tool_calls", Whole(got), got.receipt)
             [] OTHER -> Refused(got.receipt)

Metered(t, receipt) == [t EXCEPT !.total = @ + (IF receipt THEN 1 ELSE 0)]

\* Mutant: the last receipt speaks for the turn.
Completed_Last(t, receipt) == receipt

\* One call without a receipt, and the meter stays incomplete.
Completed(t, receipt) == t.complete /\ receipt

(* The terminal, when there is one, and the receipt come last. *)
EndOfStream ==
    /\ At("stream") /\ ~Gate
    /\ \E finish \in Reason \cup {None}, receipt \in BOOLEAN :
         LET got == [stream EXCEPT !.finish = finish, !.receipt = receipt]
             read == Reading(got)
         IN  /\ stream' = got
             /\ IF read.kind = "refused"
                  THEN Ends([Metered(turn, read.receipt) EXCEPT !.error = TRUE, !.complete = FALSE])
                  ELSE /\ turn' = [Metered(turn, receipt) EXCEPT !.pc = "reply",
                                                                !.complete = Completed(turn, receipt)]
                       /\ UNCHANGED agent
    /\ UNCHANGED <<mode, hist, tools, billed, asked>>

Answered == Reading(stream)
Ids == {<<turn.n, k>> : k \in Answered.slots}

\* Incomplete calls are a protocol error, before anything is appended.
Dangling == Answered.finish = "tool_calls" /\ (Answered.slots = {} \/ ~(Answered.slots \subseteq Whole(stream)))

(* The call the provider was told to make is the answer, kept as plain     *)
(* text: no result follows it. When it made others instead, or none, the   *)
(* response is read as any other.                                          *)
ForcedAnswer(named) == mode.forced /\ named /\ Answered.slots # {}

\* Mutant: the flag that was read before the request decides.
MayDispatch_Stale == TRUE

MayDispatch == ~agent.interrupt

Reply ==
    /\ At("reply")
    /\ \E text \in BOOLEAN, named \in BOOLEAN :   \* named: one call has the forced name
       LET said == Plus(hist, Said(Ids, text)) IN
       CASE Dangling ->
              /\ Ends([turn EXCEPT !.error = TRUE])
              /\ UNCHANGED <<hist, tools>>
         [] ~Dangling /\ ForcedAnswer(named) ->
              /\ Ends([turn EXCEPT !.stop = "stop"])
              /\ hist' = Plus(hist, Said({}, TRUE)) /\ UNCHANGED tools
         [] ~Dangling /\ ~ForcedAnswer(named) /\ Answered.finish = "tool_calls" /\ mode.dispatch ->
              IF MayDispatch
                THEN /\ turn' = [turn EXCEPT !.pc = "tools"] /\ hist' = said
                     /\ tools' = [tools EXCEPT !.queued = Ids, !.done = {}]
                     /\ UNCHANGED agent
                ELSE /\ Ends([turn EXCEPT !.interrupted = TRUE])
                     /\ UNCHANGED <<hist, tools>>
         [] ~Dangling /\ ~ForcedAnswer(named) /\ Answered.finish = "pause" ->
              /\ turn' = [turn EXCEPT !.pc = "top"] /\ hist' = said
              /\ UNCHANGED <<agent, tools>>
         [] OTHER ->   \* also calls that nobody is there to dispatch
              /\ Ends([turn EXCEPT !.stop = Answered.finish]) /\ hist' = said
              /\ UNCHANGED tools
    /\ UNCHANGED <<mode, stream, billed, asked>>
-----------------------------------------------------------------------------
(* The tools of one response, on the pool's threads *)

\* tool_call_batches: calls on one file are one queue, in emitted order.
Before(id) == {d \in tools.queued \cup tools.running : mode.sameFile /\ d[2] < id[2]}

Run(id) ==
    /\ id \in tools.queued /\ Before(id) = {} /\ Cardinality(tools.running) < MaxWorkers
    /\ tools' = [tools EXCEPT !.queued = @ \ {id}, !.running = @ \cup {id},
                              !.ran = Append(@, id)]
    /\ UNCHANGED <<mode, agent, hist, turn, stream, billed, asked>>

(* A tool returns, or raises: either way there is a result. *)
Return(id) ==
    /\ id \in tools.running
    /\ tools' = [tools EXCEPT !.running = @ \ {id}, !.done = @ \cup {id}]
    /\ UNCHANGED <<mode, agent, hist, turn, stream, billed, asked>>

(* The results are appended in emitted order, whatever order they came in. *)
Join ==
    LET places == {hist.next + id[2] : id \in tools.done} IN
    /\ At("tools") /\ tools.queued = {} /\ tools.running = {}
    /\ hist' = [at |-> [i \in DOMAIN hist.at \cup places |->
                   IF i \in places THEN Result(<<turn.n, i - hist.next>>) ELSE hist.at[i]],
                next |-> hist.next + MaxSlots + 1]
    /\ turn' = [turn EXCEPT !.pc = "top"]
    /\ UNCHANGED <<mode, agent, stream, tools, billed, asked>>

(* SIGTERM or SIGHUP in the thread of the turn: it unwinds without waiting *)
(* for the tools in flight, and no queued one starts any more.             *)
Signal ==
    /\ Live
    /\ turn' = [turn EXCEPT !.pc = "dead"]
    /\ agent' = [agent EXCEPT !.interrupt = FALSE]
    /\ tools' = [tools EXCEPT !.queued = {}]
    /\ UNCHANGED <<mode, hist, stream, billed, asked>>

TurnNext ==
    \/ RequestInterrupt \/ Steer \/ Top \/ Prepare \/ Send
    \/ Abort \/ Deliver \/ Break \/ EndOfStream \/ Reply \/ Join \/ Signal
    \/ \E id \in tools.queued : Run(id)
    \/ \E id \in tools.running : Return(id)

TurnSpec == TurnInit /\ [][TurnNext]_turnVars
-----------------------------------------------------------------------------
\* A turn with nobody to dispatch its calls hands them back as it got them.
Undispatched ==
    /\ At("end") /\ turn.stop = "tool_calls" /\ ~mode.dispatch
    /\ \E i \in DOMAIN hist.at :
         i = hist.next - 1 /\ hist.at[i].role = "assistant" /\ hist.at[i].ids # {}

Told == {i \in DOMAIN hist.at : Undispatched => i < hist.next - 1}

Answers(i) ==
    {m \in Told : m > i /\ \A j \in Told : i < j /\ j <= m => hist.at[j].role = "tool"}

(* Every request, and every history a turn hands back, is one a provider   *)
(* replays: each call is followed by its results, each result follows its  *)
(* call, through compaction, interrupts and forced answers. Only a turn    *)
(* without a dispatcher may end on calls that have no results, and then    *)
(* only its last message (agent/loop.py, context.py _strip_orphan_tools).  *)
HistoryReplays ==
    turn.pc \in {"stream", "end"} =>
      /\ \A i \in Told : hist.at[i].role = "assistant" =>
           UNION {hist.at[m].ids : m \in Answers(i)} = hist.at[i].ids
      /\ \A m \in Told : hist.at[m].role = "tool" =>
           \E i \in Told : m \in Answers(i) /\ hist.at[i].role = "assistant"

(* A tool runs once, only as a whole call of a response that ended and     *)
(* declared it, never for a response still to come when the turn was told  *)
(* to stop, and after the calls before it on the same file; nor does such  *)
(* a turn send more than the one request it had begun to prepare           *)
(* (agent/loop.py, agent/tool_batches.py, agent/client.py).                *)
ToolsRunAsAsked ==
    /\ \A i, j \in DOMAIN tools.ran : i < j =>
         /\ tools.ran[i] # tools.ran[j]
         /\ mode.sameFile /\ tools.ran[i][1] = tools.ran[j][1] => tools.ran[i][2] < tools.ran[j][2]
    /\ \A id \in tools.queued \cup tools.running :
         At("tools") => stream.slot[id[2]] = "whole" /\ stream.finish # None
    /\ \A id \in Range(tools.ran) :
         id[1] < asked.n \/ (id[1] = asked.n /\ asked.dispatched)
    /\ turn.n <= asked.n + 1

(* The meter of a turn is a floor of its bill, which the summaries of its  *)
(* compactions come on top of; when it says it is complete it misses these *)
(* and nothing else: an abort, a refusal or a missing receipt marks it     *)
(* (agent/loop.py usage_total, usage_uncertain, usage_complete).           *)
MeterIsAFloor ==
    /\ turn.total <= billed.calls
    /\ At("end") /\ turn.complete /\ turn.n > 0 /\ ~turn.uncertain /\ ~turn.error
       => turn.total = billed.calls
=============================================================================
