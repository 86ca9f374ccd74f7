------------------------------ MODULE AuditTrail ------------------------------
(***************************************************************************)
(* The audit trail of one process (workflow/audit.py): producers that never *)
(* wait, a bounded queue, gap markers for what was lost, one writer thread  *)
(* over a sink that may fail, and the thread inside shutdown().  Every      *)
(* event and every declared loss has an ordinal; a marker remembers which   *)
(* ordinals it stands for beside the count the code keeps.                  *)
(***************************************************************************)
EXTENDS Integers, Sequences, FiniteSets, SequencesExt, TLC

CONSTANTS
    QueueLimit,     \* queue_limit
    MaxBuckets,     \* max_drop_buckets
    LastTries,      \* MARKER_ATTEMPTS_AFTER_STOP
    MaxOrder        \* bound: ordinals handed out

TrailAssumption ==
    /\ QueueLimit \in Nat \ {0} /\ MaxBuckets \in Nat \ {0, 1}
    /\ LastTries \in Nat \ {0} /\ MaxOrder \in Nat

VARIABLES
    box,        \* what _state_lock and the queue protect
    writer,     \* the writer thread
    drain,      \* the list of a _final_marker_drain in progress
    closer,     \* the thread inside shutdown()
    sink        \* the ledger: the stream of this trail's run, and that of "$audit"

trailVars == <<box, writer, drain, closer, sink>>

Unknown == -1
NoEvent == 0
Key == {"queue_overflow", "sink_failure", "overflowed_buckets"} \X {0}
       \cup {"declared"} \X (1..MaxOrder)
Marker == [order: 1..MaxOrder, count: {Unknown} \cup 1..MaxOrder, orders: SUBSET (1..MaxOrder)]
NoMarker == [key |-> <<"none", 0>>, marker |-> [order |-> 0, count |-> 0, orders |-> {}]]

TrailInit ==
    /\ box = [accepting |-> TRUE, stop |-> FALSE, next |-> 1, queue |-> <<>>,
              unfinished |-> 0, markers |-> <<>>, inflight |-> FALSE]
    /\ writer = [at |-> "top", event |-> NoEvent, held |-> NoMarker, tries |-> 0,
                 quiet |-> FALSE]
    /\ drain = [list |-> <<>>, failed |-> 0]
    /\ closer = [at |-> "up", quiet |-> FALSE, clean |-> FALSE]
    /\ sink = [mine |-> TRUE, out |-> <<>>, common |-> <<>>, refused |-> {},
               gaveUp |-> FALSE]
-----------------------------------------------------------------------------
(* The markers. *)
Pending(b) == DOMAIN b.markers # {} \/ b.inflight

\* The bucket of what finds no room in the table: a run of its own, "$audit".
Common == <<"overflowed_buckets", 0>>

\* A second loss under the same key.
Merged(m, count, order) ==
    [order |-> IF order < m.order THEN order ELSE m.order,
     count |-> IF Unknown \in {m.count, count} THEN Unknown ELSE m.count + count,
     orders |-> m.orders \cup {order}]

\* The bucket a loss goes to: its own, or the common one when there are too many.
Bucket(b, wanted) ==
    IF \/ wanted \in DOMAIN b.markers
       \/ Cardinality(DOMAIN b.markers) < MaxBuckets - 1
    THEN wanted ELSE Common

\* _add_marker_locked
Added(b, wanted, count, order) ==
    LET key == Bucket(b, wanted)
        marker == IF key \in DOMAIN b.markers THEN Merged(b.markers[key], count, order)
                  ELSE [order |-> order, count |-> count, orders |-> {order}]
    IN  [b EXCEPT !.markers = (key :> marker) @@ @]

\* _next_marker: the marker of the oldest loss leaves the table.
Oldest(b) == CHOOSE k \in DOMAIN b.markers :
                 \A j \in DOMAIN b.markers : b.markers[k].order <= b.markers[j].order
Without(b, key) == [b EXCEPT !.markers = [k \in DOMAIN @ \ {key} |-> @[k]]]

PeekOrder(b) == b.markers[Oldest(b)].order

\* Is a marker due before the event in hand?
Precedes(b, order) == DOMAIN b.markers # {} /\ PeekOrder(b) < order
-----------------------------------------------------------------------------
(* Producers. *)

\* record: queued, or a marker in its place when the queue is full.
Record ==
    /\ box.accepting /\ box.next <= MaxOrder
    /\ LET b == [box EXCEPT !.next = @ + 1]
       IN  box' = IF Len(b.queue) < QueueLimit
                  THEN [b EXCEPT !.queue = Append(@, box.next), !.unfinished = @ + 1]
                  ELSE Added(b, <<"queue_overflow", 0>>, 1, box.next)
    /\ UNCHANGED <<writer, drain, closer, sink>>

\* record_gap, of a payload that could not be sanitised (one) or of an
\* unknown number of events.
RecordGap(count) ==
    /\ box.accepting /\ box.next <= MaxOrder
    /\ box' = Added([box EXCEPT !.next = @ + 1], <<"declared", box.next>>, count, box.next)
    /\ UNCHANGED <<writer, drain, closer, sink>>

\* Another process takes the run: its fence is no longer this process's.
LoseRun ==
    /\ sink.mine /\ sink' = [sink EXCEPT !.mine = FALSE]
    /\ UNCHANGED <<box, writer, drain, closer>>
-----------------------------------------------------------------------------
(* The sink. *)
Event(order) == [kind |-> "event", order |-> order, count |-> 0, orders |-> {order}]
Gap(marker) == [kind |-> "gap", order |-> marker.order, count |-> marker.count,
                orders |-> marker.orders]

\* _write that returns: stored, or refused because the run is somebody else's.
Settled(s, entry) ==
    IF s.mine THEN [s EXCEPT !.out = Append(@, entry)]
    ELSE [s EXCEPT !.refused = @ \cup entry.orders]

\* A gap of the common bucket goes to the stream of "$audit", which nobody
\* leases: no fence refuses it, except one that cannot be read just then.
Told(s, key, marker) ==
    IF key # Common THEN {Settled(s, Gap(marker))}
    ELSE {[s EXCEPT !.common = Append(@, Gap(marker))],
          [s EXCEPT !.refused = @ \cup marker.orders]}
-----------------------------------------------------------------------------
(* The writer. *)
At(w, place) == [w EXCEPT !.at = place]

WriterLooks ==
    /\ writer.at = "top"
    /\ writer' = [writer EXCEPT !.at = "decide", !.quiet = ~Pending(box)]
    /\ UNCHANGED <<box, drain, closer, sink>>

WriterDecides ==
    /\ writer.at = "decide"
    /\ writer' = At(writer,
           IF box.stop /\ box.unfinished = 0 /\ writer.quiet THEN "gone"
           ELSE IF writer.held # NoMarker THEN "marker"
           ELSE IF writer.event # NoEvent THEN "event" ELSE "get")
    /\ UNCHANGED <<box, drain, closer, sink>>

MarkerLands ==
    /\ writer.at = "marker"
    /\ sink' \in Told(sink, writer.held.key, writer.held.marker)
    /\ writer' = [writer EXCEPT !.at = "top", !.held = NoMarker, !.tries = 0]
    /\ box' = [box EXCEPT !.inflight = FALSE]
    /\ UNCHANGED <<drain, closer>>

MarkerFails ==
    /\ writer.at = "marker"
    /\ LET tries == IF writer.tries < LastTries THEN writer.tries + 1 ELSE writer.tries
       IN  writer' = [writer EXCEPT !.tries = tries,
                          !.at = IF box.stop /\ tries >= LastTries THEN "giveUp" ELSE "top"]
    /\ UNCHANGED <<box, drain, closer, sink>>

\* queue.get found an event, or timed out.
Get ==
    /\ writer.at = "get"
    /\ \/ /\ box.queue # <<>>
          /\ writer' = [writer EXCEPT !.at = "event", !.event = Head(box.queue)]
          /\ box' = [box EXCEPT !.queue = Tail(@)]
       \/ /\ box.queue = <<>>
          /\ writer' = At(writer, "empty")
          /\ UNCHANGED box
    /\ UNCHANGED <<drain, closer, sink>>

\* Is a marker asked for: the queue was empty, or one precedes the event in hand?
Asked == writer.at = "empty" \/ (writer.at = "event" /\ Precedes(box, writer.event))

\* _next_marker, from either of its callers.
TakeMarker ==
    /\ Asked
    /\ IF DOMAIN box.markers = {}
       THEN writer' = At(writer, "top") /\ UNCHANGED box
       ELSE LET key == Oldest(box)
            IN  /\ writer' = [writer EXCEPT !.at = "top",
                                  !.held = [key |-> key, marker |-> box.markers[key]]]
                /\ box' = [Without(box, key) EXCEPT !.inflight = TRUE]
    /\ UNCHANGED <<drain, closer, sink>>

\* No marker is due: the event is tried, at this or a later moment.
EventNext ==
    /\ writer.at = "event" /\ ~Precedes(box, writer.event)
    /\ writer' = At(writer, "append")
    /\ UNCHANGED <<box, drain, closer, sink>>

EventLands ==
    /\ writer.at = "append"
    /\ sink' = Settled(sink, Event(writer.event))
    /\ writer' = [writer EXCEPT !.at = "done", !.event = NoEvent]
    /\ UNCHANGED <<box, drain, closer>>

EventFails ==
    /\ writer.at = "append"
    /\ box' = Added(box, <<"sink_failure", 0>>, 1, writer.event)
    /\ writer' = [writer EXCEPT !.at = "done", !.event = NoEvent]
    /\ UNCHANGED <<drain, closer, sink>>

TaskDone ==
    /\ writer.at = "done"
    /\ box' = [box EXCEPT !.unfinished = @ - 1]
    /\ writer' = At(writer, "top")
    /\ UNCHANGED <<drain, closer, sink>>
-----------------------------------------------------------------------------
(* _final_marker_drain, on the writer's or on the caller's thread. *)
Listed(b) == [k \in 1..Cardinality(DOMAIN b.markers) |->
    CHOOSE e \in {[key |-> j, marker |-> b.markers[j]] : j \in DOMAIN b.markers} :
        Cardinality({j \in DOMAIN b.markers : b.markers[j].order <= e.marker.order}) = k]

DrainBegins(current) ==
    /\ drain' = [list |-> current \o Listed(box), failed |-> 0]
    /\ box' = [box EXCEPT !.markers = <<>>, !.inflight = FALSE]

DrainLands ==
    /\ drain.list # <<>>
    /\ sink' \in Told(sink, Head(drain.list).key, Head(drain.list).marker)
    /\ drain' = [drain EXCEPT !.list = Tail(@)]
    /\ UNCHANGED <<box, writer, closer>>

\* The marker goes back, unless its key is there again (setdefault).
DrainFails ==
    /\ drain.list # <<>>
    /\ box' = [box EXCEPT !.markers = @ @@ (Head(drain.list).key :> Head(drain.list).marker)]
    /\ drain' = [drain EXCEPT !.list = Tail(@), !.failed = @ + 1]
    /\ sink' = [sink EXCEPT !.gaveUp = TRUE]
    /\ UNCHANGED <<writer, closer>>

GiveUp ==
    /\ writer.at = "giveUp" /\ DrainBegins(<<writer.held>>)
    /\ writer' = [writer EXCEPT !.at = "draining", !.held = NoMarker]
    /\ UNCHANGED <<closer, sink>>

WriterDrained ==
    /\ writer.at = "draining" /\ drain.list = <<>>
    /\ writer' = At(writer, "gone")
    /\ UNCHANGED <<box, drain, closer, sink>>
-----------------------------------------------------------------------------
(* shutdown, with the flush inside it. *)
CloserAt(place) == [closer EXCEPT !.at = place]

Shutdown ==
    /\ closer.at = "up" /\ closer' = CloserAt("stop")
    /\ box' = [box EXCEPT !.accepting = FALSE]
    /\ UNCHANGED <<writer, drain, sink>>

SetStop ==
    /\ closer.at = "stop" /\ closer' = CloserAt("flush")
    /\ box' = [box EXCEPT !.stop = TRUE]
    /\ UNCHANGED <<writer, drain, sink>>

FlushLooks ==
    /\ closer.at = "flush"
    /\ closer' = [closer EXCEPT !.at = "count", !.quiet = ~Pending(box)]
    /\ UNCHANGED <<box, writer, drain, sink>>

\* Nothing is unfinished and nothing was pending when it looked; or try
\* again; or the deadline is over.
FlushCounts ==
    /\ closer.at = "count"
    /\ IF box.unfinished = 0 /\ closer.quiet
       THEN closer' = [closer EXCEPT !.at = "join", !.clean = TRUE]
       ELSE \E place \in {"flush", "join"} : closer' = CloserAt(place)
    /\ UNCHANGED <<box, writer, drain, sink>>

\* join(timeout) with the writer still alive: not clean.
JoinTimesOut ==
    /\ closer.at = "join" /\ writer.at # "gone"
    /\ closer' = [closer EXCEPT !.at = "down", !.clean = FALSE]
    /\ UNCHANGED <<box, writer, drain, sink>>

Joined ==
    /\ closer.at = "join" /\ writer.at = "gone"
    /\ IF Pending(box)
       THEN closer' = CloserAt("draining") /\ DrainBegins(<<>>)
       ELSE closer' = CloserAt("down") /\ UNCHANGED <<box, drain>>
    /\ UNCHANGED <<writer, sink>>

CallerDrained ==
    /\ closer.at = "draining" /\ drain.list = <<>>
    /\ closer' = [closer EXCEPT !.at = "down",
                      !.clean = IF drain.failed = 0 THEN box.unfinished = 0 ELSE @]
    /\ UNCHANGED <<box, writer, drain, sink>>
-----------------------------------------------------------------------------
TrailNext ==
    \/ Record \/ LoseRun
    \/ \E count \in {1, Unknown} : RecordGap(count)
    \/ WriterLooks \/ WriterDecides \/ MarkerLands \/ MarkerFails \/ Get \/ TakeMarker
    \/ EventNext \/ EventLands \/ EventFails \/ TaskDone
    \/ DrainLands \/ DrainFails \/ GiveUp \/ WriterDrained
    \/ Shutdown \/ SetStop \/ FlushLooks \/ FlushCounts \/ JoinTimesOut \/ Joined
    \/ CallerDrained

TrailSpec == TrailInit /\ [][TrailNext]_trailVars
-----------------------------------------------------------------------------
(* Types. *)
TrailTypeOK ==
    /\ box.next \in 1..(MaxOrder + 1) /\ box.unfinished \in Nat
    /\ Len(box.queue) <= QueueLimit /\ box.unfinished <= QueueLimit + 1
    /\ DOMAIN box.markers \subseteq Key
    /\ \A k \in DOMAIN box.markers : box.markers[k] \in Marker
    /\ Cardinality(DOMAIN box.markers) <= MaxBuckets + 1
    /\ writer.event \in 0..MaxOrder /\ writer.tries \in 0..LastTries

OrdersOf(entries) == UNION {e.orders : e \in entries}
Stored(kind) == {e \in ToSet(sink.out \o sink.common) : e.kind = kind}
Gapped == OrdersOf(Stored("gap"))
Written == OrdersOf(Stored("event"))

\* Where an ordinal that is not settled yet may be.
Held ==
    ToSet(box.queue) \cup ({writer.event} \ {NoEvent}) \cup writer.held.marker.orders
    \cup OrdersOf({box.markers[k] : k \in DOMAIN box.markers})
    \cup UNION {e.marker.orders : e \in ToSet(drain.list)}

(* No event disappears and none is there twice: until a drain gives a      *)
(* marker up, every ordinal is in the ledger, in a gap of the ledger, in    *)
(* somebody's hands, or refused with its run's fence; and a shutdown that   *)
(* says clean leaves none in anybody's hands.                               *)
NothingSlips ==
    /\ Written \cap Gapped = {}
    /\ (Written \cup Gapped \cup sink.refused) \cap Held = {}
    /\ ~sink.gaveUp =>
           /\ 1..(box.next - 1) \subseteq Written \cup Gapped \cup sink.refused \cup Held
           /\ (closer.at = "down" /\ closer.clean) => Held = {}

(* A gap keeps its place and its count: it stands before every event that  *)
(* was accepted after the first loss it tells of, it counts what it stands  *)
(* for, unless it says it does not know, and no loss is told twice, not    *)
(* even once in the run's stream and once in the common one.               *)
GapsKeepTheirPlace ==
    /\ \A j \in 1..Len(sink.out) : sink.out[j].kind = "gap" =>
           \A i \in 1..(j - 1) :
               sink.out[i].kind = "event" => sink.out[i].order < sink.out[j].order
    /\ LET all == sink.out \o sink.common
       IN  \A j \in 1..Len(all) : all[j].kind = "gap" =>
               /\ all[j].count \in {Unknown, Cardinality(all[j].orders)}
               /\ \A i \in 1..(j - 1) : all[i].orders \cap all[j].orders = {}

(* Each loss is told, once, in its place and with its count.               *)
LossesAreTold == NothingSlips /\ GapsKeepTheirPlace

(* "The marker goes BACK to pending, so flush()/shutdown() keep reporting   *)
(* the unclean drain": a shutdown that answers True left no marker behind.  *)
HonestShutdown == closer.at = "down" /\ closer.clean => ~Pending(box)
=============================================================================
