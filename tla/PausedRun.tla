------------------------------- MODULE PausedRun -------------------------------
(***************************************************************************)
(* A run that stops for somebody: a question only a human may answer, or a *)
(* route that died.  workflow/launch.py, checkpoint_address.py,            *)
(* route_fault.py, routes.py, model_substitution.py, the gate of gates.py, *)
(* and the route half of engine.py, strategies.py and service.py.          *)
(*                                                                         *)
(* A spec is the sequence of its nodes in the order they run; those of a   *)
(* template carry the call that made them.  An id is spelled as a tuple,   *)
(* so that a root node may be called what a nested one is labelled:        *)
(* sub[a]:g is <<"a", "g">>.  A route is a provider and a model.  A leaf   *)
(* answers with the route it ran on, so a moved node asks its readers      *)
(* something else.                                                         *)
(***************************************************************************)
EXTENDS Integers, Sequences, SequencesExt, FiniteSets

CONSTANTS
    Plans,      \* node -> [call, id, kind, route, tier, retries, reads, accept, rejects, default]
    Root, Nil,
    Said,       \* what a human can answer
    Routes, Default,
    Fates,      \* the ways of the routes: route -> "ok", "auth", "gone" or "flaky"
    Provider,   \* route -> provider
    Price,      \* route -> Nat, or Nil: nobody prices it
    Refused,    \* routes whose provider has no credential
    Fallbacks,  \* the operator's envelope: dead route -> routes in order
    MaxMoves,   \* max_fallbacks_per_run
    Tiers,      \* the operator's tier map, lowest first: route, or Nil
    Known,      \* the offline catalog
    MaxStretches, MaxOutages

(* The validator refuses two nodes of one id; a call has an id like a node. *)
PlansAreSpecs ==
    \A p \in Plans :
        /\ p \in Seq(ToSet(p))
        /\ \A i \in DOMAIN p :
             /\ p[i].id \in Seq(ToSet(p[i].id)) \ {<<>>}
             /\ p[i].route \in Routes \cup {Nil}
             /\ \A j \in p[i].reads : j < i
             /\ \A j \in DOMAIN p : p[i].call = p[j].call /\ p[i].id = p[j].id => i = j

PausedAssumption ==
    /\ Default \in Routes /\ Fallbacks \in [Routes -> Seq(Routes)] /\ Known \subseteq Routes
    /\ Nil \notin Routes \cup {"checkpoint", "route_fault", "user"}
    /\ {MaxMoves, MaxStretches, MaxOutages} \subseteq Nat
    /\ PlansAreSpecs

VARIABLES
    plan,     \* the spec's nodes
    fate,     \* how each route fares now, and how often that changed
    line,     \* the run's durable line, with the routes of the spec on file
    rows,     \* workflow_node_cache
    brake,    \* workflow_route_fallbacks: the dead routes this run has left
    run,      \* the stretch in memory
    ghost     \* what a human said to which question, and the moves made

vars == <<plan, fate, line, rows, brake, run, ghost>>

Node == DOMAIN plan
Gates == {i \in Node : plan[i].kind = "gate"}
-----------------------------------------------------------------------------
(* Who a question is, and who an answer is for. *)

Address(i) == IF plan[i].call = Root THEN <<plan[i].id>> ELSE <<plan[i].call, plan[i].id>>
Label(i) == IF plan[i].call = Root THEN plan[i].id ELSE <<plan[i].call>> \o plan[i].id
Calls == {plan[i].call : i \in Node} \ {Root}
RootGates(key) == {<<plan[i].id>> : i \in {j \in Gates : plan[j].call = Root /\ plan[j].id = key}}

\* Every call the key could be under, its template never opened.
Under(key, calls) == {<<c, Tail(key)>> : c \in {d \in calls : d = Head(key) /\ Len(key) > 1}}

LegacyAddresses(key) == RootGates(key) \cup Under(key, Calls)

(* normalize_answers of a label: its one address; nothing where none is;    *)
(* refused where more than one could be meant.                             *)
Ambiguous(key) == Cardinality(LegacyAddresses(key)) > 1
Addressed(key, v) == {<<a, v>> : a \in LegacyAddresses(key)}

\* Mutant: a bare id is a root gate's, though a call could have asked it.
PendingAddresses_Root(p) ==
    CASE p.form = "structured" -> {Address(p.asker)}
      [] p.form = "bare" -> RootGates(p.node)
      [] p.form = "namespaced" -> Under(p.node, {plan[p.asker].call})

(* pending_address: an old question is recovered by its recorded template,  *)
(* or by its bare id where the spec makes no call at all.                  *)
PendingAddresses(p) ==
    CASE p.form = "structured" -> {Address(p.asker)}
      [] p.form = "bare" -> IF Calls = {} THEN RootGates(p.node) ELSE {}
      [] p.form = "namespaced" -> Under(p.node, {plan[p.asker].call})
-----------------------------------------------------------------------------
(* The stretch. *)

Pending(reason, node, asker, form, route) ==
    [reason |-> reason, node |-> node, asker |-> asker, form |-> form, route |-> route]
NoPause == Pending(Nil, Nil, 0, Nil, Nil)

Idle == [on |-> FALSE, at |-> 0, phase |-> "next", out |-> <<>>, answers |-> {},
         route |-> Nil, tried |-> <<>>, died |-> {}, sought |-> FALSE, swapped |-> FALSE,
         pause |-> NoPause, moves |-> <<>>]

Started(answers) ==
    [Idle EXCEPT !.on = TRUE, !.at = 1, !.out = [i \in Node |-> Nil], !.answers = answers,
                 !.moves = [i \in Node |-> Nil]]

Stopped == run.pause.reason # Nil
Here == plan[run.at]

\* PauseSignal.record: the first reporter wins.
Latch(pause, p) == IF pause.reason = Nil THEN p ELSE pause

\* What the cell of this node asks: its id and call, its route, what it read.
Asked(i, route) ==
    <<Address(i), plan[i].kind, route, [j \in plan[i].reads |-> run.out[j]]>>
Effective(route) == IF route = Nil THEN Default ELSE route

Finished(r, v) ==
    [r EXCEPT !.out[r.at] = v, !.at = r.at + 1, !.phase = "next", !.route = Nil,
              !.tried = <<>>, !.died = {}, !.sought = FALSE, !.swapped = FALSE]

OfKind(kinds) ==
    /\ run.on /\ run.phase = "next" /\ ~Stopped
    /\ run.at \in Node /\ Here.kind \in kinds

ReadsNull == \E j \in Here.reads : run.out[j] = Nil
RowOf(asked) == {r \in rows : r.asked = asked}

\* strict_prompt: an upstream null fails the node.
SkipsNull ==
    /\ OfKind({"agent", "pipeline", "gate"}) /\ ReadsNull
    /\ run' = Finished(run, Nil)
    /\ UNCHANGED <<plan, fate, line, rows, brake, ghost>>

\* run_agent, run_pipeline: a finished cell replays.
Replays(asked) ==
    /\ RowOf(asked) # {}
    /\ run' = Finished(run, (CHOOSE r \in RowOf(asked) : TRUE).value)
    /\ UNCHANGED <<plan, fate, line, rows, brake, ghost>>

RouteOnFile(i) == Effective(line.routes[i])

StartsNode ==
    /\ OfKind({"agent", "pipeline"}) /\ ~ReadsNull
    /\ \/ Replays(Asked(run.at, RouteOnFile(run.at)))
       \/ /\ RowOf(Asked(run.at, RouteOnFile(run.at))) = {}
          /\ run' = [run EXCEPT !.phase = "leaf", !.route = RouteOnFile(run.at)]
          /\ UNCHANGED <<plan, fate, line, rows, brake, ghost>>

LeafAnswers ==
    /\ run.on /\ run.phase = "leaf" /\ fate.of[run.route] \in {"ok", "flaky"}
    /\ rows' = rows \cup {[asked |-> Asked(run.at, run.route), value |-> run.route,
                           gate |-> 0]}
    /\ run' = Finished(run, run.route)
    /\ UNCHANGED <<plan, fate, line, brake, ghost>>
-----------------------------------------------------------------------------
(* A route dies: the catalog, the operator's envelope, then a human. *)

Nested == Here.call # Root

\* The first of a list that will do; nothing where none does.
FirstOf(list, good) ==
    {list[n] : n \in {k \in DOMAIN list :
        list[k] \in good /\ \A j \in 1..k - 1 : list[j] \notin good}}

\* model_substitution.choose, from the node's tier or the session's.
TierOf(r) ==
    LET mapped == {t \in DOMAIN Tiers : Tiers[t] = Default}
    IN IF Here.tier # Nil THEN Here.tier
       ELSE IF mapped # {} /\ Provider[Default] = Provider[r]
            THEN CHOOSE t \in mapped : \A u \in mapped : t <= u
            ELSE Len(Tiers) + 1

Substitutes(r) ==
    FirstOf(SubSeq(Tiers, TierOf(r), Len(Tiers)),
        {s \in Known \ {r} : Provider[s] = Provider[r] /\ Price[s] # Nil})

\* substitute_model: sought once for a node, one that declared some routing,
\* whether or not the catalog has one.
Seeks ==
    /\ fate.of[run.route] = "gone" /\ ~Stopped /\ ~Nested /\ Here.kind = "agent"
    /\ Here.route # Nil \/ Here.tier # Nil
    /\ ~run.sought
CanSubstitute == Seeks /\ Substitutes(run.route) # {}

Substitute ==
    \E chosen \in Substitutes(run.route) :
        run' = [run EXCEPT !.phase = "moved", !.route = chosen, !.sought = TRUE, !.swapped = TRUE,
                           !.died = @ \cup {run.route}, !.moves[run.at] = chosen]

(* should_pause_on_route_fault: a refused credential, a model that is not,  *)
(* or a declared series that died on one route to the end.                  *)
RouteDied ==
    \/ fate.of[run.route] \in {"auth", "gone"}
    \/ fate.of[run.route] = "flaky" /\ Here.retries

\* routes.next_route: the first listed the node has not been on.
Candidates ==
    FirstOf(Fallbacks[run.route], Routes \ ({run.route} \cup ToSet(run.tried)))

CheaperOrEqual(dead, r) == Price[dead] # Nil /\ Price[r] # Nil /\ Price[r] <= Price[dead]

\* _offer_reroute up to the credential: what the envelope would grant.
Offered ==
    IF Stopped \/ Nested \/ Here.kind # "agent" \/ MaxMoves = 0 THEN {}
    ELSE {r \in Candidates : CheaperOrEqual(run.route, r) /\ r \notin Refused}

\* route_fallback_try: one for each dead route, so many for the run.
BrakeAllows == run.route \notin brake /\ Cardinality(brake) < MaxMoves

\* _latch_reroute
Reroute(r) ==
    /\ brake' = brake \cup {run.route}
    /\ ghost' = [ghost EXCEPT !.moves = Append(@, <<run.route, r>>)]
    /\ run' = [run EXCEPT !.phase = "moved", !.route = r, !.died = @ \cup {run.route},
                          !.sought = @ \/ Seeks, !.moves[run.at] = r,
                          !.tried = (IF @ = <<>> THEN <<run.route>> ELSE @) \o <<r>>]
    /\ UNCHANGED <<plan, fate, line, rows>>

(* note_leaf_failure: the node is null, and the run stops when the death    *)
(* condemns its route; fold_nested names the call the node is under.       *)
PausesOnRoute ==
    Pending("route_fault", Label(run.at), run.at, "structured", run.route)

LeafDies ==
    /\ run.on /\ run.phase = "leaf" /\ fate.of[run.route] # "ok"
    /\ \/ CanSubstitute /\ Substitute /\ UNCHANGED <<plan, fate, line, rows, brake, ghost>>
       \/ ~CanSubstitute /\ RouteDied /\ BrakeAllows /\ \E r \in Offered : Reroute(r)
       \/ /\ ~CanSubstitute
          /\ RouteDied => Offered = {} \/ ~BrakeAllows
          /\ run' = [Finished(run, Nil) EXCEPT
                        !.pause = IF RouteDied THEN Latch(@, PausesOnRoute) ELSE @]
          /\ UNCHANGED <<plan, fate, line, rows, brake, ghost>>

(* run_agent, around again: the stop is read anew, and the moved node asks  *)
(* for its new cell first.                                                 *)
NextAttempt ==
    /\ run.on /\ run.phase = "moved"
    /\ \/ /\ Stopped
          /\ run' = Finished(run, Nil)
          /\ UNCHANGED <<plan, fate, line, rows, brake, ghost>>
       \/ ~Stopped /\ Replays(Asked(run.at, run.route))
       \/ /\ ~Stopped /\ RowOf(Asked(run.at, run.route)) = {}
          /\ run' = [run EXCEPT !.phase = "leaf"]
          /\ UNCHANGED <<plan, fate, line, rows, brake, ghost>>
-----------------------------------------------------------------------------
(* A gate: run_checkpoint. *)

AnswersHere == {v \in Said \cup {Here.default} : <<Address(run.at), v>> \in run.answers}
Accepts(v) == Here.accept = {} \/ v \in Here.accept
Asks(i) == Pending("checkpoint", Label(i), i, "structured", Nil)

Gate ==
    /\ OfKind({"gate"}) /\ ~ReadsNull
    /\ LET asked == Asked(run.at, Nil)
       IN \/ Replays(asked)
          \/ /\ RowOf(asked) = {}
             /\ \E v \in AnswersHere :
                  \/ /\ Accepts(v)
                     /\ rows' = rows \cup {[asked |-> asked, value |-> v, gate |-> run.at]}
                     /\ run' = Finished(run, v)
                  \/ /\ ~Accepts(v)
                     /\ run' = [Finished(run, Nil) EXCEPT
                            !.pause = IF Here.rejects THEN Latch(@, Asks(run.at)) ELSE @]
                     /\ UNCHANGED rows
             /\ UNCHANGED <<plan, fate, line, brake, ghost>>
          \/ /\ RowOf(asked) = {} /\ AnswersHere = {}
             /\ run' = [Finished(run, Nil) EXCEPT !.pause = Latch(@, Asks(run.at))]
             /\ UNCHANGED <<plan, fate, line, rows, brake, ghost>>

\* workflow_pause, at any moment of the stretch.
UserPauses ==
    /\ run.on /\ ~Stopped
    /\ run' = [run EXCEPT !.pause = Pending("user", Nil, 0, Nil, Nil)]
    /\ UNCHANGED <<plan, fate, line, rows, brake, ghost>>

\* Mutant: the spec is saved as the stretch was given it.
Snapshot_Given(moves) == line.routes

\* apply_reroutes: every move of this stretch, folded into the spec.
Snapshot(moves) == [i \in Node |-> IF moves[i] = Nil THEN line.routes[i] ELSE moves[i]]

\* The end of the run thread: the seal, and the state it publishes.
Seal ==
    /\ run.on /\ run.phase = "next"
    /\ (Stopped \/ run.at > Len(plan))
    /\ line' = [line EXCEPT !.status = IF Stopped THEN "paused" ELSE "done",
                            !.pending = run.pause, !.routes = Snapshot(run.moves)]
    /\ run' = Idle
    /\ UNCHANGED <<plan, fate, rows, brake, ghost>>

\* The process dies: the line still says running, and the moves are lost.
Crash ==
    /\ run.on /\ run' = Idle
    /\ UNCHANGED <<plan, fate, line, rows, brake, ghost>>

\* A provider comes back, or goes.
Outage ==
    /\ fate.changes < MaxOutages
    /\ \E f \in Fates : f # fate.of /\ fate' = [of |-> f, changes |-> fate.changes + 1]
    /\ UNCHANGED <<plan, line, rows, brake, run, ghost>>
-----------------------------------------------------------------------------
(* A resume. *)

AtQuestion == line.status = "paused" /\ line.pending.reason = "checkpoint"
AtRoute == line.status = "paused" /\ line.pending.reason = "route_fault"
DefaultOf(p) == {plan[i].default : i \in {j \in {p.asker} : plan[j].accept = {}}} \ {Nil}

(* checkpoint_answers: what the resume runs with, given what it was sent.   *)
(* Empty: refused.  An old question nobody can place is asked again, and a  *)
(* missing answer is filled by the default the question carried.           *)
Resolved(given) ==
    IF ~AtQuestion THEN {given}
    ELSE LET address == PendingAddresses(line.pending)
             default == {<<a, d>> : a \in address, d \in DefaultOf(line.pending)}
         IN CASE Cardinality(address) # 1 -> {given} \cap {{}}
              [] \E x \in given : x[1] \in address -> {given}
              [] OTHER -> {given \cup default} \ {given}

\* Several processes may hold a run; one stretch runs at a time.
CanLaunch == ~run.on /\ line.stretch < MaxStretches

Launch(answers, routes) ==
    /\ line' = [line EXCEPT !.status = "running", !.pending = NoPause,
                            !.stretch = @ + 1, !.routes = routes]
    /\ run' = Started(answers)

\* A launch with no answer: a first one, an auto-resume, an impatient caller.
ResumeBare ==
    /\ CanLaunch
    /\ \E answers \in Resolved({}) : Launch(answers, line.routes)
    /\ UNCHANGED <<plan, fate, rows, brake, ghost>>

\* What a human says to the question of gate i, relayed by its address...
ResumeAnswered ==
    /\ CanLaunch /\ ~AtRoute
    /\ \E i \in Gates, v \in Said :
        /\ ghost' = [ghost EXCEPT !.said = @ \cup {<<Address(i), v>>}]
        /\ \E answers \in Resolved({<<Address(i), v>>}) : Launch(answers, line.routes)
    /\ UNCHANGED <<plan, fate, rows, brake>>

\* ...or by the label it is shown under.
ResumeLegacy ==
    /\ CanLaunch /\ ~AtRoute
    /\ \E i \in Gates, v \in Said :
        /\ ~Ambiguous(Label(i))
        /\ ghost' = [ghost EXCEPT !.said = @ \cup {<<Address(i), v>>}]
        /\ \E answers \in Resolved(Addressed(Label(i), v)) : Launch(answers, line.routes)
    /\ UNCHANGED <<plan, fate, rows, brake>>

\* An adapted spec: what it routes differently is its own last word.
ResumeAdapted ==
    /\ CanLaunch
    /\ \E r \in Routes, i \in {j \in Node : plan[j].kind = "agent" /\ plan[j].call = Root} :
        Launch({}, [[j \in Node |-> plan[j].route] EXCEPT ![i] = r])
    /\ UNCHANGED <<plan, fate, rows, brake, ghost>>

(* route_answer, apply_route_answer: a route for the node that died, on the *)
(* spec on file; never below a call, never the dead one again.             *)
AnswerRoute ==
    /\ CanLaunch /\ AtRoute
    /\ LET i == line.pending.asker
       IN /\ plan[i].call = Root /\ plan[i].kind = "agent"
          /\ \E r \in Routes \ {line.pending.route} :
                Launch({}, [line.routes EXCEPT ![i] = r])
    /\ UNCHANGED <<plan, fate, rows, brake, ghost>>

\* _abort_route_fault: the paused line is cancelled, and nothing runs.
AbortRoute ==
    /\ ~run.on /\ AtRoute
    /\ line' = [line EXCEPT !.status = "cancelled", !.pending = NoPause]
    /\ UNCHANGED <<plan, fate, rows, brake, run, ghost>>

\* A fresh line, or one an older release left paused at a question.
Lines(p) ==
    LET routes == [i \in DOMAIN p |-> p[i].route]
        At(status, pending) ==
            [status |-> status, pending |-> pending, routes |-> routes, stretch |-> 0]
        Old(i) == {Pending("checkpoint", p[i].id, i, "bare", Nil)}
            \cup {Pending("checkpoint", <<p[i].call>> \o p[i].id, i, "namespaced", Nil) :
                    c \in {p[i].call} \ {Root}}
    IN {At("new", NoPause)} \cup
       UNION {{At("paused", q) : q \in Old(i)} : i \in {j \in DOMAIN p : p[j].kind = "gate"}}

PausedInit ==
    /\ plan \in Plans /\ line \in Lines(plan)
    /\ fate \in [of : Fates, changes : {0}]
    /\ rows = {} /\ brake = {} /\ run = Idle
    /\ ghost = [said |-> {}, moves |-> <<>>]

PausedNext ==
    \/ SkipsNull \/ StartsNode \/ LeafAnswers \/ LeafDies \/ NextAttempt \/ Gate
    \/ UserPauses \/ Seal \/ Crash \/ Outage
    \/ ResumeBare \/ ResumeAnswered \/ ResumeLegacy \/ ResumeAdapted
    \/ AnswerRoute \/ AbortRoute
-----------------------------------------------------------------------------
PausedTypeOK ==
    /\ line.status \in {"new", "running", "paused", "cancelled", "done"}
    /\ line.status = "paused" <=> line.pending.reason # Nil
    /\ run.phase \in {"next", "leaf", "moved"}
    /\ run.on => line.status = "running"
    /\ brake \subseteq Routes

(* A gate is open only on what a human said to that very gate, or on the   *)
(* default an unguarded one declares: whatever label, old question or bare *)
(* resume the word came through.  A guarded one is open only on what it    *)
(* accepts.                                                                *)
GatesOpenOnHumanWord ==
    \A r \in {x \in rows : x.gate # 0} :
        LET g == plan[r.gate]
        IN /\ \/ <<Address(r.gate), r.value>> \in ghost.said
              \/ g.accept = {} /\ r.value = g.default
           /\ g.accept = {} \/ r.value \in g.accept

(* However often the run crashes and resumes, the envelope moves no dead    *)
(* route twice and the run no oftener than the operator allowed.            *)
EnvelopeIsBounded ==
    /\ Len(ghost.moves) <= MaxMoves
    /\ \A i, j \in DOMAIN ghost.moves : ghost.moves[i][1] = ghost.moves[j][1] => i = j

\* The envelope sends no node back to a route it has died on in this stretch.
NoWayBack == run.phase = "leaf" /\ ~run.swapped => run.route \notin run.died

(* What a route pause says died is what the spec on file would run again:   *)
(* an answer is judged against the route that the resume would have taken. *)
PauseNamesTheRoute ==
    AtRoute /\ plan[line.pending.asker].call = Root
        => line.pending.route = RouteOnFile(line.pending.asker)

MovesAreAuthorised == EnvelopeIsBounded /\ NoWayBack /\ PauseNamesTheRoute
=============================================================================
