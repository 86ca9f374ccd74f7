---------------------------- MODULE NodeStrategies ----------------------------
(***************************************************************************)
(* The run thread of workflow/engine.py executing the nodes of a spec one  *)
(* after another, each by its strategy (strategies.py, gates.py): an agent *)
(* and its series of leaves, a parallel fan-out, a verify jury, a judge    *)
(* panel, a loop until dry, a gate, a completeness critic.  Whatever a     *)
(* leaf's death means for the run (a pause, another route, another model,  *)
(* one more attempt, a fault) is decided here.                             *)
(*                                                                         *)
(* The thread asks for a group of leaves, collects them in order, and      *)
(* decides; leaves, the operator and late accounts move meanwhile.         *)
(***************************************************************************)
EXTENDS EngineBooks

CONSTANTS Plans,          \* the specs: sequences of node kinds
          Width,          \* branches, skeptics or attempts of a fan-out, at most
          Judges,         \* judges of one attempt, at most
          Attempts,       \* the attempts of a series, of a gate, of a loop
          MaxFallbacks,   \* re-routes the operator's envelope grants a run
          Corrections,    \* MAX_VALIDATION_RETRIES
          MaxTimeouts     \* bound: deadlines that pass in a run

VARIABLES
    run,      \* the thread, the node it is in, what the nodes returned
    ask,      \* the group of leaves being asked for and collected
    doors,    \* the lists a fault's discount is read from, besides its own door
    route     \* what the re-routing of dead routes remembers

nodeVars == <<bookVars, run, ask, doors, route>>

Kind == {"agent", "parallel", "verify", "panel", "loop", "gate", "critic"}

StrategiesAssumption ==
    /\ Plans \subseteq Seq(Kind)
    /\ {Width, Judges, Attempts} \subseteq Nat \ {0}
    /\ {MaxFallbacks, Corrections, MaxTimeouts} \subseteq Nat

NoAsk == [stage |-> "none", left |-> 0, group |-> <<>>, got |-> <<>>, attempt |-> 0,
          dead |-> {}, whole |-> TRUE, found |-> FALSE, todo |-> 0, rounds |-> 0]

NodesTypeOK ==
    /\ BooksTypeOK
    /\ run.pc \in {"loop", "left", "enter", "spawn", "collect", "account", "decide", "exhausted",
                   "reroute", "settle", "seal", "verdict", "end"}
    /\ run.at \in 1..Len(run.plan) + 1 /\ run.cached \subseteq DOMAIN run.plan
    /\ run.outputs \in Seq({"null", "answer"})
    /\ \A n \in DOMAIN run.leaves : run.leaves[n] \subseteq Leaves
    /\ ask.group \in Seq(Leaves) /\ Len(ask.got) <= Len(ask.group)
    /\ ask.dead \subseteq Leaves /\ ask.left \in 0..Width + Judges
    /\ \A d \in {"attempt", "held", "recovered", "paused", "rerouted"} : doors[d] \subseteq faults
    /\ route.spent \in 0..MaxFallbacks /\ route.pending \in BOOLEAN

NodesInit ==
    /\ BooksInit
    /\ \E plan \in Plans, declared \in BOOLEAN, required \in BOOLEAN,
         width \in 1..Width, judges \in 1..Judges, synth \in BOOLEAN :
         run = [pc |-> "loop", plan |-> plan, at |-> 1, outputs |-> <<>>, cached |-> {},
                width |-> width, judges |-> judges, synth |-> synth,
                leaves |-> [n \in DOMAIN plan |-> {}], slow |-> {}, chance |-> {},
                declared |-> declared, required |-> required,
                failed |-> FALSE, status |-> "running"]
    /\ ask = NoAsk
    /\ doors = [attempt |-> {}, held |-> {}, recovered |-> {}, paused |-> {}, rerouted |-> {}]
    /\ route = [pending |-> FALSE, spent |-> 0, substituted |-> {}, at |-> 0]

At(pc) == run.pc = pc
Node == run.at
NodeKind == run.plan[Node]
Goto(pc) == run' = [run EXCEPT !.pc = pc]
Last == ask.group[Len(ask.got)]       \* the leaf collected last
Of(leafs, set) == {f \in set : f.of \in leafs}

(* A verdict, a score or a completeness report has a schema of the         *)
(* strategy's own: an empty answer does not satisfy it.                    *)
Typed == NodeKind \in {"verify", "critic"} \/ ask.stage \in {"judge", "review"}

(* collect_with_schema numbers an attempt only in a series the author asked *)
(* for; parallel has one only when retries were declared.                  *)
Series == run.declared /\ NodeKind \in {"agent", "parallel"} /\ Attempts > 1

(* leaf_retryable: it died with an error, not one with a remedy of its own, *)
(* and this engine did not cut it off.                                     *)
Retryable(l) == leaf[l].status = "error" /\ leaf[l].says = "plain" /\ l \notin run.slow
-----------------------------------------------------------------------------
(* The loop over the nodes (engine.run) *)

Leave(output, cached) ==
    /\ run' = [run EXCEPT !.pc = "left", !.outputs = Append(@, output),
                          !.cached = IF cached THEN @ \cup {Node} ELSE @]
    /\ ask' = NoAsk

NextNode ==
    /\ At("loop")
    /\ IF Node > Len(run.plan) \/ Stopped
       THEN /\ Goto("settle")
            /\ faults' = IF Node <= Len(run.plan) /\ stop.cancel
                         THEN faults \cup {Fault("cancelled", 0, "counted")} ELSE faults
       ELSE Goto("enter") /\ UNCHANGED faults
    /\ UNCHANGED <<budget, leaf, book, stop, ask, doors, route>>

(* _required_abort: a null the author cannot do without ends the run, but  *)
(* not one a stop made.                                                    *)
NodeDone ==
    /\ At("left")
    /\ IF run.outputs[Node] = "null" /\ run.required /\ ~Stopped
       THEN /\ run' = [run EXCEPT !.pc = "settle", !.failed = TRUE]
            /\ faults' = faults \cup {Fault("required", 0, "counted")}
       ELSE /\ run' = [run EXCEPT !.pc = "loop", !.at = @ + 1]
            /\ UNCHANGED faults
    /\ UNCHANGED <<budget, leaf, book, stop, ask, doors, route>>

(* How many leaves the node asks for first, and how wide it may get. *)
Fans == NodeKind \in {"parallel", "verify", "panel"}
FirstAsk == IF Fans THEN run.width ELSE 1
Shape == CASE NodeKind = "panel" -> run.width + run.width * run.judges + (IF run.synth THEN 1 ELSE 0)
           [] NodeKind = "gate" -> 2 * Attempts
           [] NodeKind \in {"parallel", "verify"} -> run.width
           [] OTHER -> 0

Ask(stage, n) == [ask EXCEPT !.stage = stage, !.left = n, !.group = <<>>, !.got = <<>>]

(* A strategy up to its first spawn: refs that resolve to null, a provider *)
(* that cannot be built, a shape too wide, a fan-out the money cannot buy. *)
Enter ==
    /\ At("enter")
    /\ \/ /\ \E why \in {"unresolved", "unavailable"} :
               faults' = faults \cup {Fault(why, 0, "counted")}
          /\ Leave("null", FALSE)
          /\ UNCHANGED stop
       \/ /\ ~FanoutFits(Shape)
          /\ faults' = faults \cup {Fault("fanout", 0, "counted")}
          /\ Leave("null", FALSE)
          /\ UNCHANGED stop
       \/ /\ FanoutFits(Shape) /\ Fans /\ ~MayFanOut(FirstAsk)
          /\ stop' = Latched("token_budget_exhausted")
          /\ faults' = faults \cup LatchFault("token_budget_exhausted")
          /\ Leave("null", FALSE)
       \/ /\ FanoutFits(Shape) /\ (Fans => MayFanOut(FirstAsk))
          /\ Goto("spawn") /\ ask' = Ask("first", FirstAsk)
          /\ UNCHANGED <<stop, faults>>
    /\ UNCHANGED <<budget, leaf, book, doors, route>>
-----------------------------------------------------------------------------
(* spawn_leaf *)

InBranch == NodeKind = "parallel" /\ ask.got # <<>>

SpawnLeaf ==
    LET l == Len(leaf) + 1 IN
    /\ At("spawn") /\ MaySpawn /\ CanReserve(budget)
    /\ budget' = Reserved(budget)
    /\ leaf' = Accepted
    /\ book' = Tracked(book, l)
    /\ ask' = IF InBranch     \* a fresh leaf in the dead one's place
              THEN [ask EXCEPT !.left = 0, !.attempt = @ + 1, !.group[Len(ask.got)] = l,
                               !.got = SubSeq(@, 1, Len(@) - 1)]
              ELSE [ask EXCEPT !.left = @ - 1, !.group = Append(@, l)]
    /\ run' = [run EXCEPT !.pc = IF ask.left = 1 THEN "collect" ELSE "spawn",
                          !.leaves[Node] = @ \cup {l}]
    /\ UNCHANGED <<stop, faults, doors, route>>

(* What a strategy makes of a branch that is settled: on to the next, or   *)
(* the node answers, and its cell is cached if every branch did.           *)
Answers == {n \in DOMAIN ask.got : ask.got[n] = "good"}

\* Mutant: one answer is enough for the cell of a panel.
AllGood_Some == Answers # {}

AllGood == Answers = 1..run.width

BranchSettled ==
    IF Len(ask.got) < run.width
    THEN ask' = [ask EXCEPT !.attempt = 0, !.dead = {}, !.left = 0] /\ Goto("collect")
    ELSE Leave("answer", AllGood)

(* A panel's winner, if one was scored, goes to the synthesis, which may   *)
(* fail to resolve its prompt; with no synthesis declared it is the answer.*)
Crown(a, said) ==
    IF ~a.found THEN Leave("null", FALSE) /\ faults' = said
    ELSE IF run.synth
      THEN \/ /\ ask' = [a EXCEPT !.stage = "synth", !.left = 1, !.group = <<>>, !.got = <<>>]
              /\ Goto("spawn") /\ faults' = said
           \/ Leave("null", FALSE) /\ faults' = said \cup {Fault("unresolved", 0, "counted")}
      ELSE Leave("answer", a.whole) /\ faults' = said

(* Out of tokens: the run pauses.  A panel crowns what it has, a loop keeps *)
(* its harvest, a branch ends; any other node is null.                     *)
SpawnUnpaid ==
    /\ At("spawn") /\ ~MaySpawn
    /\ stop' = Latched("token_budget_exhausted")
    /\ LET said == faults \cup LatchFault("token_budget_exhausted") IN
       IF ask.stage = "judge" THEN Crown([ask EXCEPT !.whole = FALSE], said)
       ELSE /\ faults' = said
            /\ IF InBranch
               THEN BranchSettled
               ELSE Leave(IF ask.found THEN "answer" ELSE "null", FALSE)
    /\ UNCHANGED <<budget, leaf, book, doors, route>>

(* Out of slots (FanoutRejected), or core.spawn raises: a fault and a null *)
(* node; the siblings already spawned are collected by nobody.             *)
SpawnRefused ==
    /\ At("spawn") /\ MaySpawn
    /\ \E why \in {"lifetime", "crashed"} :
         /\ why = "lifetime" => ~CanReserve(budget)
         /\ why = "crashed" => CanReserve(budget)
         /\ faults' = faults \cup {Fault(why, 0, "counted")}
         /\ IF InBranch /\ why = "lifetime"
            THEN BranchSettled
            ELSE Leave("null", FALSE)
    /\ UNCHANGED <<budget, leaf, book, stop, doors, route>>
-----------------------------------------------------------------------------
(* A dead leaf (note_leaf_failure) *)

Died(l, door) == Fault("died", l, door)

(* The fault of a numbered attempt is remembered under its leaf. *)
Numbered(l, door) ==
    IF Series /\ Retryable(l) THEN [doors EXCEPT !.attempt = @ \cup {Died(l, door)}] ELSE doors

QuotaDeath(l) ==
    /\ leaf[l].says = "quota"
    /\ stop' = Latched("quota_exhausted")
    /\ faults' = faults \cup LatchFault("quota_exhausted")
    /\ leaf' = IF Paused THEN leaf ELSE AfterCancel(book.tracked)
    /\ UNCHANGED <<doors, route>>

HeldHere == Of(run.leaves[Node], doors.held)
Own(dead) == Of(dead, doors.attempt)

(* _latch_reroute: the death (with the series it ended) is recorded and    *)
(* held, the move recorded and granted; the next attempt runs elsewhere,   *)
(* with no substitute for a node that was refused one.                     *)
Reroute(f, dead, refused) ==
    /\ NodeKind = "agent" /\ ~Stopped /\ route.spent < MaxFallbacks
    /\ LET moved == Fault("rerouted", route.spent + 1, "counted") IN
         /\ faults' = faults \cup {f, moved}
         /\ doors' = [doors EXCEPT !.held = @ \cup {f} \cup Own(dead), !.attempt = @ \ Own(dead),
                                 !.rerouted = @ \cup {moved}]
    /\ route' = [route EXCEPT !.pending = TRUE, !.spent = @ + 1, !.substituted = @ \cup refused]
    /\ UNCHANGED <<stop, leaf>>

(* The pause of a dead route takes over what was held for a re-route. *)
PauseOnRoute(dead) ==
    /\ ~Paused
    /\ stop' = Latched("route_fault")
    /\ faults' = faults \cup LatchFault("route_fault")
    /\ doors' = [doors EXCEPT !.paused = @ \cup HeldHere \cup Own(dead),
                             !.held = @ \ HeldHere, !.attempt = @ \ Own(dead)]
    /\ route' = [route EXCEPT !.at = Node]
    /\ leaf' = AfterCancel(book.tracked)

(* substitute_model: sought once per node, never while the run stops; a    *)
(* refusal (no catalogue entry, no price, no tier) goes on to the envelope *)
(* or the pause, and is the node's only try.                               *)
Substitute(l) ==
    /\ leaf[l].says = "no_model" /\ NodeKind = "agent" /\ ~Stopped
    /\ Node \notin route.substituted
    /\ faults' = faults \cup {Died(l, "counted"), Fault("substituted", l, "advisory")}
    /\ doors' = [doors EXCEPT !.held = @ \cup {Died(l, "counted")}]
    /\ route' = [route EXCEPT !.pending = TRUE, !.substituted = @ \cup {Node}]
    /\ UNCHANGED <<stop, leaf>>

DeadRoute(l) == leaf[l].status = "error" /\ leaf[l].says \in {"auth", "no_model"}
Administrative(l) == leaf[l].status \in {"interrupted", "cancelled"} /\ Paused /\ ~stop.cancel
PausedHere == stop.pause = "route_fault" /\ route.at = Node

PlainDeath(l) ==
    LET door == IF Administrative(l) \/ PausedHere THEN "pause" ELSE "counted" IN
    /\ leaf[l].says # "quota" /\ (DeadRoute(l) => Paused)
    /\ faults' = faults \cup {Died(l, door)}
    /\ doors' = Numbered(l, door)
    /\ UNCHANGED <<stop, leaf, route>>

NoteLeafFailure(l) ==
    \/ QuotaDeath(l)
    \/ Substitute(l)
    \/ DeadRoute(l) /\ Reroute(Died(l, "counted"), {},
                               IF leaf[l].says = "no_model" THEN {Node} ELSE {})
    \/ DeadRoute(l) /\ PauseOnRoute({})
    \/ PlainDeath(l)
-----------------------------------------------------------------------------
(* collect_with_schema *)

Gets(answer) ==
    /\ ask' = [ask EXCEPT !.got = Append(@, answer)]
    /\ Goto("account")

Waited == ask.group[Len(ask.got) + 1]

CollectAnswer ==
    /\ At("collect") /\ leaf[Waited].status = "complete"
    /\ Typed => leaf[Waited].says = "good"
    /\ Gets(leaf[Waited].says)
    /\ UNCHANGED <<budget, leaf, book, stop, faults, doors, route>>

CollectDeath ==
    /\ At("collect") /\ ~Live(Waited) /\ leaf[Waited].status # "complete"
    /\ NoteLeafFailure(Waited)
    /\ Gets("none")
    /\ UNCHANGED <<budget, book>>

(* An answer that does not fit its schema is steered for a correction, in  *)
(* the same leaf, until the rounds or its steering slots are spent.        *)
CollectMisfit ==
    /\ At("collect") /\ leaf[Waited].status = "complete"
    /\ Typed /\ leaf[Waited].says # "good"
    /\ \/ /\ ask.rounds < Corrections
          /\ leaf' = [leaf EXCEPT ![Waited] = [@ EXCEPT !.status = "running", !.says = "nothing"]]
          /\ ask' = [ask EXCEPT !.rounds = @ + 1]
          /\ UNCHANGED <<run, faults>>
       \/ /\ ask.rounds = Corrections
          /\ Gets("none")
          /\ UNCHANGED <<leaf, faults>>
       \/ /\ ask.rounds < Corrections
          /\ faults' = faults \cup {Fault("steering", Waited, "counted")}
          /\ Gets("none")
          /\ UNCHANGED leaf
    /\ UNCHANGED <<budget, book, stop, doors, route>>

(* The deadline: the leaf is asked to stop and no longer waited for. *)
CollectTimeout ==
    /\ At("collect") /\ Live(Waited) /\ Cardinality(run.slow) < MaxTimeouts
    /\ leaf' = AfterCancel({Waited})
    /\ faults' = faults \cup {Fault("timeout", Waited, "counted")}
    /\ ask' = [ask EXCEPT !.got = Append(@, "none")]
    /\ run' = [run EXCEPT !.pc = "account", !.slow = @ \cup {Waited}]
    /\ UNCHANGED <<budget, book, stop, doors, route>>

(* account_leaf, by the thread or by the hook of a leaf it deferred. *)
Account(l) ==
    /\ book' = Accounted(book, l, FALSE)
    /\ budget' = IF Bills(book, l) THEN ChargedFor(budget, l) ELSE budget
    /\ faults' = IF Bills(book, l) THEN faults \cup Overrun(budget, l) ELSE faults

AccountLeaf ==
    /\ At("account")
    /\ Account(Last)
    /\ run' = [run EXCEPT !.pc = IF Len(ask.got) < Len(ask.group) /\ NodeKind # "parallel"
                                 THEN "collect" ELSE "decide"]
    /\ ask' = [ask EXCEPT !.rounds = 0]
    /\ UNCHANGED <<leaf, stop, doors, route>>

LateHook ==
    /\ \E l \in DOMAIN book.pending : ~Live(l) /\ Bills(book, l) /\ Account(l)
    /\ UNCHANGED <<leaf, stop, run, ask, doors, route>>
-----------------------------------------------------------------------------
(* What a strategy makes of its answers *)

Got == ask.got[Len(ask.got)]
MoreAttempts == ask.attempt + 1 < Attempts
Again(stage) == ask' = [Ask(stage, 1) EXCEPT !.attempt = @ + 1] /\ Goto("spawn")

(* mark_recovered: the series has a winner, its dead attempts' faults no   *)
(* longer count.                                                           *)
Recovered(d) ==
    LET own == Of(ask.dead, d.attempt) IN
    [d EXCEPT !.recovered = @ \cup own, !.attempt = @ \ own]

\* Mutant: an answer retires what any node was held for.
RouteRecovered_Any(d) == [d EXCEPT !.recovered = @ \cup d.held, !.held = {}]

(* mark_reroute_recovered: nor do those of the route the node left. *)
RouteRecovered(d) == [d EXCEPT !.recovered = @ \cup HeldHere, !.held = @ \ HeldHere]

(* mark_route_fault_caused: a pause of this node's route, or its re-route, *)
(* takes the faults of the series over.                                    *)
Caused(d, dead) ==
    CASE PausedHere -> [d EXCEPT !.paused = @ \cup Own(dead), !.attempt = @ \ Own(dead)]
      [] ~PausedHere /\ HeldHere # {} ->
             [d EXCEPT !.held = @ \cup Own(dead), !.attempt = @ \ Own(dead)]
      [] OTHER -> d

StoppedFault ==
    IF MoreAttempts THEN faults \cup {Fault("stopped", Last, "counted")} ELSE faults

(* run_leaf_with_retries, after one attempt. *)
AgentAnswered ==
    /\ At("decide") /\ NodeKind = "agent" /\ Got = "good"
    /\ doors' = RouteRecovered(Recovered(doors))
    /\ Leave("answer", TRUE)
    /\ UNCHANGED <<bookVars, route>>

AgentEmpty ==
    /\ At("decide") /\ NodeKind = "agent" /\ Got = "empty"
    /\ IF MoreAttempts
       THEN Again("first") /\ UNCHANGED faults
       ELSE /\ faults' = faults \cup {Fault("empty", Last, "counted")}
            /\ Goto("reroute") /\ UNCHANGED ask
    /\ UNCHANGED <<budget, leaf, book, stop, doors, route>>

AgentDied ==
    /\ At("decide") /\ NodeKind = "agent" /\ Got = "none"
    /\ \/ /\ ~(run.declared /\ Retryable(Last))
          /\ doors' = Caused(doors, ask.dead)
          /\ Goto("reroute") /\ UNCHANGED <<ask, faults>>
       \/ /\ run.declared /\ Retryable(Last) /\ Stopped
          /\ faults' = StoppedFault
          /\ Goto("reroute") /\ UNCHANGED <<ask, doors>>
       \/ /\ run.declared /\ Retryable(Last) /\ ~Stopped
          /\ IF MoreAttempts
             THEN /\ ask' = [Ask("first", 1) EXCEPT !.attempt = @ + 1, !.dead = @ \cup {Last}]
                  /\ Goto("spawn")
             ELSE /\ ask' = [ask EXCEPT !.dead = @ \cup {Last}]
                  /\ Goto(IF Attempts > 1 THEN "exhausted" ELSE "reroute")
          /\ UNCHANGED <<doors, faults>>
    /\ UNCHANGED <<budget, leaf, book, stop, route>>

(* Every attempt died on one route: the envelope moves it, or the run      *)
(* pauses on it, or another pause was first and it is an ordinary fault.   *)
AgentExhausted ==
    LET verdict == Fault("exhausted", Last, "counted") IN
    /\ At("exhausted")
    /\ \/ Reroute(verdict, ask.dead, {})
       \/ PauseOnRoute(ask.dead)
       \/ Paused /\ faults' = faults \cup {verdict} /\ UNCHANGED <<stop, leaf, doors, route>>
    /\ Goto("reroute")
    /\ UNCHANGED <<budget, book, ask>>

(* take_reroute: one offer buys one more series, unless the run stopped. *)
TakeReroute ==
    /\ At("reroute")
    /\ route' = [route EXCEPT !.pending = FALSE]
    /\ IF route.pending /\ ~Stopped
       THEN ask' = [NoAsk EXCEPT !.stage = "first", !.left = 1] /\ Goto("spawn")
       ELSE Leave("null", FALSE)
    /\ UNCHANGED <<bookVars, doors>>

(* run_parallel on one branch: a dead one is asked again while its series  *)
(* lasts.                                                                  *)
BranchDecides ==
    LET died == ask.dead \cup {Last} IN
    /\ At("decide") /\ NodeKind = "parallel"
    /\ \/ /\ Got # "none"
          /\ doors' = Recovered(doors)
          /\ BranchSettled /\ UNCHANGED faults
       \/ /\ Got = "none" /\ ~(Series /\ Retryable(Last))
          /\ doors' = IF Series THEN Caused(doors, died) ELSE doors
          /\ BranchSettled /\ UNCHANGED faults
       \/ /\ Got = "none" /\ Series /\ Retryable(Last)
          /\ IF MoreAttempts /\ ~Stopped
             THEN ask' = [ask EXCEPT !.left = 1, !.dead = died] /\ Goto("spawn")
             ELSE BranchSettled
          /\ faults' = IF Stopped THEN StoppedFault ELSE faults
          /\ UNCHANGED doors
    /\ UNCHANGED <<budget, leaf, book, stop, route>>

(* run_verify fails closed; its verdict is an answer either way. *)
JuryDecides ==
    /\ At("decide") /\ NodeKind = "verify"
    /\ faults' = IF Answers = {} THEN faults \cup {Fault("all_dead", 0, "counted")} ELSE faults
    /\ Leave("answer", AllGood)
    /\ UNCHANGED <<budget, leaf, book, stop, doors, route>>

CriticDecides ==
    /\ At("decide") /\ NodeKind = "critic"
    /\ IF Got = "good" THEN Leave("answer", TRUE) ELSE Leave("null", FALSE)
    /\ UNCHANGED <<bookVars, doors, route>>

(* run_gate: a draft, then its review; what is not approved is drafted anew *)
GateDecides ==
    /\ At("decide") /\ NodeKind = "gate"
    /\ \/ /\ ask.stage = "first" /\ Got = "good"
          /\ ask' = Ask("review", 1) /\ Goto("spawn") /\ UNCHANGED faults
       \/ /\ ask.stage = "review" /\ Got = "good"
          /\ Leave("answer", TRUE) /\ UNCHANGED faults
       \/ /\ ask.stage = "first" => Got # "good"
          /\ IF MoreAttempts
             THEN Again("first") /\ UNCHANGED faults
             ELSE /\ faults' = faults \cup {Fault("rejected", 0, "counted")}
                  /\ Leave("null", FALSE)
    /\ UNCHANGED <<budget, leaf, book, stop, doors, route>>

(* run_loop_until_dry: a dead round is no dry one; the node's own budget   *)
(* may end it between rounds; only a harvest without a death is cached.    *)
RoundDecides ==
    LET found == ask.found \/ Got = "good"
        whole == ask.whole /\ Got # "none"
        died == IF Got = "none" THEN {Fault("round", Last, "counted")} ELSE {}
    IN
    /\ At("decide") /\ NodeKind = "loop"
    /\ \/ /\ Got # "empty" /\ MoreAttempts
          /\ ask' = [Ask("first", 1) EXCEPT !.attempt = @ + 1, !.found = found, !.whole = whole]
          /\ Goto("spawn") /\ faults' = faults \cup died
       \/ /\ Got = "empty" \/ ~MoreAttempts
          /\ Leave("answer", whole) /\ faults' = faults \cup died
       \/ /\ Got # "empty"
          /\ IF found \/ whole THEN Leave("answer", whole) ELSE Leave("null", FALSE)
          /\ faults' = faults \cup died \cup {Fault("loop_budget", Last, "advisory")}
    /\ UNCHANGED <<budget, leaf, book, stop, doors, route>>

(* run_judge_panel: the attempts, then the judges of each that answered,   *)
(* gated together, then the winner.  One score is enough for an attempt: a *)
(* judge that died beside it leaves the panel whole.  Money that runs out  *)
(* ends the judging, a shape that no longer fits ends the node.            *)
PanelDecides ==
    LET judged == ask.stage = "judge"
        scored == Answers # {}
        answered == {n \in DOMAIN ask.got : ask.got[n] # "none"}
        todo == IF judged THEN ask.todo ELSE Cardinality(answered)
        kept == [ask EXCEPT !.found = @ \/ (judged /\ scored),
                            !.whole = @ /\ (IF judged THEN scored ELSE todo = run.width)]
        said == IF judged /\ ~scored
                THEN faults \cup {Fault("unscored", Last, "counted")} ELSE faults
    IN
    /\ At("decide") /\ NodeKind = "panel"
    /\ \/ /\ ask.stage = "synth"
          /\ Leave(IF Got = "none" THEN "null" ELSE "answer", ask.whole /\ Got = "good")
          /\ UNCHANGED <<stop, faults>>
       \/ /\ ask.stage # "synth" /\ todo = 0
          /\ Crown(kept, said) /\ UNCHANGED stop
       \/ /\ ask.stage # "synth" /\ todo > 0 /\ FanoutFits(run.judges)
          /\ IF MayFanOut(run.judges)
             THEN /\ ask' = [kept EXCEPT !.stage = "judge", !.left = run.judges, !.group = <<>>,
                                         !.got = <<>>, !.todo = todo - 1]
                  /\ Goto("spawn") /\ faults' = said /\ UNCHANGED stop
             ELSE /\ stop' = Latched("token_budget_exhausted")
                  /\ Crown([kept EXCEPT !.whole = FALSE],
                           said \cup LatchFault("token_budget_exhausted"))
       \/ /\ ask.stage # "synth" /\ todo > 0 /\ ~FanoutFits(run.judges)
          /\ faults' = said \cup {Fault("fanout", 0, "counted")}
          /\ Leave("null", FALSE) /\ UNCHANGED stop
    /\ UNCHANGED <<budget, leaf, book, doors, route>>
-----------------------------------------------------------------------------
(* The end of the run (_seal) *)

StartSettling ==
    /\ At("settle")
    /\ run' = [run EXCEPT !.pc = "seal", !.chance = DOMAIN book.pending]
    /\ UNCHANGED <<bookVars, ask, doors, route>>

SecondChance ==
    /\ At("seal")
    /\ \E l \in run.chance :
         /\ Account(l)
         /\ run' = [run EXCEPT !.chance = @ \ {l}]
    /\ UNCHANGED <<leaf, stop, ask, doors, route>>

Seal ==
    /\ At("seal") /\ run.chance = {}
    /\ book' = Sealed(book)
    /\ faults' = faults \cup StragglerFaults(book)
    /\ Goto("verdict")
    /\ UNCHANGED <<budget, leaf, stop, ask, doors, route>>

Nulls == {n \in DOMAIN run.outputs : run.outputs[n] = "null"}

Unrecovered == {f \in faults : f.door # "advisory"} \ (doors.recovered \cup doors.rerouted)

Verdict ==
    /\ At("verdict")
    /\ run' = [run EXCEPT !.pc = "end", !.status =
                  CASE stop.cancel -> "cancelled"
                    [] ~stop.cancel /\ Paused -> "paused"
                    [] OTHER -> IF run.failed \/ Cardinality(Nulls) = Len(run.plan) THEN "failed"
                                ELSE IF Nulls # {} \/ Unrecovered # {} THEN "degraded"
                                ELSE "complete"]
    /\ UNCHANGED <<bookVars, ask, doors, route>>
-----------------------------------------------------------------------------
Strategy ==
    \/ AgentAnswered \/ AgentEmpty \/ AgentDied \/ AgentExhausted \/ TakeReroute
    \/ BranchDecides \/ JuryDecides \/ CriticDecides \/ GateDecides
    \/ RoundDecides \/ PanelDecides

RunThread ==
    \/ NextNode \/ NodeDone \/ Enter
    \/ SpawnLeaf \/ SpawnUnpaid \/ SpawnRefused
    \/ CollectAnswer \/ CollectDeath \/ CollectMisfit \/ CollectTimeout \/ AccountLeaf
    \/ Strategy
    \/ StartSettling \/ SecondChance \/ Seal \/ Verdict

LeafStep ==
    /\ \E l \in Leaves : LeafStarts(l) \/ LeafEnds(l)
    /\ UNCHANGED <<run, ask, doors, route>>

Operator ==
    /\ ~At("end")
    /\ RequestCancel \/ RequestPause
    /\ UNCHANGED <<run, ask, doors, route>>

NodesNext == RunThread \/ LeafStep \/ LateHook \/ Operator

NodesSpec == NodesInit /\ [][NodesNext]_nodeVars
-----------------------------------------------------------------------------
NodeOf(l) == CHOOSE n \in DOMAIN run.leaves : l \in run.leaves[n]

(* A fault is excused once and for a reason: it recovered only if a later  *)
(* leaf of the same node answered, it is the pause's only if the run       *)
(* paused, and a run seals complete only if every node answered and every  *)
(* other fault was excused (engine.py mark_recovered, mark_reroute_recovered,*)
(* mark_route_fault_caused, accounting.py derive_status and unrecovered).  *)
DiscountsAreEarned ==
    /\ doors.recovered \cap (doors.paused \cup doors.held \cup doors.attempt) = {}
    /\ doors.paused \cap (doors.held \cup doors.attempt) = {}
    /\ \A f \in doors.recovered \cup doors.paused : f.door = "counted"
    /\ \A f \in doors.recovered :
         \E k \in run.leaves[NodeOf(f.of)] : k > f.of /\ leaf[k].status = "complete"
    /\ (doors.paused # {} \/ \E f \in faults : f.door = "pause") => Paused
    /\ run.status = "complete" =>
         /\ Len(run.outputs) = Len(run.plan) /\ Nulls = {}
         /\ \A f \in faults : f.why \in {"died", "exhausted"} => f \in doors.recovered

\* A panel's leaves in the order they were asked for: its attempts, the
\* judges of each attempt in turn, the synthesis.
Rank(n, l) == Cardinality({k \in run.leaves[n] : k <= l})
JudgesOf(n, i) ==
    {l \in run.leaves[n] : (Rank(n, l) - 1 - run.width) \div run.judges = i - 1 /\ Rank(n, l) > run.width}

(* The cell of a node is cached only if the work its spec asks for was     *)
(* done: every branch, skeptic and round answered, a draft was approved,   *)
(* every attempt of a panel answered and was scored by at least one of its *)
(* judges, and its synthesis answered.  A judge that died beside one that  *)
(* scored is nobody's loss here, whatever run_judge_panel says of a panel  *)
(* that ran whole (strategies.py run_parallel, run_verify, run_judge_panel,*)
(* run_loop_until_dry, gates.py run_gate).                                 *)
OnlyWholePanelsAreCached ==
    \A n \in run.cached :
        LET complete == {l \in run.leaves[n] : leaf[l].status = "complete"}
            good == {l \in complete : leaf[l].says = "good"}
        IN  CASE run.plan[n] = "parallel" -> Cardinality(good) >= run.width
              [] run.plan[n] = "verify" -> Cardinality(good) = run.width
              [] run.plan[n] = "panel" ->
                   /\ \A l \in run.leaves[n] : Rank(n, l) <= run.width => l \in complete
                   /\ \A i \in 1..run.width : JudgesOf(n, i) \cap good # {}
                   /\ run.synth => \E l \in good :
                        Rank(n, l) = run.width + run.width * run.judges + 1
              [] run.plan[n] = "loop" -> complete = run.leaves[n]
              [] run.plan[n] = "gate" -> Cardinality(good) >= 2
              [] OTHER -> good # {}

=============================================================================
