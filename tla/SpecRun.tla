------------------------------- MODULE SpecRun -------------------------------
(***************************************************************************)
(* A spec from its author to its last node.  validate_spec refuses what    *)
(* the engine would misread; what it accepts is put in order, each node    *)
(* reads its upstreams through ${references}, and a required node that     *)
(* comes back with nothing ends the run.  A workflow node validates and    *)
(* runs another template one level down, on a frame of its own.            *)
(*                                                                         *)
(* A node's leaves are its prompt's reads and their outcome (NodeStrategies*)
(* and PipelineRun look inside); an answer is text no path descends into.  *)
(***************************************************************************)
EXTENDS Integers, Sequences, FiniteSets, SequencesExt

CONSTANTS
    Specs,          \* what authors write
    Nil,
    Place,          \* the positions of a list, as path segments
    MaxRetries, MaxIterations, MaxAttempts, MaxFanout,   \* MAX_NODE_RETRIES, ...
    MaxDepth,       \* MAX_WORKFLOW_DEPTH
    NullTenths      \* TEMPLATE_NULL_RATE_MAX, in tenths

VARIABLES
    raw,      \* the authored spec
    stage,    \* "authored", "refused", "running" or "done"
    stack,    \* the frame of the run and, above it, of the nested run
    stopped,  \* Nil, or why the run stops: "cancelled" or "paused"
    verdict,  \* the status _seal stamps
    shelf,    \* the templates a run was certified as
    lost      \* a node or an element came to nothing and left a fault, ever

SpecAssumption ==
    /\ {MaxRetries, MaxIterations, MaxAttempts, MaxFanout, MaxDepth} \subseteq Nat \ {0}
    /\ Place # {} /\ NullTenths \in 0 .. 10

Reserved == {"args", "item", "stage", "winner", "round", "so_far"}
Aggregates == {"parallel", "pipeline", "loop_until_dry"}
RecordsDeaths == {"pipeline"}
-----------------------------------------------------------------------------
(* Values, and the references that read them. *)
Null == [kind |-> "null", of |-> <<>>]
Text == [kind |-> "text", of |-> <<>>]
Gaps == [kind |-> "gaps", of |-> <<>>]      \* {complete: false, missing: [...]}
Holding(kind, of) == [kind |-> kind, of |-> of]

IsNull(v) == v.kind = "null"

Segment(v, s) ==
    IF v.kind \in {"list", "map"} /\ s \in DOMAIN v.of THEN v.of[s] ELSE Null

\* The context of a prompt: the item of a stage over the outputs so far over args.
Lookup(fr, item, ref) ==
    LET root == IF ref.root = "item" /\ item # Nil THEN item[1]
                ELSE IF ref.root \in DOMAIN fr.out THEN fr.out[ref.root]
                ELSE IF ref.root = "args" THEN fr.args ELSE Null
    IN FoldLeft(Segment, root, ref.path)
-----------------------------------------------------------------------------
(* What validate_spec lets through. *)
Common == {"required", "depends_on"}
Routing == {"model", "tier", "effort", "provider"}

Needed ==
    [agent |-> {"prompt"}, parallel |-> {"branches"}, pipeline |-> {"items", "stages"},
     loop_until_dry |-> {"body", "stop_after_k_empty", "max_rounds"},
     verify |-> {"finding", "skeptics"}, judge_panel |-> {"attempts", "judges", "synthesize"},
     workflow |-> {"ref"}, gate |-> {"body", "validator"},
     completeness_check |-> {"task", "results"}, checkpoint |-> {"prompt"}]
Optional ==
    [agent |-> Routing \cup {"schema", "schema_ref", "tool_less", "timeout", "retries",
                             "max_iterations"},
     parallel |-> {"retries"}, pipeline |-> {}, loop_until_dry |-> Routing \cup {"budget"},
     verify |-> Routing \cup {"lenses", "kill_if_majority_refute"},
     judge_panel |-> Routing, workflow |-> {"args"}, gate |-> Routing \cup {"attempts"},
     completeness_check |-> Routing, checkpoint |-> {"default", "accept", "on_reject"}]

NodeTypes == DOMAIN Needed
Ids(s) == {s.nodes[i].id : i \in DOMAIN s.nodes}

\* _validate_node_shape: a known type, its fields and no others.
ShapeOK(n) ==
    /\ n.type \in NodeTypes
    /\ Needed[n.type] \subseteq DOMAIN n.fields
    /\ DOMAIN n.fields \subseteq Common \cup Needed[n.type] \cup Optional[n.type]
    /\ n.type = "agent" => ~({"schema", "schema_ref"} \subseteq DOMAIN n.fields)

Reads(n) == n.reads \cup (IF n.over = Nil THEN {} ELSE {n.over})

\* A schema name stands for something: the harness's own or the author's.
Known(s, v) == v.t = "text" /\ (v.n = 0 \/ v.n \in s.schemas)

ReferencesOK(s, n) ==
    /\ \A r \in Reads(n) : r.plain /\ r.root \in Reserved \cup Ids(s)
    /\ "schema_ref" \in DOMAIN n.fields =>
         (n.fields["schema_ref"].t = "text" => Known(s, n.fields["schema_ref"]))
    /\ "schema" \in DOMAIN n.fields =>
         n.fields["schema"].t \in {"object", "null"} \/ Known(s, n.fields["schema"])

WholeBetween(v, low, high) == v.t = "num" /\ v.n \in low .. high

\* required, timeout, retries, iterations, the loop's budget, tier: each in its bounds.
LifecycleOK(n, f) ==
    LET v == n.fields[f] IN
    CASE f = "required" -> v.t = "bool"
      [] f \in {"timeout", "budget"} -> v.t = "num" /\ v.n > 0
      [] f = "retries" -> WholeBetween(v, 0, MaxRetries)
      [] f = "max_iterations" -> WholeBetween(v, 1, MaxIterations)
      [] f = "tier" -> v.t = "tier"
      [] OTHER -> TRUE

\* Both halves of a gate are real; a gate with accept asks a person, so it has no default.
GateOK(n, f) ==
    LET v == n.fields[f] IN
    CASE f = "attempts" /\ n.type = "gate" -> WholeBetween(v, 1, MaxAttempts)
      [] f = "body" /\ n.type = "gate" -> v.t = "object"
      [] f = "validator" -> v.t = "text"
      [] f = "accept" -> v.t = "list" /\ v.n > 0
      [] f = "on_reject" -> v.t = "policy" /\ "accept" \in DOMAIN n.fields
      [] f = "default" -> "accept" \notin DOMAIN n.fields
      [] OTHER -> TRUE

FanoutOK(n) ==
    \A f \in DOMAIN n.fields \cap {"branches", "items"} :
        n.fields[f].t = "list" => n.fields[f].n <= MaxFanout

DependsOnOK(s, n) ==
    /\ "depends_on" \in DOMAIN n.fields => n.fields["depends_on"].t = "list"
    /\ n.deps \subseteq Ids(s)

\* NESTED_SHAPES: what one embedded agent-shaped entry may carry.
EntryFields ==
    [parallel |-> {"prompt"}, judge_panel |-> {"prompt", "schema", "schema_ref"},
     pipeline |-> {"prompt", "schema", "schema_ref", "retries", "max_iterations"},
     loop_until_dry |-> {"prompt", "schema", "schema_ref"},
     gate |-> {"prompt", "schema", "schema_ref"}]

\* id and type "agent" are let through; only the panel's and the loop's schema must resolve.
NestedOK(s, n) ==
    (n.type \in DOMAIN EntryFields) =>
      /\ DOMAIN n.entry \subseteq EntryFields[n.type] \cup {"id", "type"}
      /\ "type" \in DOMAIN n.entry => n.entry["type"].t = "agent"
      /\ ~({"schema", "schema_ref"} \subseteq DOMAIN n.entry)
      /\ \A f \in DOMAIN n.entry \cap {"schema", "schema_ref"} :
           n.type \in {"judge_panel", "loop_until_dry"} =>
             (f = "schema" /\ n.entry[f].t = "object") \/ Known(s, n.entry[f])
      /\ (n.type = "pipeline" /\ "max_iterations" \in DOMAIN n.entry) =>
           WholeBetween(n.entry["max_iterations"], 1, MaxIterations)

\* _detect_cycles walks its own edges, depends_on and reference roots alike: a
\* cycle is a set of nodes none of which can go first.
Edges(s, n) == (n.deps \cup {r.root : r \in Reads(n)}) \cap Ids(s)
Acyclic(s) ==
    \A S \in SUBSET DOMAIN s.nodes \ {{}} :
        \E i \in S : \A j \in S : s.nodes[j].id \notin Edges(s, s.nodes[i])

\* The meta has a name and no reference; no schema redefines one of the harness's.
HeaderOK(s) == s.named /\ s.schemasOK

Accepted(s) ==
    /\ HeaderOK(s) /\ s.nodes # <<>>
    /\ \A i, j \in DOMAIN s.nodes : s.nodes[i].id = s.nodes[j].id => i = j
    /\ \A i \in DOMAIN s.nodes :
         LET n == s.nodes[i] IN
         /\ ShapeOK(n) /\ ReferencesOK(s, n) /\ DependsOnOK(s, n) /\ NestedOK(s, n)
         /\ FanoutOK(n) /\ \A f \in DOMAIN n.fields : LifecycleOK(n, f) /\ GateOK(n, f)
    /\ Acyclic(s)
-----------------------------------------------------------------------------
(* The order, and the frame of one run. *)
NodeOf(s, id) == s.nodes[CHOOSE i \in DOMAIN s.nodes : s.nodes[i].id = id]

\* graph.dependencies, the edges of the order and of the blame.
Dependencies(s, n) == (n.deps \cap Ids(s)) \cup ({r.root : r \in Reads(n)} \cap Ids(s))

Required(n) == "required" \in DOMAIN n.fields /\ n.fields["required"].n = 1

\* dependents_of: the least set that holds whoever depends on the failed or on a member.
DependentsOf(s, failed) ==
    LET Depends(id, D) == Dependencies(s, NodeOf(s, id)) \cap (D \cup {failed}) # {}
        Closed(D) == \A id \in Ids(s) \ {failed} : Depends(id, D) => id \in D
    IN {id \in Ids(s) : \A D \in SUBSET Ids(s) : Closed(D) => id \in D}

Frame(s, args) ==
    [spec |-> s, args |-> args, order |-> <<>>, at |-> 1, out |-> <<>>, died |-> {},
     recorded |-> <<>>, asked |-> {}, refused |-> {}, failed |-> Nil, aborted |-> FALSE,
     skipped |-> <<>>, nulls |-> 0, total |-> 0, faulted |-> FALSE]

Top == stack[Len(stack)]
Ordered(fr) == Len(fr.order) = Len(fr.spec.nodes)
Here == NodeOf(Top.spec, Top.order[Top.at])
Replace(fr) == [stack EXCEPT ![Len(stack)] = fr]

Author ==
    /\ stage = "authored"
    /\ IF Accepted(raw)
       THEN /\ stage' = "running"
            /\ stack' = <<Frame(raw, Holding("map", [x |-> Text]))>>
       ELSE stage' = "refused" /\ UNCHANGED stack
    /\ UNCHANGED <<raw, stopped, verdict, shelf, lost>>

\* topological_order: a layer of the ready, as authored; the rest when none is.
Arrange ==
    /\ stage = "running" /\ ~Ordered(Top)
    /\ LET s == Top.spec
           Placed == Range(Top.order)
           pending == SelectSeq([i \in DOMAIN s.nodes |-> s.nodes[i].id],
                                LAMBDA id : id \notin Placed)
           ready == SelectSeq(pending, LAMBDA id : Dependencies(s, NodeOf(s, id)) \subseteq Placed)
           next == IF ready = <<>> THEN pending ELSE ready
       IN stack' = Replace([Top EXCEPT !.order = @ \o next, !.total = Len(s.nodes)])
    /\ UNCHANGED <<raw, stage, stopped, verdict, shelf, lost>>
-----------------------------------------------------------------------------
(* What a prompt may be asked with. *)

\* aggregate_ref_nulls: the empty places of an aggregation that is read whole.
NullsIn(fr, ref) ==
    IF /\ ref.path = <<>> /\ ref.root \in DOMAIN fr.out
       /\ fr.out[ref.root].kind = "list"
       /\ NodeOf(fr.spec, ref.root).type \in Aggregates
    THEN {p \in DOMAIN fr.out[ref.root].of : IsNull(fr.out[ref.root].of[p])} ELSE {}

\* What an aggregation wrote down of its own dead.
Recorded(fr, id) ==
    IF NodeOf(fr.spec, id).type \in RecordsDeaths THEN fr.recorded[id] ELSE Place

\* Mutant: a null its schema permits counts as a dead item.
HoleIn_ByValue(fr, ref) == NullsIn(fr, ref) # {}

\* first_aggregate_hole: an empty place that is a death, not an answer.
HoleIn(fr, ref) ==
    NullsIn(fr, ref) # {} /\ NullsIn(fr, ref) \cap Recorded(fr, ref.root) # {}

\* strict_prompt.
Refused(fr, item, reads) ==
    \E r \in reads : IsNull(Lookup(fr, item, r)) \/ HoleIn(fr, r)

(* The node on turn settles on v; a required one with nothing ends the run. *)
Settled(fr, v, stop) ==
    LET n == NodeOf(fr.spec, fr.order[fr.at])
        nothing == Required(n) /\ IsNull(v)
        gaps == Required(n) /\ n.type = "completeness_check" /\ v.kind = "gaps"
        aborts == stop = Nil /\ (nothing \/ gaps \/ fr.failed # Nil)
        rest == SubSeq(fr.order, fr.at + 1, Len(fr.order))
        blamed == DependentsOf(fr.spec, n.id)
    IN [fr EXCEPT
          !.out = [id \in DOMAIN @ \cup {n.id} |-> IF id = n.id THEN v ELSE @[id]],
          !.at = @ + 1,
          !.nulls = @ + (IF IsNull(v) THEN 1 ELSE 0),
          !.failed = IF aborts /\ (nothing \/ gaps) THEN n.id ELSE @,
          !.aborted = aborts,
          !.skipped = IF aborts THEN [i \in DOMAIN rest |-> <<rest[i], rest[i] \in blamed>>]
                      ELSE @,
          !.faulted = @ \/ aborts]

Scheduled(types) ==
    /\ stage = "running" /\ Ordered(Top) /\ stopped = Nil /\ ~Top.aborted
    /\ Top.at <= Len(Top.order) /\ Here.type \in types

Keep == UNCHANGED <<raw, stage, stopped, verdict, shelf>>
Lose(yes) == lost' = (lost \/ yes)

RefuseNode(fr) ==
    /\ stack' = Replace(Settled([fr EXCEPT !.refused = @ \cup {<<Here.id, Nil>>},
                                           !.faulted = TRUE], Null, Nil))
    /\ Lose(TRUE) /\ Keep

(* A node of one answer: strict_prompt, then text, nothing, or a list of gaps. *)
Leaves == NodeTypes \ {"parallel", "pipeline", "workflow"}

SkipLeaf == Scheduled(Leaves) /\ Refused(Top, Nil, Here.reads) /\ RefuseNode(Top)

Answers(n) == {Text, Null} \cup (IF n.type = "completeness_check" THEN {Gaps} ELSE {})

AskLeaf ==
    /\ Scheduled(Leaves) /\ ~Refused(Top, Nil, Here.reads)
    /\ \E v \in Answers(Here) :
         /\ stack' = Replace(Settled([Top EXCEPT !.asked = @ \cup {<<Here.id, Nil>>},
                                                 !.faulted = @ \/ IsNull(v)], v, Nil))
         /\ Lose(IsNull(v))
    /\ Keep

\* The stop comes while the leaf runs: the node nulls, and that is no failure of it.
Interrupt ==
    /\ Scheduled(Leaves) /\ ~Refused(Top, Nil, Here.reads)
    /\ \E why \in {"cancelled", "paused"} :
         /\ stopped' = why
         /\ stack' = Replace(Settled([Top EXCEPT !.asked = @ \cup {<<Here.id, Nil>>}], Null, why))
    /\ Lose(TRUE) /\ UNCHANGED <<raw, stage, verdict, shelf>>

\* _leaf_prompts: authored branches read like prompts; a container from a
\* reference must be a list without a hole, and its entries are inert.
Container(n) == IF n.over = Nil THEN Holding("list", [p \in Place |-> Text])
                ELSE Lookup(Top, Nil, n.over)
BranchesRefused(n) ==
    IF n.over = Nil THEN Refused(Top, Nil, n.reads)
    ELSE Container(n).kind # "list" \/ HoleIn(Top, n.over)

SkipParallel == Scheduled({"parallel"}) /\ BranchesRefused(Here) /\ RefuseNode(Top)

\* A branch is collected with no schema: nothing is its death.
AskParallel ==
    /\ Scheduled({"parallel"}) /\ ~BranchesRefused(Here)
    /\ \E answered \in SUBSET DOMAIN Container(Here).of :
         LET width == DOMAIN Container(Here).of
             v == Holding("list", [p \in width |-> IF p \in answered THEN Text ELSE Null])
         IN /\ stack' = Replace(Settled(
                    [Top EXCEPT !.asked = @ \cup {<<Here.id, Nil>>},
                                !.died = @ \cup {<<Here.id, p>> : p \in width \ answered},
                                !.faulted = @ \/ answered # width], v, Nil))
            /\ Lose(answered # width)
    /\ Keep

SkipPipeline ==
    /\ Scheduled({"pipeline"}) /\ Container(Here).kind # "list" /\ RefuseNode(Top)

\* Each item alone: a refused or dead one is dropped and recorded; a stage whose
\* schema permits it answers null, which is no death.  A drop after answers the
\* schema refused leaves no fault.
AskPipeline ==
    /\ Scheduled({"pipeline"}) /\ Container(Here).kind = "list"
    /\ LET items == Container(Here).of
           refusedItems == {p \in DOMAIN items : Refused(Top, <<items[p]>>, Here.reads)}
           Fates == {"text", "dead", "invalid"} \cup (IF Here.nullable THEN {"null"} ELSE {})
       IN \E fate \in [DOMAIN items \ refusedItems -> Fates] :
            LET dead == {p \in DOMAIN fate : fate[p] \in {"dead", "invalid"}}
                loud == refusedItems \cup {p \in DOMAIN fate : fate[p] = "dead"}
                v == Holding("list", [p \in DOMAIN items |->
                        IF p \in DOMAIN fate /\ p \notin dead /\ fate[p] = "text"
                        THEN Text ELSE Null])
            IN /\ stack' = Replace(Settled(
                       [Top EXCEPT !.asked = @ \cup {<<Here.id, items[p]>> : p \in DOMAIN fate},
                           !.refused = @ \cup {<<Here.id, items[p]>> : p \in refusedItems},
                           !.died = @ \cup {<<Here.id, p>> : p \in dead \cup refusedItems},
                           !.recorded = [id \in DOMAIN @ \cup {Here.id} |->
                               IF id = Here.id THEN dead \cup refusedItems ELSE @[id]],
                           !.faulted = @ \/ loud # {}], v, Nil))
               /\ Lose(loud # {})
    /\ Keep
-----------------------------------------------------------------------------
(* What the runtime makes of a declared knob: itself, or a default. *)
Capped(v, low, high) ==
    IF v.t # "num" \/ v.n < low THEN Nil ELSE [v EXCEPT !.n = IF @ < high THEN @ ELSE high]

\* resolve_schema: inline, else by a name that stands for something.
Resolved(s, fields, f) ==
    LET v == fields[f] IN
    IF (f = "schema" /\ v.t = "object") \/ Known(s, v) THEN v ELSE Nil

KnobRead(s, n, f) ==
    LET v == n.fields[f] IN
    CASE f \in {"timeout", "budget"} -> IF v.t = "num" /\ v.n > 0 THEN v ELSE Nil
      [] f = "retries" -> Capped(v, 0, MaxRetries)
      [] f = "max_iterations" -> Capped(v, 1, MaxIterations)
      [] f = "attempts" /\ n.type = "gate" -> Capped(v, 1, MaxAttempts)
      [] f = "accept" -> IF v.t = "list" /\ v.n > 0 THEN v ELSE Nil
      [] f = "on_reject" -> IF v.t = "policy" THEN v ELSE Nil
      [] f \in {"schema", "schema_ref"} -> Resolved(s, n.fields, f)
      [] f \in {"skeptics", "judges", "stop_after_k_empty", "max_rounds"} ->
           IF v.t = "num" /\ v.n < 1 THEN [v EXCEPT !.n = 1] ELSE v
      [] OTHER -> v
-----------------------------------------------------------------------------
(* The nested run, and the ends. *)
Unrunnable(n) == n.child = Nil \/ ~Accepted(n.child[1])

\* Too deep, no such template, one the schema refuses, or a hole in the args.
SkipNested ==
    /\ Scheduled({"workflow"})
    /\ LET deep == Len(stack) > MaxDepth
           hole == Here.over # Nil /\ HoleIn(Top, Here.over)
       IN /\ ~(~deep /\ ~Unrunnable(Here) /\ ~hole)
          /\ IF ~deep /\ ~Unrunnable(Here) /\ hole THEN RefuseNode(Top)
             ELSE /\ stack' = Replace(Settled(
                        [Top EXCEPT !.faulted = @ \/ deep \/ Here.child # Nil], Null, Nil))
                  /\ Lose(TRUE) /\ Keep

\* A null crosses in the args; the child's own prompts refuse it.
CallNested ==
    /\ Scheduled({"workflow"}) /\ Len(stack) <= MaxDepth /\ ~Unrunnable(Here)
    /\ Here.over # Nil => ~HoleIn(Top, Here.over)
    /\ LET args == IF Here.over = Nil THEN <<>> ELSE [x |-> Lookup(Top, Nil, Here.over)]
       IN stack' = Append(Replace([Top EXCEPT !.asked = @ \cup {<<Here.id, Nil>>}]),
                          Frame(Here.child[1], Holding("map", args)))
    /\ UNCHANGED <<raw, stage, stopped, verdict, shelf, lost>>

Over(fr) == Ordered(fr) /\ (fr.at > Len(fr.order) \/ fr.aborted \/ stopped # Nil)

\* fold_nested, then the workflow node settles on the nested outputs.
ReturnNested ==
    /\ stage = "running" /\ Len(stack) > 1 /\ Over(Top)
    /\ LET caller == stack[Len(stack) - 1]
           folded == [caller EXCEPT !.nulls = @ + Top.nulls, !.total = @ + Top.total,
                                    !.faulted = @ \/ Top.faulted,
                                    !.failed = IF @ = Nil THEN Top.failed ELSE @]
       IN stack' = <<Settled(folded, Holding("map", Top.out), stopped)>>
    /\ UNCHANGED <<raw, stage, stopped, verdict, shelf, lost>>

DeriveStatus(fr) ==
    IF stopped # Nil THEN stopped
    ELSE IF fr.failed # Nil \/ fr.nulls >= fr.total THEN "failed"
    ELSE IF fr.nulls > 0 \/ fr.faulted THEN "degraded" ELSE "complete"

Seal ==
    /\ stage = "running" /\ Len(stack) = 1 /\ Over(Top)
    /\ stage' = "done" /\ verdict' = DeriveStatus(Top)
    /\ UNCHANGED <<raw, stack, stopped, shelf, lost>>

\* record_outcome, of a run that neither a pause nor a cancel ended.
Certify ==
    /\ stage = "done" /\ shelf = {} /\ verdict = "complete"
    /\ 10 * Top.nulls <= NullTenths * Top.total
    /\ shelf' = {raw}
    /\ UNCHANGED <<raw, stage, stack, stopped, verdict, lost>>

Cancel ==
    /\ stage = "running" /\ stopped = Nil /\ stopped' = "cancelled"
    /\ UNCHANGED <<raw, stage, stack, verdict, shelf, lost>>

SpecInit ==
    /\ raw \in Specs /\ stage = "authored" /\ stack = <<>> /\ stopped = Nil
    /\ verdict = Nil /\ shelf = {} /\ lost = FALSE

SpecNext ==
    \/ Author \/ Arrange \/ SkipLeaf \/ AskLeaf \/ Interrupt \/ SkipParallel \/ AskParallel
    \/ SkipPipeline \/ AskPipeline \/ SkipNested \/ CallNested \/ ReturnNested
    \/ Seal \/ Certify \/ Cancel

SpecTypeOK ==
    /\ raw \in Specs /\ stage \in {"authored", "refused", "running", "done"}
    /\ Len(stack) <= MaxDepth + 1 /\ (stage \in {"running", "done"}) = (stack # <<>>)
    /\ stopped \in {Nil, "cancelled", "paused"} /\ lost \in BOOLEAN /\ shelf \subseteq {raw}
    /\ verdict \in {Nil, "cancelled", "paused", "failed", "degraded", "complete"}
    /\ \A k \in DOMAIN stack :
         /\ Range(stack[k].order) \cup DOMAIN stack[k].out \subseteq Ids(stack[k].spec)
         /\ stack[k].nulls \in Nat /\ stack[k].total \in Nat
-----------------------------------------------------------------------------
(* What an accepted spec means. *)

\* What a node needs, as its author wrote it.
Wants(fr, id) ==
    LET n == NodeOf(fr.spec, id) IN (n.deps \cup {r.root : r \in Reads(n)}) \cap Ids(fr.spec)

(* A node runs, once, after everything it reads or waits for.              *)
RunsAfterItsUpstreams(fr) ==
    /\ IsInjective(fr.order)
    /\ Ordered(fr) => \A k \in 1 .. fr.at - 1 :
         Wants(fr, fr.order[k]) \subseteq {fr.order[j] : j \in 1 .. k - 1}

(* No leaf is asked over a missing upstream or over an aggregation with a  *)
(* dead element; and a refused one really read one of the two: a healthy   *)
(* null is no hole.  The outputs of a nested run are read unguarded.       *)
Dead(fr, item, ref) ==
    \/ IsNull(Lookup(fr, item, ref))
    \/ ref.path = <<>> /\ \E p \in Place : <<ref.root, p>> \in fr.died
Prompted(fr, a) ==
    LET n == NodeOf(fr.spec, a[1]) IN
    IF n.type \in {"parallel"} /\ n.over # Nil THEN {n.over} ELSE n.reads
PromptsAreWhole(fr) ==
    /\ \A a \in fr.asked : \A r \in Prompted(fr, a) :
         ~Dead(fr, IF a[2] = Nil THEN Nil ELSE <<a[2]>>, r)
    /\ \A a \in fr.refused :
         LET n == NodeOf(fr.spec, a[1]) IN
         \/ \E r \in Prompted(fr, a) \cup Reads(n) : Dead(fr, IF a[2] = Nil THEN Nil ELSE <<a[2]>>, r)
         \/ n.over # Nil /\ Lookup(fr, Nil, n.over).kind # "list"

(* A required node that came to nothing is the last that runs, whoever was *)
(* skipped says so, and blames the failure exactly when it needed it.      *)
AbortsAreHonest(fr) ==
    LET told == {fr.skipped[i][1] : i \in {j \in DOMAIN fr.skipped : fr.skipped[j][2]}}
        failed == fr.order[fr.at - 1]
    IN /\ fr.aborted => Ids(fr.spec) =
             {fr.order[k] : k \in 1 .. fr.at - 1} \cup {fr.skipped[i][1] : i \in DOMAIN fr.skipped}
       /\ fr.aborted => \A i \in DOMAIN fr.skipped :
             fr.skipped[i][2] <=> Wants(fr, fr.skipped[i][1]) \cap (told \cup {failed}) # {}
       /\ stopped = Nil /\ ~fr.aborted =>
             \A id \in DOMAIN fr.out : Required(NodeOf(fr.spec, id)) => ~IsNull(fr.out[id])

(* A knob an accepted spec declares is the knob the run is held to: nothing *)
(* falls back to a default or is clamped, and no gate that names its        *)
(* releasing answers carries a standing one.  A schema_ref that is no name  *)
(* (or a null schema), and how many rounds, skeptics or judges there are,   *)
(* pass the validator unread and are not covered.                           *)
NoKnobIsIgnored ==
    \A k \in DOMAIN stack : \A i \in DOMAIN stack[k].spec.nodes :
        LET s == stack[k].spec
            n == s.nodes[i]
        IN /\ \A f \in DOMAIN n.fields :
                KnobRead(s, n, f) = n.fields[f]
                  \/ (f = "schema" /\ n.fields[f].t = "null")
                  \/ (f = "schema_ref" /\ n.fields[f].t # "text")
                  \/ f \in {"skeptics", "judges", "stop_after_k_empty", "max_rounds"}
           /\ ~({"accept", "default"} \subseteq DOMAIN n.fields)

(* A template the library offers is a spec whose run gave every node       *)
(* something and hid nothing that died, nested runs included.              *)
CertifiedIsWhole ==
    shelf # {} => /\ ~lost /\ stopped = Nil /\ Ids(raw) = DOMAIN Top.out
                  /\ \A id \in DOMAIN Top.out : ~IsNull(Top.out[id])

AcceptedSpecsRunWhole ==
    /\ \A k \in DOMAIN stack :
         RunsAfterItsUpstreams(stack[k]) /\ PromptsAreWhole(stack[k]) /\ AbortsAreHonest(stack[k])
    /\ CertifiedIsWhole
=============================================================================
