------------------------------ MODULE MCRecords ------------------------------
(***************************************************************************)
(* What a run and a session leave behind, for TLC: books, caches, ledgers  *)
(* and notices.  The initial state chooses which part is examined; the     *)
(* parts share no state, so one behaviour is a behaviour of one part, and  *)
(* v1 .. v9 hold the variables of whichever that is.                       *)
(***************************************************************************)
EXTENDS AuthoredSpecs, Sequences

CONSTANTS
    Lifetime, MaxFanout, TokenBudget, NoCeiling, EstTokens, Ends,   \* EngineBooks
    Width, Judges, Attempts, MaxFallbacks, Corrections, MaxTimeouts,        \* NodeStrategies
    SmallLifetime, SmallBudget, PipeEnds, Items, Stages, Retries,   \* PipelineRun
    Process, Turn, Token, Root, Owner, Fact, NoToken, Cap, ClaimMax, TrailCap,
    MaxAgents, MaxNotices, MaxFaults,                               \* GatewaySessions
    Cell, Ceiling, MaxStretch, MaxTurns,                            \* RunLedger
    Version, Value, Content, Opening, MaxEdits, MaxStretches,       \* ResumePreview
    AskingPlans, Said, Routes, Default, RouteFates, Provider, Price, NoCredential, Fallbacks,
    MaxMoves, Tiers, Catalog, MaxOutages                            \* PausedRun

VARIABLES part, v1, v2, v3, v4, v5, v6, v7, v8, v9

Kind == {"agent", "parallel", "verify", "panel", "loop", "gate", "critic"}

\* Every kind of node alone, and two short chains.
ThePlans == {<<k>> : k \in Kind} \cup {<<"agent", "agent">>, <<"critic", "verify">>}

Nodes == INSTANCE NodeStrategies WITH Plans <- ThePlans,
    budget <- v1, leaf <- v2, book <- v3, stop <- v4, faults <- v5,
    run <- v6, ask <- v7, doors <- v8, route <- v9

Pipeline == INSTANCE PipelineRun WITH
    Lifetime <- SmallLifetime, TokenBudget <- SmallBudget, Ends <- PipeEnds,
    budget <- v1, leaf <- v2, book <- v3, stop <- v4, faults <- v5, job <- v6, pipe <- v7

Gateway == INSTANCE GatewaySessions WITH
    board <- v1, trail <- v2, nextId <- v3, sessions <- v4, lock <- v5, live <- v6,
    agents <- v7, turn <- v8, faults <- v9

Ledger == INSTANCE RunLedger WITH
    store <- v1, stretch <- v2, leaf <- v3, faults <- v4

Leaf(scope, id, label, node, wave, reads, path) ==
    [scope |-> scope, id |-> id, label |-> label, node |-> node, wave |-> wave,
     kind |-> "leaf", reads |-> reads, path |-> path]
Gate(id, wave, reads) == [Leaf(Root, id, id, id, wave, reads, Nil) EXCEPT !.kind = "checkpoint"]

\* A nested call that writes its caller's file; two calls of one template; a
\* gate between two writers of one file; a nested pipeline of equal items.
CellPlans == {
    <<Leaf(Root, "t", "t", "t", 1, {}, "p"), Leaf("a", "t", "a:t", "a", 2, {}, "p"),
      Leaf(Root, "n", "n", "n", 3, {2}, Nil)>>,
    <<Leaf("a", "t", "a:t", "a", 1, {}, Nil), Leaf("b", "t", "b:t", "b", 1, {}, Nil),
      Gate("g", 2, {1})>>,
    <<Leaf(Root, "t", "t", "t", 1, {}, "p"), Gate("g", 2, {1}),
      Leaf(Root, "n", "n", "n", 3, {2}, "p")>>,
    <<Leaf("a", "t", "a:t[0]", "a", 1, {}, "p"), Leaf("a", "t", "a:t[1]", "a", 1, {}, "p")>>}

Preview == INSTANCE ResumePreview WITH Plans <- CellPlans,
    plan <- v1, version <- v2, rows <- v3, disk <- v4, answers <- v5, stretch <- v6,
    preview <- v7

Asker(call, id, kind, reads) ==
    [call |-> call, id |-> id, kind |-> kind, route |-> Nil, tier |-> Nil, retries |-> FALSE,
     reads |-> reads, accept |-> {}, rejects |-> FALSE, default |-> Nil]
Agent(id, on, reads) == [Asker(Root, id, "agent", reads) EXCEPT !.route = on]
Guarded(id) ==
    [Asker(Root, id, "gate", {}) EXCEPT !.accept = {"yes"}, !.rejects = TRUE]
Open(call, id, reads, default) == [Asker(call, id, "gate", reads) EXCEPT !.default = default]

\* A gate on a moved node; two routed nodes; a nested question between two
\* guarded ones of its bare id and of its label; leaves nobody can move.
TheAskingPlans == {
    <<[Agent(<<"x">>, "a", {}) EXCEPT !.retries = TRUE], Open(Root, <<"g">>, {1}, "no")>>,
    <<[Agent(<<"x">>, Nil, {}) EXCEPT !.tier = 1], Agent(<<"y">>, "b", {1})>>,
    <<Guarded(<<"g">>), Open("n", <<"g">>, {}, "yes"), Guarded(<<"n", "g">>)>>,
    <<Asker(Root, <<"p">>, "pipeline", {}), Asker("n", <<"x">>, "agent", {})>>}

TheFates == {[a |-> f, b |-> g, c |-> h] :
                f \in {"ok", "auth", "gone", "flaky"}, g \in {"ok", "auth"},
                h \in {"ok", "gone"}}
TheProvider == [a |-> 1, b |-> 1, c |-> 2]
ThePrice == [a |-> 2, b |-> 2, c |-> 1]
TheFallbacks == [a |-> <<"b">>, b |-> <<"a", "c">>, c |-> <<"b">>]
TheTiers == <<"a", "b">>

Paused == INSTANCE PausedRun WITH
    Plans <- AskingPlans, Fates <- RouteFates, Refused <- NoCredential, Known <- Catalog,
    plan <- v1, fate <- v2, line <- v3, rows <- v4, brake <- v5, run <- v6, ghost <- v7

Specified == INSTANCE SpecRun WITH
    Specs <- AllSpecs, Place <- {"0", "1"}, MaxRetries <- 2, MaxIterations <- 2,
    MaxAttempts <- 2, MaxFanout <- 2, MaxDepth <- 1,
    raw <- v1, stage <- v2, stack <- v3, stopped <- v4, verdict <- v5, lost <- v6,
    shelf <- v7, NullTenths <- 2

ASSUME RecordsAssumption ==
    /\ Nodes!BudgetAssumption /\ Nodes!StrategiesAssumption /\ Gateway!GatewayAssumption
    /\ Pipeline!BudgetAssumption /\ Pipeline!PipelineAssumption /\ Ledger!LedgerAssumption
    /\ Preview!PreviewAssumption /\ Paused!PausedAssumption
    /\ Specified!SpecAssumption

after7 == <<v8, v9>>
after4 == <<v5, v6, v7, after7>>
vars == <<part, v1, v2, v3, v4, after4>>

Unused7 == v8 = 0 /\ v9 = 0
Unused4 == v5 = 0 /\ v6 = 0 /\ v7 = 0 /\ Unused7

\* A series is declared only where the spec has a place for one, and a knob
\* of a panel varies only in a panel.  Of the chains, only those that no cell
\* of an earlier node can stop.
Init ==
    \/ /\ part = "nodes" /\ Nodes!NodesInit
       /\ v6.declared => v6.plan \in {<<"agent">>, <<"parallel">>}
       /\ Len(v6.plan) = 2 => ~v6.required
       /\ v6.plan # <<"panel">> => v6.width = Width /\ v6.judges = 1 /\ ~v6.synth
       /\ v6.plan = <<"panel">> => v6.synth \/ v6.width < v6.judges
    \/ part = "pipeline" /\ Pipeline!Init /\ Unused7
    \/ part = "gateway" /\ Gateway!Init
    \/ part = "ledger" /\ Ledger!Init /\ Unused4
    \/ part = "preview" /\ Preview!PreviewInit /\ Unused7
    \/ part = "paused" /\ Paused!PausedInit /\ Unused7
    \/ part = "spec" /\ Specified!SpecInit /\ Unused7

Next ==
    \/ part = "nodes" /\ Nodes!NodesNext /\ UNCHANGED part
    \/ part = "pipeline" /\ Pipeline!Next /\ UNCHANGED <<part, after7>>
    \/ part = "gateway" /\ Gateway!Next /\ UNCHANGED part
    \/ part = "ledger" /\ Ledger!LedgerNext /\ UNCHANGED <<part, after4>>
    \/ part = "preview" /\ Preview!PreviewNext /\ UNCHANGED <<part, after7>>
    \/ part = "paused" /\ Paused!PausedNext /\ UNCHANGED <<part, after7>>
    \/ part = "spec" /\ Specified!SpecNext /\ UNCHANGED <<part, after7>>

Spec == Init /\ [][Next]_vars
-----------------------------------------------------------------------------
(* Every part's state has its type. *)
TypeOK ==
    /\ part = "nodes" => Nodes!NodesTypeOK
    /\ part = "pipeline" => Pipeline!PipelineTypeOK
    /\ part = "gateway" => Gateway!TypeOK
    /\ part = "ledger" => Ledger!TypeOK
    /\ part = "preview" => Preview!PreviewTypeOK
    /\ part = "paused" => Paused!PausedTypeOK
    /\ part = "spec" => Specified!SpecTypeOK

(* Each property is its module's, of the part it is about. *)
DiscountsAreEarned == part = "nodes" => Nodes!DiscountsAreEarned
OnlyWholePanelsAreCached == part = "nodes" => Nodes!OnlyWholePanelsAreCached
BooksCloseOnLeaves ==
    part = "pipeline" => Pipeline!BooksAreTheLeaves /\ Pipeline!ReportIsFinal
NoticesExplained == part = "gateway" => Gateway!NoticesExplained
SpendIsNeverForgotten == part = "ledger" => Ledger!SpendIsNeverForgotten
GatesOpenOnHumanWord == part = "paused" => Paused!GatesOpenOnHumanWord
MovesAreAuthorised == part = "paused" => Paused!MovesAreAuthorised
AcceptedSpecsHold ==
    part = "spec" => Specified!AcceptedSpecsRunWhole /\ Specified!NoKnobIsIgnored
ResumeKeepsItsWord == part = "preview" => Preview!ReplaysItsOwn /\ Preview!NeverUnderstated
=============================================================================
