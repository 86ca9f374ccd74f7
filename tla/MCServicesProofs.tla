--------------------------- MODULE MCServicesProofs ---------------------------
(***************************************************************************)
(* What is proved of a component holds of MCServices' part about it: the   *)
(* initial state chooses the part, and a step of the union is a step of it.*)
(***************************************************************************)
EXTENDS MCServices, Sequences, FiniteSetTheorems, SequenceTheorems, TLAPS

\* A step of the union is a step of its part, or leaves every variable alone.
LEMMA ResumingMoves ==
    ASSUME [Next]_vars, part' = "auto"
    PROVE  part = "auto" /\ [Resuming!Next]_(Resuming!vars)
<1>1. CASE Next
  BY <1>1 DEF Next
<1>2. CASE UNCHANGED vars
  BY <1>2 DEF vars, after5, Resuming!vars
<1> QED BY <1>1, <1>2

\* The same of the part about late snapshots.
LEMMA LateMoves ==
    ASSUME [Next]_vars, part' = "late"
    PROVE  part = "late" /\ [Late!Next]_(Late!vars)
<1>1. CASE Next
  BY <1>1 DEF Next
<1>2. CASE UNCHANGED vars
  BY <1>2 DEF vars, after5, Late!vars
<1> QED BY <1>1, <1>2

\* What the cap of the auto-resumes rests on, in the part about them.
ResumingInv ==
    part = "auto" =>
        /\ Resuming!TypeOK /\ Resuming!OneLaunch
        /\ Resuming!PlansHaveAttempts /\ Resuming!LaunchesHaveAttempts

\* RunOwnership's AutoResumesAreCapped, of the part examined here: no auto-resume
\* launches a run more often than the plan it was armed under allows.
THEOREM AutoLaunchesAreCapped == Spec => AutoResumeCapped
<1> USE RunsAssumption
<1>1. Init => ResumingInv
  BY Resuming!InitType, Resuming!AttemptsInitially DEF Init, ResumingInv
<1>2. ResumingInv /\ [Next]_vars => ResumingInv'
  BY ResumingMoves, Resuming!TypeStep, Resuming!AttemptsStep DEF ResumingInv
<1>3. ResumingInv /\ [Next]_vars => [part = "auto" => Resuming!AutoLaunchIsCapped]_vars
  <2> SUFFICES ASSUME ResumingInv, Next, part = "auto" PROVE Resuming!AutoLaunchIsCapped
    OBVIOUS
  <2>1. Resuming!TypeOK /\ Resuming!LaunchesHaveAttempts /\ [Resuming!Next]_(Resuming!vars)
    BY DEF Next, ResumingInv
  <2> QED BY <2>1, Resuming!CappedStep
<1> QED BY <1>1, <1>2, <1>3, PTL DEF Spec, AutoResumeCapped

\* What the refinement rests on, in the part about late snapshots.
LateInv ==
    part = "late" =>
        Late!TypeOK /\ Late!AnnouncedIsDurable /\ Late!LaunchSeesTheLine

\* RunOwnership's refinement, with snapshots of the run that are written late: every
\* step is one of the lifecycle's, or none.
THEOREM LateSnapshotsImplementLifecycle == Spec => ImplementsLifecycle
<1> USE RunsAssumption
<1>1. Init => LateInv /\ (part = "late" => Late!Lifecycle!LifecycleInit)
  BY Late!InitType, Late!AnnouncedInitially, Late!LaunchSeesInitially, Late!LifecycleInitially
     DEF Init, LateInv
<1>2. LateInv /\ [Next]_vars => LateInv'
  BY LateMoves, Late!TypeStep, Late!AnnouncedStep, Late!LaunchSeesStep DEF LateInv
<1>3. LateInv /\ [Next]_vars =>
        [part = "late" =>
            Late!Lifecycle!LifecycleNext \/ UNCHANGED Late!Lifecycle!lifecycleVars]_vars
  <2> SUFFICES ASSUME LateInv, Next, part = "late"
               PROVE  Late!Lifecycle!LifecycleNext \/ UNCHANGED Late!Lifecycle!lifecycleVars
    OBVIOUS
  <2>1. /\ Late!TypeOK /\ Late!AnnouncedIsDurable /\ Late!LaunchSeesTheLine
        /\ [Late!Next]_(Late!vars)
    BY DEF Next, LateInv
  <2> QED BY <2>1, Late!LifecycleStep
<1> QED BY <1>1, <1>2, <1>3, PTL DEF Spec, ImplementsLifecycle

BridgePart == part = "server" => Bridge!StreamInv

\* StreamServer's ProducersStayOwned, of the part examined here: every live producer
\* is in the inventory, within its limit, and clean-up finds none.
THEOREM ServicesOwnTheirProducers == Spec => []ProducersAreOwned
<1> USE ServersAssumption
<1>1. Init => BridgePart
  BY Bridge!StreamInitially DEF Init, BridgePart
<1>2. BridgePart /\ [Next]_vars => BridgePart'
  <2> SUFFICES ASSUME BridgePart, [Next]_vars, part' = "server" PROVE Bridge!StreamInv'
    BY DEF BridgePart
  <2>1. part = "server" /\ [Bridge!StreamNext]_(Bridge!streamVars)
    <3>1. CASE Next
      BY <3>1 DEF Next
    <3>2. CASE UNCHANGED vars
      BY <3>2 DEF vars, after5, Bridge!streamVars
    <3> QED BY <3>1, <3>2
  <2> QED BY <2>1, Bridge!StreamStep DEF BridgePart
<1>3. BridgePart => ProducersAreOwned
  BY Bridge!InvOwned DEF BridgePart, ProducersAreOwned
<1> QED BY <1>1, <1>2, <1>3, PTL DEF Spec

-------------------------------------------------------------------------------
(* The tools of external servers: v1 is entries, v2 session, v3 manager,   *)
(* v4 call.                                                                *)

ManagerRow ==
    [pc : {"idle", "wait", "list", "publish", "relist", "republish", "close", "join", "down"},
     at : ToolServer \cup {Nobody}, todo : SUBSET ToolServer, tracked : SUBSET ToolServer,
     closing : BOOLEAN, listed : SUBSET ToolName, told : [ToolServer -> SUBSET ToolName],
     refreshes : Nat, late : SUBSET ToolServer]

SessionRow ==
    [at : {"none", "opening", "serving", "over"}, failed : BOOLEAN, stop : BOOLEAN]

CallRow ==
    [pc : {"idle", "judged", "handler", "sent"}, name : ToolName,
     server : ToolServer \cup {Nobody}]

ToolTypes ==
    /\ v1 \in [ToolName -> ToolServer \cup {"none", "builtin"}]
    /\ v2 \in [ToolServer -> SessionRow]
    /\ v3 \in ManagerRow
    /\ v4 \in [Leaf -> CallRow]

\* A call at its handler is at one of the servers its run may reach.
CallsInv == \A l \in Leaf : v4[l].pc \in {"handler", "sent"} => v4[l].server \in Reach

(* Whoever is not tracked owns nothing, and whoever is owns what it listed *)
(* last; the built-ins keep their names.                                   *)
OwnersInv ==
    /\ v3.todo \cap v3.tracked = {}
    /\ \A n \in ToolName : v1[n] = "builtin" <=> n \in BuiltinName
    /\ \A s \in ToolServer :
         /\ s \notin v3.tracked => Tools!Owned(s) = {}
         /\ s \in v3.tracked => Tools!Owned(s) = v3.told[s] \ BuiltinName

(* Whom the manager is busy with is not tracked yet, or no longer; a       *)
(* refresh has taken its names away first.                                 *)
HereInv ==
    /\ v3.pc \in {"wait", "list", "publish", "close", "join"} =>
          v3.at \in ToolServer /\ v3.at \notin v3.tracked /\ v3.at \notin v3.todo
    /\ v3.pc \in {"relist", "republish"} =>
          v3.at \in v3.tracked /\ Tools!Owned(v3.at) = {}

\* A connection that is open or opening is tracked, told to stop, given up on, or at hand.
Tended(s) ==
    \/ s \in v3.tracked \/ v2[s].stop \/ s \in v3.late
    \/ v3.pc \in {"wait", "list", "publish", "close"} /\ v3.at = s

OpenInv ==
    \A s \in ToolServer :
      /\ v2[s].failed => v2[s].at = "over"
      /\ s \in v3.todo => v2[s].at = "none"
      /\ v2[s].at \in {"opening", "serving"} => Tended(s)

ToolsInv == ToolTypes /\ CallsInv /\ OwnersInv /\ HereInv /\ OpenInv

\* A session's thread: nobody's names change.
LEMMA ThreadKeeps ==
    ASSUME ToolsInv, NEW s \in ToolServer, Tools!Opened(s) \/ Tools!Broken(s) \/ Tools!Left(s)
    PROVE  ToolsInv'
<1>1. PICK at \in {"serving", "over"}, failed \in BOOLEAN :
        /\ v2' = [v2 EXCEPT ![s].at = at, ![s].failed = failed]
        /\ UNCHANGED <<v1, v3, v4>>
        /\ failed => at = "over"
        /\ at = "serving" => v2[s].at = "opening"
        /\ v2[s].at \in {"opening", "serving"}
  BY Zenon DEF Tools!Opened, Tools!Broken, Tools!Left, Tools!Thread
<1>2. /\ v2' \in [ToolServer -> SessionRow]
      /\ v2'[s].at = at /\ v2'[s].failed = failed /\ v2'[s].stop = v2[s].stop
      /\ \A q \in ToolServer : q # s => v2'[q] = v2[q]
  BY Zenon, <1>1 DEF ToolsInv, ToolTypes, SessionRow
<1>3. OpenInv'
  <2> SUFFICES ASSUME NEW q \in ToolServer
               PROVE  /\ v2'[q].failed => v2'[q].at = "over"
                      /\ q \in v3'.todo => v2'[q].at = "none"
                      /\ v2'[q].at \in {"opening", "serving"} => Tended(q)'
    BY DEF OpenInv
  <2>1. Tended(q) => Tended(q)'
    BY <1>1, <1>2 DEF Tended
  <2> QED BY <1>1, <1>2, <2>1 DEF ToolsInv, OpenInv
<1> QED BY <1>1, <1>2, <1>3
        DEF ToolsInv, ToolTypes, CallsInv, OwnersInv, HereInv, Tools!Owned

\* A leaf's call: the entry that is judged at the dispatch is the one that is called.
LEMMA CallKeeps ==
    ASSUME ToolsInv, NEW l \in Leaf,
           \/ \E n \in ToolName : Tools!Preflight(l, n)
           \/ Tools!Dispatch(l) \/ Tools!Send(l) \/ Tools!Answered(l)
    PROVE  ToolsInv'
<1>0. Reach \subseteq ToolServer
  BY ServersAssumption DEF Tools!McpAssumption
<1>1. PICK c \in CallRow :
        /\ v4' = [v4 EXCEPT ![l] = c] /\ UNCHANGED <<v1, v2, v3>>
        /\ c.pc \in {"handler", "sent"} => c.server \in Reach
  <2>1. v4[l] \in CallRow /\ (v4[l].pc \in {"handler", "sent"} => v4[l].server \in Reach)
    BY DEF ToolsInv, ToolTypes, CallsInv
  <2>2. CASE \E n \in ToolName : Tools!Preflight(l, n)
    <3>1. PICK n \in ToolName : Tools!Preflight(l, n)
      BY <2>2
    <3> DEFINE c == [v4[l] EXCEPT !.pc = "judged", !.name = n]
    <3>2. c \in CallRow /\ c.pc = "judged"
      BY Zenon, <2>1 DEF CallRow
    <3>3. v4' = [v4 EXCEPT ![l] = c] /\ UNCHANGED <<v1, v2, v3>>
      BY Zenon, <3>1 DEF Tools!Preflight
    <3> HIDE DEF c
    <3> QED BY Zenon, <3>2, <3>3
  <2>3. CASE Tools!Dispatch(l)
    <3> DEFINE n == v4[l].name
               go == [v4[l] EXCEPT !.pc = "handler", !.server = v1[n]]
               back == [v4[l] EXCEPT !.pc = "idle"]
    <3>1. CASE Tools!Permitted(l, n) /\ v4' = [v4 EXCEPT ![l] = go]
      <4>1. v1[n] \in Reach
        BY <3>1 DEF Tools!Permitted, Tools!MayCall
      <4>2. go \in CallRow /\ go.server \in Reach
        BY Zenon, <1>0, <2>1, <4>1 DEF CallRow
      <4>3. UNCHANGED <<v1, v2, v3>>
        BY <2>3 DEF Tools!Dispatch
      <4> HIDE DEF go
      <4> QED BY Zenon, <3>1, <4>2, <4>3
    <3>2. CASE v4' = [v4 EXCEPT ![l] = back]
      <4>1. back \in CallRow /\ back.pc = "idle"
        BY <2>1 DEF CallRow
      <4>2. UNCHANGED <<v1, v2, v3>>
        BY <2>3 DEF Tools!Dispatch
      <4> HIDE DEF back
      <4> QED BY Zenon, <3>2, <4>1, <4>2
    <3> QED BY Zenon, <2>3, <3>1, <3>2 DEF Tools!Dispatch
  <2>4. CASE Tools!Send(l) \/ Tools!Answered(l)
    <3>1. PICK pc \in {"sent", "idle"} :
            v4' = [v4 EXCEPT ![l].pc = pc] /\ v4[l].pc \in {"handler", "sent"}
      BY <2>4 DEF Tools!Send, Tools!Answered, Tools!CallAt
    <3> DEFINE c == [v4[l] EXCEPT !.pc = pc]
    <3>2. c \in CallRow /\ c.server = v4[l].server /\ v4' = [v4 EXCEPT ![l] = c]
      BY <2>1, <3>1 DEF CallRow
    <3>3. UNCHANGED <<v1, v2, v3>>
      BY <2>4 DEF Tools!Send, Tools!Answered, Tools!CallAt
    <3> HIDE DEF c
    <3> QED BY Zenon, <2>1, <3>1, <3>2, <3>3
  <2> QED BY <2>2, <2>3, <2>4
<1>2. v4' \in [Leaf -> CallRow] /\ CallsInv'
  BY <1>1 DEF ToolsInv, ToolTypes, CallsInv
<1> QED BY <1>1, <1>2
        DEF ToolsInv, ToolTypes, OwnersInv, HereInv, OpenInv, Tended, Tools!Owned

(* The manager's steps. One that touches no name leaves the owners alone.  *)
LEMMA ManagerMoves ==
    ASSUME ToolsInv, NEW m \in ManagerRow, v3' = m, UNCHANGED <<v1, v4>>,
           v2' \in [ToolServer -> SessionRow],
           m.told = v3.told, m.tracked = v3.tracked, m.todo \subseteq v3.todo,
           m.pc \in {"wait", "list", "publish", "close", "join"} =>
              m.at \in ToolServer /\ m.at \notin m.tracked /\ m.at \notin m.todo,
           m.pc \in {"relist", "republish"} =>
              v3.pc \in {"relist", "republish"} /\ m.at = v3.at,
           OpenInv'
    PROVE  ToolsInv'
<1>1. OwnersInv'
  BY DEF ToolsInv, OwnersInv, Tools!Owned
<1>2. HereInv'
  BY DEF ToolsInv, HereInv, Tools!Owned
<1> QED BY <1>1, <1>2 DEF ToolsInv, ToolTypes, CallsInv

\* What a manager's step starts from.
LEMMA ManagerFacts ==
    ASSUME ToolsInv
    PROVE  /\ v3 \in ManagerRow /\ v2 \in [ToolServer -> SessionRow]
           /\ HereInv /\ OwnersInv /\ OpenInv /\ CallsInv /\ ToolTypes
BY DEF ToolsInv, ToolTypes

\* The next server is connected to.
LEMMA ConnectKeeps ==
    ASSUME ToolsInv, NEW s \in ToolServer, Tools!Connect(s)
    PROVE  ToolsInv'
<1> DEFINE m == [[v3 EXCEPT !.pc = "wait"] EXCEPT !.at = s, !.todo = v3.todo \ {s}]
<1>1. /\ v3.pc = "idle" /\ s \in v3.todo /\ UNCHANGED <<v1, v4>>
      /\ v2' = [v2 EXCEPT ![s].at = "opening"] /\ v3' = m
  BY DEF Tools!Connect, Tools!At, Tools!Manager
<1>2. /\ m \in ManagerRow /\ m.pc = "wait" /\ m.at = s /\ m.todo = v3.todo \ {s}
      /\ m.tracked = v3.tracked /\ m.told = v3.told /\ m.late = v3.late
  BY Zenon, ManagerFacts DEF ManagerRow
<1> HIDE DEF m
<1>3. v2[s].at = "none" /\ ~v2[s].failed /\ s \notin v3.tracked
  BY <1>1, ManagerFacts DEF OwnersInv, OpenInv
<1>4. /\ v2' \in [ToolServer -> SessionRow] /\ v2'[s].at = "opening" /\ ~v2'[s].failed
      /\ \A q \in ToolServer : q # s => v2'[q] = v2[q]
  BY <1>1, <1>3, ManagerFacts DEF SessionRow
<1>5. OpenInv'
  <2> SUFFICES ASSUME NEW q \in ToolServer
               PROVE  /\ v2'[q].failed => v2'[q].at = "over"
                      /\ q \in v3'.todo => v2'[q].at = "none"
                      /\ v2'[q].at \in {"opening", "serving"} => Tended(q)'
    BY DEF OpenInv
  <2>1. CASE q = s
    BY <1>1, <1>2, <1>4, <2>1 DEF Tended
  <2>2. CASE q # s
    BY <1>1, <1>2, <1>4, <2>2, ManagerFacts DEF OpenInv, Tended
  <2> QED BY <2>1, <2>2
<1> QED BY <1>1, <1>2, <1>3, <1>4, <1>5, ManagerMoves

\* A wait that ends, in time or not, and a join: the sessions are as they were.
LEMMA WaitKeeps ==
    ASSUME ToolsInv, Tools!Ready \/ Tools!ConnectTimedOut \/ Tools!Joined
    PROVE  ToolsInv'
<1>1. /\ v3.pc \in {"wait", "join"} /\ UNCHANGED <<v1, v2, v4>>
      /\ \/ /\ v2[v3.at].at = "over" \/ v3.pc = "join"
            /\ v3' = [v3 EXCEPT !.pc = "idle", !.at = Nobody, !.listed = {}]
         \/ v3.pc = "wait" /\ v3' = [v3 EXCEPT !.pc = "list"]
         \/ v3' = [v3 EXCEPT !.pc = "idle", !.at = Nobody, !.listed = {},
                             !.late = v3.late \cup {v3.at}]
  <2>1. CASE Tools!Ready
    <3>1. v3.pc = "wait" /\ v3.at \in ToolServer /\ (v2[v3.at].failed => v2[v3.at].at = "over")
      BY <2>1, ManagerFacts DEF Tools!Ready, Tools!At, HereInv, OpenInv
    <3> QED BY <2>1, <3>1 DEF Tools!Ready, Tools!At, Tools!Here, Tools!Done, Tools!Manager
  <2>2. CASE Tools!ConnectTimedOut
    BY <2>2 DEF Tools!ConnectTimedOut, Tools!At, Tools!Here, Tools!Done, Tools!Manager
  <2>3. CASE Tools!Joined
    BY <2>3 DEF Tools!Joined, Tools!At, Tools!Done, Tools!Manager
  <2> QED BY <2>1, <2>2, <2>3
<1>2. v3.at \in ToolServer /\ v3.at \notin v3.tracked /\ v3.at \notin v3.todo
  BY <1>1, ManagerFacts DEF HereInv
<1>3. /\ v3' \in ManagerRow /\ v3'.told = v3.told /\ v3'.tracked = v3.tracked
      /\ v3'.todo = v3.todo /\ v3.late \subseteq v3'.late
      /\ \/ v3'.pc = "idle" /\ (v2[v3.at].at = "over" \/ v3.pc = "join" \/ v3.at \in v3'.late)
         \/ v3.pc = "wait" /\ v3'.pc = "list" /\ v3'.at = v3.at
  <2>1. CASE /\ v2[v3.at].at = "over" \/ v3.pc = "join"
             /\ v3' = [v3 EXCEPT !.pc = "idle", !.at = Nobody, !.listed = {}]
    BY Zenon, <2>1, ManagerFacts DEF ManagerRow
  <2>2. CASE v3.pc = "wait" /\ v3' = [v3 EXCEPT !.pc = "list"]
    BY <2>2, ManagerFacts DEF ManagerRow
  <2>3. CASE v3' = [v3 EXCEPT !.pc = "idle", !.at = Nobody, !.listed = {},
                              !.late = v3.late \cup {v3.at}]
    BY Zenon, <1>2, <2>3, ManagerFacts DEF ManagerRow
  <2> QED BY <1>1, <2>1, <2>2, <2>3
<1>4. OpenInv'
  <2> SUFFICES ASSUME NEW q \in ToolServer, v2[q].at \in {"opening", "serving"}
               PROVE  Tended(q)'
    BY <1>1, <1>3, ManagerFacts DEF OpenInv
  <2> QED BY <1>1, <1>3, ManagerFacts DEF OpenInv, Tended
<1> QED BY <1>1, <1>2, <1>3, <1>4, ManagerFacts, ManagerMoves

\* A listing arrives whole, or there is none.
LEMMA ListKeeps ==
    ASSUME ToolsInv, Tools!List
    PROVE  ToolsInv'
<1>1. /\ v3.pc \in {"list", "relist"} /\ UNCHANGED <<v1, v2, v4>>
      /\ \/ \E listing \in ToolListings :
              v3' = [[v3 EXCEPT !.pc = IF v3.pc = "list" THEN "publish" ELSE "republish"]
                       EXCEPT !.listed = listing]
         \/ v3.pc = "list" /\ v3' = [v3 EXCEPT !.pc = "close"]
         \/ v3.pc = "relist" /\ v3' = [v3 EXCEPT !.pc = "idle", !.at = Nobody, !.listed = {}]
  <2>1. CASE v3.pc = "list"
    BY Zenon, <2>1 DEF Tools!List, Tools!At, Tools!Manager
  <2>2. CASE v3.pc = "relist"
    BY Zenon, <2>2 DEF Tools!List, Tools!At, Tools!Done, Tools!Manager
  <2> QED BY Zenon, <2>1, <2>2 DEF Tools!List, Tools!At
<1>2. ToolListings \subseteq SUBSET ToolName
  BY ServersAssumption DEF Tools!McpAssumption
<1>3. /\ v3' \in ManagerRow /\ v3'.told = v3.told /\ v3'.tracked = v3.tracked
      /\ v3'.todo = v3.todo /\ v3.late = v3'.late
      /\ \/ v3.pc = "list" /\ v3'.pc \in {"publish", "close"} /\ v3'.at = v3.at
         \/ v3.pc = "relist" /\ v3'.pc = "republish" /\ v3'.at = v3.at
         \/ v3.pc = "relist" /\ v3'.pc = "idle"
  <2>1. ASSUME NEW listing \in ToolListings, NEW pc \in {"publish", "republish"},
               v3' = [[v3 EXCEPT !.pc = pc] EXCEPT !.listed = listing]
        PROVE  /\ v3' \in ManagerRow /\ v3'.told = v3.told /\ v3'.tracked = v3.tracked
               /\ v3'.todo = v3.todo /\ v3.late = v3'.late /\ v3'.pc = pc /\ v3'.at = v3.at
    BY Zenon, <1>2, <2>1, ManagerFacts DEF ManagerRow
  <2>2. CASE v3.pc = "list" /\ v3' = [v3 EXCEPT !.pc = "close"]
    BY <2>2, ManagerFacts DEF ManagerRow
  <2>3. CASE v3.pc = "relist" /\ v3' = [v3 EXCEPT !.pc = "idle", !.at = Nobody, !.listed = {}]
    BY Zenon, <2>3, ManagerFacts DEF ManagerRow
  <2> QED BY Zenon, <1>1, <2>1, <2>2, <2>3
<1>4. OpenInv'
  <2> SUFFICES ASSUME NEW q \in ToolServer, v2[q].at \in {"opening", "serving"}
               PROVE  Tended(q)'
    BY Zenon, <1>1, <1>3, ManagerFacts DEF OpenInv
  <2> QED BY Zenon, <1>1, <1>3, ManagerFacts DEF OpenInv, Tended
<1> QED BY Zenon, <1>1, <1>3, <1>4, ManagerFacts, ManagerMoves DEF HereInv

\* A session is told to stop.
LEMMA StopKeeps ==
    ASSUME ToolsInv, Tools!Close
    PROVE  ToolsInv'
<1>1. /\ v3.pc = "close" /\ UNCHANGED <<v1, v4>>
      /\ v2' = [v2 EXCEPT ![v3.at].stop = TRUE] /\ v3' = [v3 EXCEPT !.pc = "join"]
  BY DEF Tools!Close, Tools!At, Tools!Here, Tools!Manager
<1>2. v3.at \in ToolServer /\ v3.at \notin v3.tracked /\ v3.at \notin v3.todo
  BY <1>1, ManagerFacts DEF HereInv
<1>3. /\ v3' \in ManagerRow /\ v3'.told = v3.told /\ v3'.tracked = v3.tracked
      /\ v3'.todo = v3.todo /\ v3.late = v3'.late /\ v3'.pc = "join" /\ v3'.at = v3.at
  BY <1>1, ManagerFacts DEF ManagerRow
<1>4. /\ v2' \in [ToolServer -> SessionRow] /\ v2'[v3.at].stop
      /\ \A q \in ToolServer : /\ v2'[q].at = v2[q].at /\ v2'[q].failed = v2[q].failed
                               /\ v2[q].stop => v2'[q].stop
  BY Zenon, <1>1, <1>2, ManagerFacts DEF SessionRow
<1>5. OpenInv'
  <2> SUFFICES ASSUME NEW q \in ToolServer, v2[q].at \in {"opening", "serving"}
               PROVE  Tended(q)'
    BY <1>1, <1>3, <1>4, ManagerFacts DEF OpenInv
  <2> QED BY <1>1, <1>2, <1>3, <1>4, ManagerFacts DEF OpenInv, Tended
<1> QED BY Zenon, <1>1, <1>2, <1>3, <1>4, <1>5, ManagerMoves

\* The end of a shutdown.
LEMMA ShutDownKeeps ==
    ASSUME ToolsInv, Tools!ShutDown
    PROVE  ToolsInv'
<1>1. /\ v3.pc = "idle" /\ UNCHANGED <<v1, v2, v4>> /\ v3' = [v3 EXCEPT !.pc = "down"]
  BY DEF Tools!ShutDown, Tools!At, Tools!Manager
<1>2. /\ v3' \in ManagerRow /\ v3'.told = v3.told /\ v3'.tracked = v3.tracked
      /\ v3'.todo = v3.todo /\ v3.late = v3'.late /\ v3'.pc = "down"
  BY <1>1, ManagerFacts DEF ManagerRow
<1>3. OpenInv'
  <2> SUFFICES ASSUME NEW q \in ToolServer, v2[q].at \in {"opening", "serving"}
               PROVE  Tended(q)'
    BY <1>1, <1>2, ManagerFacts DEF OpenInv
  <2> QED BY <1>1, <1>2, ManagerFacts DEF OpenInv, Tended
<1> QED BY Zenon, <1>1, <1>2, <1>3, ManagerFacts, ManagerMoves

\* A server's names are taken away: it owns none, the others what they did.
LEMMA WithoutIt ==
    ASSUME ToolsInv, NEW s \in ToolServer, v1' = Tools!Without(s)
    PROVE  /\ v1' \in [ToolName -> ToolServer \cup {"none", "builtin"}]
           /\ \A n \in ToolName : v1'[n] = "builtin" <=> n \in BuiltinName
           /\ Tools!Owned(s)' = {}
           /\ \A q \in ToolServer : q # s => Tools!Owned(q)' = Tools!Owned(q)
<1>1. "none" \notin ToolServer /\ "builtin" \notin ToolServer
  BY ServersAssumption DEF Tools!McpAssumption
<1>2. v1' = [n \in ToolName |-> IF v1[n] = s THEN "none" ELSE v1[n]]
  BY DEF Tools!Without
<1>3. v1 \in [ToolName -> ToolServer \cup {"none", "builtin"}]
      /\ \A n \in ToolName : v1[n] = "builtin" <=> n \in BuiltinName
  BY DEF ToolsInv, ToolTypes, OwnersInv
<1> QED BY <1>1, <1>2, <1>3 DEF Tools!Owned

\* A refresh begins: the names go first.
LEMMA RefreshKeeps ==
    ASSUME ToolsInv, NEW s \in ToolServer, Tools!Refresh(s)
    PROVE  ToolsInv'
<1> DEFINE told == [v3.told EXCEPT ![s] = {}]
           m == [v3 EXCEPT !.pc = "relist", !.at = s, !.refreshes = v3.refreshes + 1,
                           !.told = told]
<1>1. /\ v3.pc = "idle" /\ s \in v3.tracked /\ v1' = Tools!Without(s) /\ UNCHANGED <<v2, v4>>
      /\ v3' = m
  BY ManagerFacts DEF Tools!Refresh, Tools!At, Tools!Manager, ManagerRow
<1>2. /\ told \in [ToolServer -> SUBSET ToolName] /\ told[s] = {}
      /\ \A q \in ToolServer : q # s => told[q] = v3.told[q]
  BY ManagerFacts DEF ManagerRow
<1>3. /\ m \in ManagerRow /\ m.told = told /\ m.tracked = v3.tracked /\ m.todo = v3.todo
      /\ m.late = v3.late /\ m.pc = "relist" /\ m.at = s
  <2> DEFINE n == v3.refreshes + 1
  <2>1. n \in Nat /\ v3 \in ManagerRow
    BY ManagerFacts DEF ManagerRow
  <2> HIDE DEF told, n
  <2>2. m = [v3 EXCEPT !.pc = "relist", !.at = s, !.refreshes = n, !.told = told]
    BY DEF n
  <2> HIDE DEF m
  <2> QED BY Zenon, <1>2, <2>1, <2>2 DEF ManagerRow
<1> HIDE DEF m, told
<1>4. OwnersInv' /\ HereInv'
  BY <1>1, <1>2, <1>3, WithoutIt, ManagerFacts DEF OwnersInv, HereInv
<1>5. OpenInv'
  <2> SUFFICES ASSUME NEW q \in ToolServer, v2[q].at \in {"opening", "serving"}
               PROVE  Tended(q)'
    BY <1>1, <1>3, ManagerFacts DEF OpenInv
  <2> QED BY <1>1, <1>3, ManagerFacts DEF OpenInv, Tended
<1> QED BY <1>1, <1>3, <1>4, <1>5, WithoutIt, ManagerFacts DEF ToolsInv, ToolTypes, CallsInv

\* A shutdown turns to a session: its names go, then it is told to stop.
LEMMA ShutDownOneKeeps ==
    ASSUME ToolsInv, NEW s \in ToolServer, Tools!ShutDownOne(s)
    PROVE  ToolsInv'
<1> DEFINE m == [v3 EXCEPT !.pc = "close", !.at = s, !.closing = TRUE,
                           !.tracked = v3.tracked \ {s}]
<1>1. /\ v3.pc = "idle" /\ v3.todo = {} /\ v1' = Tools!Without(s) /\ UNCHANGED <<v2, v4>>
      /\ v3' = m
  BY DEF Tools!ShutDownOne, Tools!At, Tools!Manager
<1>2. /\ m \in ManagerRow /\ m.told = v3.told /\ m.tracked = v3.tracked \ {s}
      /\ m.todo = v3.todo /\ m.late = v3.late /\ m.pc = "close" /\ m.at = s
  BY Zenon, ManagerFacts DEF ManagerRow
<1> HIDE DEF m
<1>3. OwnersInv' /\ HereInv'
  BY <1>1, <1>2, WithoutIt, ManagerFacts DEF OwnersInv, HereInv
<1>4. OpenInv'
  <2> SUFFICES ASSUME NEW q \in ToolServer, v2[q].at \in {"opening", "serving"}
               PROVE  Tended(q)'
    BY <1>1, <1>2, ManagerFacts DEF OpenInv
  <2> QED BY <1>1, <1>2, ManagerFacts DEF OpenInv, Tended
<1> QED BY <1>1, <1>2, <1>3, <1>4, WithoutIt, ManagerFacts DEF ToolsInv, ToolTypes, CallsInv

\* A listing is published whole, or not at all.
LEMMA PublishKeeps ==
    ASSUME ToolsInv, Tools!Publish
    PROVE  ToolsInv'
<1>p. v3.at \in ToolServer
  <2>1. v3.pc \in {"publish", "republish"}
    BY DEF Tools!Publish, Tools!At
  <2> QED BY <2>1, ManagerFacts DEF HereInv, ManagerRow
<1>s. PICK s \in ToolServer : s = v3.at
  BY <1>p
<1> USE <1>s
<1> DEFINE free == Tools!Foreign(s, v3.listed) = {}
<1>0. /\ v3.pc \in {"publish", "republish"} /\ UNCHANGED <<v2, v4>> /\ s \in ToolServer
      /\ Tools!Owned(s) = {} /\ s \notin v3.todo
      /\ v3.pc = "publish" => s \notin v3.tracked
      /\ v3.pc = "republish" => s \in v3.tracked
      /\ v3.listed \subseteq ToolName
  <2>1. v3.pc \in {"publish", "republish"} /\ UNCHANGED <<v2, v4>>
    BY DEF Tools!Publish, Tools!At
  <2> QED BY <2>1, ManagerFacts DEF HereInv, OwnersInv, ManagerRow
<1>1. CASE free
  <2> DEFINE told == [v3.told EXCEPT ![s] = v3.listed]
             m == [v3 EXCEPT !.pc = "idle", !.at = Nobody, !.listed = {},
                             !.tracked = v3.tracked \cup {s}, !.told = told]
  <2>1. /\ v1' = [n \in ToolName |-> IF n \in Tools!Accepted(v3.listed) THEN s ELSE v1[n]]
        /\ v3' = m
    BY <1>1, ManagerFacts DEF Tools!Publish, Tools!Here, Tools!Done, Tools!Manager, ManagerRow
  <2>2. /\ told \in [ToolServer -> SUBSET ToolName] /\ told[s] = v3.listed
        /\ \A q \in ToolServer : q # s => told[q] = v3.told[q]
    BY <1>0, ManagerFacts DEF ManagerRow
  <2>3. /\ m \in ManagerRow /\ m.told = told /\ m.tracked = v3.tracked \cup {s}
        /\ m.todo = v3.todo /\ m.late = v3.late /\ m.pc = "idle"
    BY Zenon, <1>0, <2>2, ManagerFacts DEF ManagerRow
  <2> HIDE DEF m, told
  <2>4. "none" \notin ToolServer /\ "builtin" \notin ToolServer
    BY ServersAssumption DEF Tools!McpAssumption
  <2>5. v1 \in [ToolName -> ToolServer \cup {"none", "builtin"}]
        /\ \A n \in ToolName : v1[n] = "builtin" <=> n \in BuiltinName
    BY ManagerFacts DEF ToolTypes, OwnersInv
  <2>6. \A n \in v3.listed : v1[n] \notin ToolServer \ {s}
    BY <1>1 DEF Tools!Foreign
  <2>7. Tools!Accepted(v3.listed) = v3.listed \ BuiltinName
    BY <1>0, <2>5 DEF Tools!Accepted
  <2>8. /\ v1' \in [ToolName -> ToolServer \cup {"none", "builtin"}]
        /\ \A n \in ToolName : v1'[n] = "builtin" <=> n \in BuiltinName
    BY <1>0, <2>1, <2>4, <2>5, <2>7
  <2>9. Tools!Owned(s)' = v3.listed \ BuiltinName
    <3>1. \A n \in ToolName : v1[n] # s
      BY <1>0 DEF Tools!Owned
    <3>2. \A n \in ToolName : v1'[n] = s <=> n \in v3.listed \ BuiltinName
      BY <2>1, <2>7, <3>1
    <3>3. Tools!Owned(s)' = {n \in ToolName : v1'[n] = s}
      BY <1>0 DEF Tools!Owned
    <3> QED BY <1>0, <3>2, <3>3
  <2>10. ASSUME NEW q \in ToolServer, q # s PROVE Tools!Owned(q)' = Tools!Owned(q)
    <3>1. \A n \in ToolName : v1'[n] = q <=> v1[n] = q
      BY <1>0, <2>1, <2>6, <2>7, <2>10
    <3> QED BY <3>1 DEF Tools!Owned
  <2>11. OwnersInv' /\ HereInv'
    BY <1>0, <2>1, <2>2, <2>3, <2>8, <2>9, <2>10, ManagerFacts DEF OwnersInv, HereInv
  <2>12. OpenInv'
    <3> SUFFICES ASSUME NEW q \in ToolServer, v2[q].at \in {"opening", "serving"}
                 PROVE  Tended(q)'
      BY <1>0, <2>1, <2>3, ManagerFacts DEF OpenInv
    <3> QED BY <1>0, <2>1, <2>3, ManagerFacts DEF OpenInv, Tended
  <2> QED BY <1>0, <2>1, <2>3, <2>8, <2>11, <2>12, ManagerFacts
          DEF ToolsInv, ToolTypes, CallsInv
<1>2. CASE ~free
  <2>1. /\ UNCHANGED v1
        /\ \/ v3.pc = "publish" /\ v3' = [v3 EXCEPT !.pc = "close"]
           \/ v3.pc = "republish" /\ v3' = [v3 EXCEPT !.pc = "idle", !.at = Nobody, !.listed = {}]
    BY <1>0, <1>2 DEF Tools!Publish, Tools!At, Tools!Here, Tools!Done, Tools!Manager
  <2>2. /\ v3' \in ManagerRow /\ v3'.told = v3.told /\ v3'.tracked = v3.tracked
        /\ v3'.todo = v3.todo /\ v3.late = v3'.late
        /\ \/ v3.pc = "publish" /\ v3'.pc = "close" /\ v3'.at = s
           \/ v3.pc = "republish" /\ v3'.pc = "idle"
    BY Zenon, <2>1, ManagerFacts DEF ManagerRow
  <2>3. OpenInv'
    <3> SUFFICES ASSUME NEW q \in ToolServer, v2[q].at \in {"opening", "serving"}
                 PROVE  Tended(q)'
      BY <1>0, <2>2, ManagerFacts DEF OpenInv
    <3> QED BY <1>0, <2>2, ManagerFacts DEF OpenInv, Tended
  <2> QED BY <1>0, <2>1, <2>2, <2>3, ManagerFacts, ManagerMoves
<1> QED BY <1>1, <1>2

\* Nobody is connected, and the built-ins have their names.
LEMMA ToolsInitially == ASSUME Tools!McpInit PROVE ToolsInv
<1>1. /\ v1 = [n \in ToolName |-> IF n \in BuiltinName THEN "builtin" ELSE "none"]
      /\ v2 = [s \in ToolServer |-> [at |-> "none", failed |-> FALSE, stop |-> FALSE]]
      /\ v3 = [pc |-> "idle", at |-> Nobody, todo |-> ToolServer, tracked |-> {},
               closing |-> FALSE, listed |-> {}, told |-> [s \in ToolServer |-> {}],
               refreshes |-> 0, late |-> {}]
      /\ v4 = [l \in Leaf |-> [pc |-> "idle", name |-> CHOOSE n \in ToolName : TRUE,
                               server |-> Nobody]]
  BY DEF Tools!McpInit
<1>2. /\ "none" \notin ToolServer /\ "builtin" \notin ToolServer
      /\ (CHOOSE n \in ToolName : TRUE) \in ToolName
  BY ServersAssumption DEF Tools!McpAssumption
<1>3. v4 \in [Leaf -> CallRow] /\ \A l \in Leaf : v4[l].pc = "idle"
  <2> DEFINE first == CHOOSE n \in ToolName : TRUE
  <2> HIDE DEF first
  <2>1. v4 = [l \in Leaf |-> [pc |-> "idle", name |-> first, server |-> Nobody]]
        /\ first \in ToolName
    BY <1>1, <1>2 DEF first
  <2> QED BY <2>1 DEF CallRow
<1>4. ToolTypes
  <2>1. v3 \in ManagerRow
    BY <1>1 DEF ManagerRow
  <2>2. v2 \in [ToolServer -> SessionRow]
    BY <1>1 DEF SessionRow
  <2> QED BY <1>1, <1>3, <2>1, <2>2 DEF ToolTypes
<1>5. OwnersInv
  BY <1>1, <1>2 DEF OwnersInv, Tools!Owned
<1> QED BY <1>1, <1>3, <1>4, <1>5 DEF ToolsInv, CallsInv, HereInv, OpenInv

\* Every step of the tools keeps their invariant.
LEMMA ToolsStep == ASSUME ToolsInv, [Tools!McpNext]_(Tools!mcpVars) PROVE ToolsInv'
<1>1. CASE UNCHANGED Tools!mcpVars
  <2>1. UNCHANGED <<v1, v2, v3, v4>>
    BY <1>1 DEF Tools!mcpVars
  <2> QED BY <2>1 DEF ToolsInv, ToolTypes, CallsInv, OwnersInv, HereInv, OpenInv, Tended,
                      Tools!Owned
<1>2. CASE Tools!McpNext
  BY <1>2, ThreadKeeps, ConnectKeeps, RefreshKeeps, ShutDownOneKeeps, WaitKeeps, ListKeeps,
     PublishKeeps, StopKeeps, ShutDownKeeps, CallKeeps DEF Tools!McpNext
<1> QED BY <1>1, <1>2

\* What the invariant says of calls, names and connections.
LEMMA InvTools ==
    ASSUME ToolsInv
    PROVE  Tools!CallsGoWhereAllowed /\ Tools!ListingsAreWhole /\ Tools!NothingIsLeftOpen
<1>1. Tools!CallsGoWhereAllowed
  BY DEF ToolsInv, CallsInv, Tools!CallsGoWhereAllowed
<1>2. Tools!ListingsAreWhole
  BY DEF ToolsInv, OwnersInv, Tools!ListingsAreWhole
<1>3. Tools!NothingIsLeftOpen
  BY DEF ToolsInv, OwnersInv, OpenInv, Tended, Tools!NothingIsLeftOpen, Tools!At,
         Tools!Connected
<1> QED BY <1>1, <1>2, <1>3

ToolsPart == part = "tools" => ToolsInv

\* A leaf's call reaches only a server its run allows, a server owns what it listed last
\* or nothing, and no connection is left open that nobody tends, however names change
\* hands and connections break (mcp/manager.py, tools/registry.py, workflow/sandbox.py).
THEOREM ServicesToolsKeepTheirServer == Spec => []ToolsKeepTheirServer
<1>1. Init => ToolsPart
  BY ToolsInitially DEF Init, ToolsPart
<1>2. ToolsPart /\ [Next]_vars => ToolsPart'
  <2> SUFFICES ASSUME ToolsPart, [Next]_vars, part' = "tools" PROVE ToolsInv'
    BY DEF ToolsPart
  <2>1. part = "tools" /\ [Tools!McpNext]_(Tools!mcpVars)
    <3>1. CASE Next
      BY <3>1 DEF Next
    <3>2. CASE UNCHANGED vars
      BY <3>2 DEF vars, after5, Tools!mcpVars
    <3> QED BY <3>1, <3>2
  <2> QED BY <2>1, ToolsStep DEF ToolsPart
<1>3. ToolsPart => ToolsKeepTheirServer
  BY InvTools DEF ToolsPart, ToolsKeepTheirServer
<1> QED BY <1>1, <1>2, <1>3, PTL DEF Spec
-----------------------------------------------------------------------------
(* The subscription login, in the names of SubscriptionAuth. *)

config == v1
tokens == v2
codex == v3
lock == v4
client == v5
server == v6

USE DEF config, tokens, codex, lock, client, server

\* A token family as a file or a client has it, and what a client is at.
Credentials == [kind : {"absent", "broken", "family", "codex"}, login : Nat, rot : Nat,
          live : BOOLEAN]
Errand == {"idle", "opting", "polling", "storing", "waiting", "locked", "rotated", "renewed",
           "failed", "served"}
ClientRow == [at : Errand, got : Credentials]

AuthShapes ==
    /\ tokens \in Credentials /\ tokens.kind # "codex"
    /\ client \in [Person -> ClientRow]
    /\ server \in [logins : Nat, spent : SUBSET (Nat \X Nat), twice : SUBSET (Nat \X Nat),
                   lost : SUBSET (Nat \X Nat)]

\* The tokens on file as the endpoint knows them.
HeldToken == <<tokens.login, tokens.rot>>

(* Who is inside the transaction has what is on file, or the rotation of it *)
(* that the endpoint made for a refresh token now spent, or the same family *)
(* with a new access token.                                                 *)
Inside ==
    \A c \in Person :
        /\ client[c].at \in {"locked", "rotated", "renewed", "failed"} => lock = c
        /\ client[c].at = "locked" => client[c].got = tokens
        /\ client[c].at = "rotated" =>
             /\ tokens.kind = "family" /\ Auth!Consents(config)
             /\ client[c].got = [kind |-> "family", login |-> tokens.login,
                                 rot |-> tokens.rot + 1, live |-> TRUE]
        /\ client[c].at = "renewed" =>
             /\ tokens.kind = "family" /\ Auth!Consents(config)
             /\ client[c].got = [tokens EXCEPT !.live = TRUE]

\* A login that is not yet stored is nobody else's, and nothing of it is spent.
Unstored(c) ==
    /\ client[c].got.kind = "family" /\ client[c].got.rot = 0
    /\ client[c].got.login <= server.logins
    /\ tokens.kind = "family" => client[c].got.login # tokens.login
    /\ \A t \in server.spent : t[1] # client[c].got.login

Families ==
    /\ tokens.kind = "family" => tokens.login <= server.logins
    /\ \A t \in server.spent : t[1] <= server.logins
    /\ \A c \in Person : client[c].at = "storing" => Unstored(c)
    /\ \A c, d \in Person :
         client[c].at = "storing" /\ client[d].at = "storing"
           /\ client[c].got.login = client[d].got.login => c = d

(* What is spent of the family on file is not later than the file; and what *)
(* is on file is spent only while it is being rotated, or for a lost answer.*)
Spending ==
    /\ server.twice \subseteq server.lost
    /\ tokens.kind = "family" =>
         \A t \in server.spent : t[1] = tokens.login => t[2] <= tokens.rot
    /\ tokens.kind = "family" /\ HeldToken \in server.spent =>
         HeldToken \in server.lost \/ \E c \in Person : client[c].at = "rotated"

AuthInv == AuthShapes /\ Inside /\ Families /\ Spending

\* Nobody holds no transaction.
LEMMA NobodyIsNoPerson == Nobody \notin Person
  BY ServersAssumption DEF Auth!AuthAssumption

\* A profile with no login, or an unreadable one, has the invariant.
LEMMA AuthInitially == Auth!AuthInit => AuthInv
<1> SUFFICES ASSUME Auth!AuthInit PROVE AuthInv
  OBVIOUS
<1>1. /\ tokens \in {Auth!Absent, Auth!Broken}
      /\ client = [c \in Person |-> Auth!IdleClient]
      /\ server = [logins |-> 0, spent |-> {}, twice |-> {}, lost |-> {}]
  BY DEF Auth!AuthInit
<1>2. tokens \in Credentials /\ tokens.kind \in {"absent", "broken"}
  <2>1. Auth!Absent \in Credentials /\ Auth!Absent.kind = "absent"
    BY DEF Auth!Absent, Credentials
  <2>2. Auth!Broken \in Credentials /\ Auth!Broken.kind = "broken"
    BY DEF Auth!Broken, Credentials
  <2> QED BY <1>1, <2>1, <2>2
<1>3. Auth!IdleClient \in ClientRow /\ Auth!IdleClient.at = "idle"
  BY DEF Auth!IdleClient, Auth!Absent, ClientRow, Errand, Credentials
<1>4. AuthShapes
  BY <1>1, <1>2, <1>3 DEF AuthShapes
<1>5. Inside /\ Families /\ Spending
  BY <1>1, <1>2, <1>3 DEF Inside, Families, Spending
<1> QED BY <1>4, <1>5 DEF AuthInv

\* A client that goes where nothing is owed to it takes its transaction along.
LEMMA ClientRests ==
    ASSUME AuthInv, NEW c \in Person, NEW row \in ClientRow,
           client' = [client EXCEPT ![c] = row],
           row.at \notin {"storing", "locked", "rotated", "renewed", "failed"},
           UNCHANGED tokens,
           server' = server \/ server' = [server EXCEPT !.lost = @ \cup {HeldToken}],
           client[c].at = "rotated" => HeldToken \in server'.lost,
           lock' = lock \/ (lock' = Nobody /\ lock \in {c, Nobody}),
           config' = config \/ lock = Nobody
    PROVE  AuthInv'
<1>1. AuthShapes /\ Inside /\ Families /\ Spending
  BY DEF AuthInv
<1>2. /\ server'.logins = server.logins /\ server'.spent = server.spent
      /\ server'.twice = server.twice /\ server.lost \subseteq server'.lost
      /\ server' \in [logins : Nat, spent : SUBSET (Nat \X Nat), twice : SUBSET (Nat \X Nat),
                      lost : SUBSET (Nat \X Nat)]
  BY <1>1 DEF AuthShapes, HeldToken, Credentials
<1>3. /\ client' \in [Person -> ClientRow] /\ client'[c] = row
      /\ \A d \in Person : d # c => client'[d] = client[d]
  BY <1>1 DEF AuthShapes
<1>4. AuthShapes'
  BY <1>1, <1>2, <1>3 DEF AuthShapes
<1>5. Inside'
  <2> SUFFICES ASSUME NEW d \in Person
               PROVE  (/\ client[d].at \in {"locked", "rotated", "renewed", "failed"} => lock = d
                       /\ client[d].at = "locked" => client[d].got = tokens
                       /\ client[d].at = "rotated" =>
                            /\ tokens.kind = "family" /\ Auth!Consents(config)
                            /\ client[d].got = [kind |-> "family", login |-> tokens.login,
                                                rot |-> tokens.rot + 1, live |-> TRUE]
                       /\ client[d].at = "renewed" =>
                            /\ tokens.kind = "family" /\ Auth!Consents(config)
                            /\ client[d].got = [tokens EXCEPT !.live = TRUE])'
    BY Zenon DEF Inside
  <2>1. CASE d = c
    BY <1>3, <2>1
  <2>2. CASE d # c
    <3>1. client'[d] = client[d]
      BY <1>3, <2>2
    <3>2. client[d].at \in {"locked", "rotated", "renewed", "failed"} => lock = d /\ lock' = d /\ config' = config
      BY <1>1, <2>2, NobodyIsNoPerson DEF Inside
    <3> QED BY Zenon, <1>1, <3>1, <3>2 DEF Inside, Auth!Consents, Auth!Active
  <2> QED BY <2>1, <2>2
<1>6. Families'
  BY <1>1, <1>2, <1>3 DEF Families, Unstored
<1>7. Spending'
  <2>1. (tokens.kind = "family" /\ HeldToken \in server.spent)' =>
           (HeldToken \in server.lost \/ \E d \in Person : client[d].at = "rotated")'
    <3> SUFFICES ASSUME tokens.kind = "family", HeldToken \in server.spent,
                        HeldToken \notin server'.lost
                 PROVE  \E d \in Person : client'[d].at = "rotated"
      BY <1>2 DEF HeldToken
    <3>1. PICK d \in Person : client[d].at = "rotated"
      BY <1>1, <1>2 DEF Spending
    <3> QED BY <1>3, <3>1
  <2> QED BY <1>1, <1>2, <2>1 DEF Spending, HeldToken
<1> QED BY <1>4, <1>5, <1>6, <1>7 DEF AuthInv

\* The commands: a consent changes only while nobody is inside.
LEMMA CommandKeeps ==
    ASSUME AuthInv, NEW c \in Person, NEW new, Auth!Command(c, new) PROVE AuthInv'
<1>1. AuthShapes /\ client[c].at = "idle" /\ lock = Nobody
      /\ UNCHANGED <<tokens, codex, lock, client, server>>
  BY DEF AuthInv, Auth!Command
<1>2. client[c] \in ClientRow /\ client' = [client EXCEPT ![c] = client[c]]
  BY <1>1 DEF AuthShapes
<1> QED BY Zenon, <1>1, <1>2, ClientRests

\* A row with another place in it, or other credentials.
LEMMA RowOf ==
    ASSUME NEW row \in ClientRow, NEW at \in Errand
    PROVE  /\ [row EXCEPT !.at = at] \in ClientRow
           /\ [row EXCEPT !.at = at].at = at /\ [row EXCEPT !.at = at].got = row.got
  BY DEF ClientRow

\* A client that does nothing.
LEMMA IdleRow == Auth!IdleClient \in ClientRow /\ Auth!IdleClient.at = "idle"
  BY DEF Auth!IdleClient, Auth!Absent, ClientRow, Errand, Credentials

\* A client that gives up, or is done.
LEMMA IdleKeeps ==
    ASSUME AuthInv, NEW c \in Person, Auth!Idle(c), UNCHANGED <<config, tokens>>,
           server' = server \/ server' = [server EXCEPT !.lost = @ \cup {HeldToken}],
           client[c].at = "rotated" => HeldToken \in server'.lost,
           lock' = lock \/ (lock' = Nobody /\ lock \in {c, Nobody})
    PROVE  AuthInv'
<1>1. client' = [client EXCEPT ![c] = Auth!IdleClient]
  BY DEF Auth!Idle
<1> QED BY Zenon, <1>1, IdleRow, ClientRests

\* A client that goes on to its next step outside the transaction.
LEMMA GoKeeps ==
    ASSUME AuthInv, NEW c \in Person, NEW at \in {"opting", "polling", "waiting"},
           Auth!Go(c, at), UNCHANGED <<tokens, lock, server>>,
           client[c].at # "rotated", config' = config \/ lock = Nobody
    PROVE  AuthInv'
<1>1. AuthShapes /\ client[c] \in ClientRow
  BY DEF AuthInv, AuthShapes
<1>2. client' = [client EXCEPT ![c] = [client[c] EXCEPT !.at = at]]
  BY <1>1 DEF Auth!Go, AuthShapes
<1>3. [client[c] EXCEPT !.at = at] \in ClientRow /\ [client[c] EXCEPT !.at = at].at = at
  <2>1. at \in Errand
    BY DEF Errand
  <2> QED BY <1>1, <2>1, RowOf
<1> QED BY Zenon, <1>2, <1>3, ClientRests

\* What touches neither the tokens nor the endpoint.
LEMMA QuietKeeps ==
    ASSUME AuthInv, NEW c \in Person,
           \/ Auth!Enable(c) \/ Auth!Disable(c)
           \/ \E value \in Auth!Preference : Auth!Prefer(c, value)
           \/ Auth!Login(c) \/ Auth!OptIn(c) \/ Auth!Ask(c) \/ Auth!Busy(c)
           \/ Auth!Refuse(c) \/ Auth!Fail(c) \/ Auth!Leave(c)
    PROVE  AuthInv'
<1>1. AuthShapes /\ Inside /\ client[c] \in ClientRow
  BY DEF AuthInv, AuthShapes
<1>2. CASE \/ Auth!Enable(c) \/ Auth!Disable(c)
           \/ \E value \in Auth!Preference : Auth!Prefer(c, value)
  BY Zenon, <1>2, CommandKeeps DEF Auth!Enable, Auth!Disable, Auth!Prefer
<1>3. CASE Auth!Login(c)
  <2>1. PICK at \in {"opting", "polling"} : Auth!Go(c, at)
    BY <1>3 DEF Auth!Login
  <2> QED BY <1>3, <2>1, GoKeeps DEF Auth!Login
<1>4. CASE Auth!OptIn(c)
  BY <1>4, GoKeeps DEF Auth!OptIn
<1>5. CASE Auth!Ask(c)
  <2> DEFINE row == [at |-> "waiting", got |-> tokens]
  <2>1. row \in ClientRow /\ row.at = "waiting"
    BY <1>1 DEF ClientRow, Errand, AuthShapes
  <2>2. client' = [client EXCEPT ![c] = row]
    <3>1. client' = [client EXCEPT ![c].at = "waiting", ![c].got = tokens]
      BY <1>5 DEF Auth!Ask
    <3>2. client \in [Person -> ClientRow]
      BY <1>1 DEF AuthShapes
    <3>3. PICK x, y : client[c] = [at |-> x, got |-> y]
      BY Zenon, <1>1 DEF ClientRow
    <3>4. /\ client' = [d \in Person |-> client'[d]] /\ client'[c] = row
          /\ \A d \in Person : d # c => client'[d] = client[d]
      BY Zenon, <3>1, <3>2, <3>3
    <3> QED BY <3>2, <3>4
  <2> HIDE DEF row
  <2>3. client[c].at = "idle" /\ UNCHANGED <<config, tokens, lock, server>>
    BY <1>5 DEF Auth!Ask
  <2> QED BY Zenon, <2>1, <2>2, <2>3, ClientRests
<1>6. CASE Auth!Busy(c)
  BY <1>6, IdleKeeps DEF Auth!Busy
<1>7. CASE Auth!Refuse(c)
  <2>1. lock = c
    BY <1>1, <1>7 DEF Auth!Refuse, Inside
  <2> QED BY <1>7, <2>1, IdleKeeps DEF Auth!Refuse
<1>8. CASE Auth!Fail(c)
  <2>1. lock = c
    BY <1>1, <1>8 DEF Auth!Fail, Inside
  <2> QED BY <1>8, <2>1, IdleKeeps DEF Auth!Fail
<1>9. CASE Auth!Leave(c)
  BY <1>9, IdleKeeps DEF Auth!Leave
<1> QED BY <1>2, <1>3, <1>4, <1>5, <1>6, <1>7, <1>8, <1>9

\* What is handed out leaves the transaction.
LEMMA HandOutKeeps ==
    ASSUME AuthInv, NEW c \in Person, NEW creds \in {tokens, Auth!CodexLogin},
           Auth!HandOut(c, creds)
    PROVE  AuthInv'
<1>1. AuthShapes /\ Inside
  BY DEF AuthInv
<1>2. /\ client[c].at = "locked" /\ UNCHANGED <<config, tokens, server>> /\ lock' = Nobody
      /\ client' = [client EXCEPT ![c] = [at |-> "served", got |-> creds]]
  BY DEF Auth!HandOut
<1>3. [at |-> "served", got |-> creds] \in ClientRow
  <2>1. Auth!CodexLogin \in Credentials
    BY Zenon DEF Auth!CodexLogin, Auth!Absent, Credentials
  <2> QED BY <1>1, <2>1 DEF AuthShapes, ClientRow, Errand
<1>4. lock = c
  BY <1>1, <1>2 DEF Inside
<1> QED BY Zenon, <1>2, <1>3, <1>4, ClientRests

\* A kill loses the rotation it interrupts.
LEMMA AuthKillKeeps == ASSUME AuthInv, NEW c \in Person, Auth!Kill(c) PROVE AuthInv'
<1>1. AuthShapes /\ Inside /\ Auth!Idle(c) /\ UNCHANGED <<config, tokens>>
      /\ (lock' = IF lock = c THEN Nobody ELSE lock)
      /\ (server' = IF client[c].at = "rotated"
                    THEN [server EXCEPT !.lost = @ \cup {HeldToken}] ELSE server)
  BY DEF AuthInv, Auth!Kill, Auth!Wasted, Auth!Held, HeldToken
<1>2. client[c].at = "rotated" => HeldToken \in server'.lost
  BY <1>1 DEF AuthShapes
<1> QED BY <1>1, <1>2, IdleKeeps

\* Nobody is inside a transaction that is free.
LEMMA Free ==
    ASSUME Inside, lock = Nobody, NEW c \in Person
    PROVE  client[c].at \notin {"locked", "rotated", "renewed", "failed"}
  BY NobodyIsNoPerson DEF Inside

\* Only who holds the transaction is inside it.
LEMMA Alone ==
    ASSUME Inside, NEW c \in Person, client[c].at \in {"locked", "rotated", "renewed", "failed"},
           NEW d \in Person, client[d].at \in {"locked", "rotated", "renewed", "failed"}
    PROVE  c = d /\ lock = c
  BY DEF Inside

\* A logout takes the family off the file; what was spent of it is spent.
LEMMA LogoutKeeps == ASSUME AuthInv, NEW c \in Person, Auth!Logout(c) PROVE AuthInv'
<1>1. /\ AuthShapes /\ Inside /\ Families /\ Spending /\ lock = Nobody
      /\ tokens' = Auth!Absent /\ UNCHANGED <<config, lock, client, server>>
  BY DEF AuthInv, Auth!Logout
<1>2. tokens' \in Credentials /\ tokens'.kind = "absent"
  BY <1>1 DEF Auth!Absent, Credentials
<1>3. AuthShapes'
  BY <1>1, <1>2 DEF AuthShapes
<1>4. Inside'
  BY Zenon, <1>1, Free DEF Inside
<1>5. Families'
  BY <1>1, <1>2 DEF Families, Unstored
<1>6. Spending'
  BY <1>1, <1>2 DEF Spending
<1> QED BY <1>3, <1>4, <1>5, <1>6 DEF AuthInv

\* The endpoint begins a family nobody has heard of.
LEMMA PolledKeeps == ASSUME AuthInv, NEW c \in Person, Auth!Polled(c) PROVE AuthInv'
<1>1. /\ AuthShapes /\ Inside /\ Families /\ Spending /\ client[c].at = "polling"
      /\ UNCHANGED <<config, tokens, lock>>
  BY DEF AuthInv, Auth!Polled
<1>2. CASE Auth!Idle(c) /\ UNCHANGED server
  BY <1>1, <1>2, IdleKeeps
<1>3. CASE /\ server' = [server EXCEPT !.logins = @ + 1]
           /\ client' = [client EXCEPT ![c].at = "storing",
                                       ![c].got = Auth!Family(server.logins + 1, 0, TRUE)]
  <2> DEFINE new == [kind |-> "family", login |-> server.logins + 1, rot |-> 0, live |-> TRUE]
  <2>1. server.logins \in Nat /\ client[c] \in ClientRow
    BY <1>1 DEF AuthShapes
  <2>2. new \in Credentials /\ new.kind = "family" /\ new.rot = 0
        /\ new.login = server.logins + 1
    BY <2>1 DEF Credentials
  <2>3. PICK x, y : client[c] = [at |-> x, got |-> y]
    BY Zenon, <2>1 DEF ClientRow
  <2>4. client' = [client EXCEPT ![c].at = "storing", ![c].got = new]
    BY <1>3 DEF Auth!Family
  <2> HIDE DEF new
  <2>5. /\ client'[c] = [at |-> "storing", got |-> new] /\ DOMAIN client' = Person
        /\ client' = [d \in Person |-> client'[d]]
        /\ \A d \in Person : d # c => client'[d] = client[d]
    BY Zenon, <1>1, <2>3, <2>4 DEF AuthShapes
  <2>6. client'[c] \in ClientRow /\ client'[c].at = "storing" /\ client'[c].got = new
    BY <2>2, <2>5 DEF ClientRow, Errand
  <2>7. /\ server'.logins = server.logins + 1 /\ server'.spent = server.spent
        /\ server'.twice = server.twice /\ server'.lost = server.lost
        /\ server' \in [logins : Nat, spent : SUBSET (Nat \X Nat),
                        twice : SUBSET (Nat \X Nat), lost : SUBSET (Nat \X Nat)]
    BY <1>1, <1>3 DEF AuthShapes
  <2>8. AuthShapes'
    <3>1. client' \in [Person -> ClientRow]
      BY <1>1, <2>5, <2>6 DEF AuthShapes
    <3> QED BY <1>1, <2>7, <3>1 DEF AuthShapes
  <2>9. Inside'
    BY ZenonT(40), <1>1, <2>5, <2>6 DEF Inside
  <2>10. \A t \in server.spent : t[1] \in Nat
    BY <1>1 DEF AuthShapes
  <2>11. \A d \in Person : client[d].got.login \in Nat
    BY <1>1 DEF AuthShapes, ClientRow, Credentials
  <2>12. tokens.login \in Nat
    BY <1>1 DEF AuthShapes, Credentials
  <2>13. Families'
    <3>1. (tokens.kind = "family" => tokens.login <= server.logins)'
          /\ \A t \in server'.spent : t[1] <= server'.logins
      BY <1>1, <2>1, <2>7, <2>10, <2>12 DEF Families
    <3>2. \A d \in Person : client'[d].at = "storing" => Unstored(d)'
      <4> SUFFICES ASSUME NEW d \in Person, client'[d].at = "storing" PROVE Unstored(d)'
        OBVIOUS
      <4>1. CASE d = c
        <5>1. tokens.kind = "family" => tokens.login # server.logins + 1
          BY <1>1, <2>1, <2>12 DEF Families
        <5>2. \A t \in server.spent : t[1] # server.logins + 1
          BY <1>1, <2>1, <2>10 DEF Families
        <5> QED BY <1>1, <2>1, <2>2, <2>6, <2>7, <4>1, <5>1, <5>2 DEF Unstored
      <4>2. CASE d # c
        <5>1. Unstored(d) /\ client'[d] = client[d]
          BY <1>1, <2>5, <4>2 DEF Families
        <5> QED BY <1>1, <2>1, <2>7, <2>11, <5>1 DEF Unstored
      <4> QED BY <4>1, <4>2
    <3>3. \A d \in Person : d # c /\ client[d].at = "storing" => client[d].got.login # new.login
      BY <1>1, <2>1, <2>2, <2>11 DEF Families, Unstored
    <3>4. \A d, e \in Person :
            client'[d].at = "storing" /\ client'[e].at = "storing"
              /\ client'[d].got.login = client'[e].got.login => d = e
      BY <1>1, <2>5, <2>6, <3>3 DEF Families
    <3> QED BY <3>1, <3>2, <3>4 DEF Families
  <2>14. Spending'
    <3>1. \A d \in Person : client[d].at = "rotated" => client'[d].at = "rotated"
      BY <1>1, <2>5
    <3> QED BY <1>1, <2>7, <3>1 DEF Spending, HeldToken
  <2> QED BY <2>8, <2>9, <2>13, <2>14 DEF AuthInv
<1> QED BY Zenon, <1>2, <1>3 DEF Auth!Polled

\* A login is stored over whatever was there.
LEMMA StoreLoginKeeps == ASSUME AuthInv, NEW c \in Person, Auth!StoreLogin(c) PROVE AuthInv'
<1>1. /\ AuthShapes /\ Inside /\ Families /\ Spending /\ client[c].at = "storing"
      /\ lock = Nobody /\ tokens' = client[c].got /\ UNCHANGED <<config, lock, server>>
      /\ client' = [client EXCEPT ![c] = Auth!IdleClient]
  BY DEF AuthInv, Auth!StoreLogin, Auth!Idle
<1>2. Unstored(c) /\ tokens' \in Credentials /\ tokens'.kind = "family"
      /\ tokens'.login = client[c].got.login /\ tokens'.rot = 0
  BY <1>1 DEF AuthShapes, Families, Unstored, ClientRow
<1>3. /\ client'[c].at = "idle" /\ \A d \in Person : d # c => client'[d] = client[d]
      /\ client' \in [Person -> ClientRow]
  BY <1>1, IdleRow DEF AuthShapes
<1>4. AuthShapes'
  BY <1>1, <1>2, <1>3 DEF AuthShapes
<1>5. Inside'
  <2>1. \A d \in Person : client'[d].at \notin {"locked", "rotated", "renewed", "failed"}
    BY <1>1, <1>3, Free
  <2> QED BY <2>1 DEF Inside
<1>6. Families'
  <2>1. \A d \in Person : client'[d].at = "storing" => Unstored(d)'
    <3> SUFFICES ASSUME NEW d \in Person, client'[d].at = "storing" PROVE Unstored(d)'
      OBVIOUS
    <3>1. d # c /\ client'[d] = client[d] /\ Unstored(d)
      BY <1>1, <1>3 DEF Families
    <3>2. client[d].got.login # client[c].got.login
      BY <1>1, <1>3, <3>1 DEF Families
    <3> QED BY <1>1, <1>2, <3>1, <3>2 DEF Unstored
  <2>2. tokens'.login <= server'.logins
    BY <1>1, <1>2 DEF Unstored
  <2>3. \A d, e \in Person :
          client'[d].at = "storing" /\ client'[e].at = "storing"
            /\ client'[d].got.login = client'[e].got.login => d = e
    BY <1>1, <1>3 DEF Families
  <2> QED BY <1>1, <2>1, <2>2, <2>3 DEF Families
<1>7. Spending'
  <2>1. \A t \in server.spent : t[1] # tokens'.login
    BY <1>2 DEF Unstored
  <2>2. HeldToken' \notin server'.spent
    BY <1>1, <2>1 DEF HeldToken
  <2> QED BY <1>1, <2>1, <2>2 DEF Spending
<1> QED BY <1>4, <1>5, <1>6, <1>7 DEF AuthInv

\* The files are read once the lock is taken.
LEMMA AcquireKeeps == ASSUME AuthInv, NEW c \in Person, Auth!Acquire(c) PROVE AuthInv'
<1>1. /\ AuthShapes /\ Inside /\ Families /\ Spending /\ client[c].at = "waiting"
      /\ lock = Nobody /\ lock' = c /\ UNCHANGED <<config, tokens, server>>
      /\ client' = [client EXCEPT ![c].at = "locked", ![c].got = tokens]
  BY DEF AuthInv, Auth!Acquire, Auth!Reread
<1>2. PICK x, y : client[c] = [at |-> x, got |-> y]
  BY <1>1 DEF AuthShapes, ClientRow
<1>3. /\ client'[c] = [at |-> "locked", got |-> tokens]
      /\ \A d \in Person : d # c => client'[d] = client[d]
      /\ DOMAIN client' = Person /\ client' = [d \in Person |-> client'[d]]
  BY Zenon, <1>1, <1>2 DEF AuthShapes
<1>4. client'[c] \in ClientRow /\ client'[c].at = "locked" /\ client'[c].got = tokens
  BY <1>1, <1>3 DEF AuthShapes, ClientRow, Errand
<1>5. AuthShapes'
  <2>1. client' \in [Person -> ClientRow]
    BY <1>1, <1>3, <1>4 DEF AuthShapes
  <2> QED BY <1>1, <2>1 DEF AuthShapes
<1>6. Inside'
  <2>1. \A d \in Person : d # c => client'[d].at \notin {"locked", "rotated", "renewed", "failed"}
    BY <1>1, <1>3, Free
  <2> QED BY Zenon, <1>1, <1>4, <2>1 DEF Inside
<1>7. Families'
  BY <1>1, <1>3, <1>4 DEF Families, Unstored
<1>8. Spending'
  <2>1. \A d \in Person : client[d].at = "rotated" => client'[d].at = "rotated"
    BY <1>1, <1>3
  <2> QED BY Zenon, <1>1, <2>1 DEF Spending, HeldToken
<1> QED BY <1>5, <1>6, <1>7, <1>8 DEF AuthInv

\* A refresh token that is presented again is one whose rotation was lost.
LEMMA PresentKeeps == ASSUME AuthInv, NEW c \in Person, Auth!Present(c) PROVE AuthInv'
<1> DEFINE again == HeldToken \in server.spent
           new == [kind |-> "family", login |-> tokens.login, rot |-> tokens.rot + 1,
                   live |-> TRUE]
<1>1. /\ AuthShapes /\ Inside /\ Families /\ Spending /\ client[c].at = "locked"
      /\ lock = c /\ client[c].got = tokens /\ tokens.kind = "family" /\ Auth!Consents(config)
      /\ UNCHANGED <<config, tokens, lock>>
  BY DEF AuthInv, Auth!Present, Auth!MustRefresh, Inside
<1>2. /\ tokens.login \in Nat /\ tokens.rot \in Nat /\ tokens \in Credentials
      /\ new \in Credentials /\ HeldToken \in Nat \X Nat
  BY <1>1 DEF AuthShapes, Credentials, HeldToken
<1>3. /\ server' = [server EXCEPT !.spent = @ \cup {HeldToken},
                                  !.twice = IF again THEN @ \cup {HeldToken} ELSE @]
      /\ client' = [client EXCEPT ![c].at = IF again THEN "failed" ELSE "rotated",
                                  ![c].got = IF again THEN @ ELSE new]
  BY <1>1 DEF Auth!Present, Auth!Held, HeldToken, Auth!Family
<1>4. PICK x : client[c] = [at |-> x, got |-> tokens]
  BY <1>1 DEF AuthShapes, ClientRow
<1> HIDE DEF new, again
<1>5. /\ client'[c] = [at |-> IF again THEN "failed" ELSE "rotated",
                       got |-> IF again THEN tokens ELSE new]
      /\ \A d \in Person : d # c => client'[d] = client[d]
      /\ DOMAIN client' = Person /\ client' = [d \in Person |-> client'[d]]
  BY Zenon, <1>1, <1>3, <1>4 DEF AuthShapes
<1>6. /\ client'[c] \in ClientRow /\ client'[c].at \in {"failed", "rotated"}
      /\ client'[c].at = "rotated" <=> ~again
      /\ client'[c].at = "rotated" => client'[c].got = new
  BY <1>2, <1>5 DEF ClientRow, Errand
<1>7. /\ server'.logins = server.logins /\ server'.lost = server.lost
      /\ server'.spent = server.spent \cup {HeldToken}
      /\ server'.twice = (IF again THEN server.twice \cup {HeldToken} ELSE server.twice)
      /\ server' \in [logins : Nat, spent : SUBSET (Nat \X Nat),
                      twice : SUBSET (Nat \X Nat), lost : SUBSET (Nat \X Nat)]
  BY Zenon, <1>1, <1>2, <1>3 DEF AuthShapes
<1>8. AuthShapes'
  <2>1. client' \in [Person -> ClientRow]
    BY <1>1, <1>5, <1>6 DEF AuthShapes
  <2> QED BY <1>1, <1>7, <2>1 DEF AuthShapes
<1>9. \A d \in Person : d # c => client[d].at \notin {"locked", "rotated", "renewed", "failed"}
  BY <1>1, Alone
<1>10. Inside'
  <2>1. \A d \in Person : d # c => client'[d].at \notin {"locked", "rotated", "renewed", "failed"}
    BY <1>5, <1>9
  <2>2. client'[c].at = "rotated" => Auth!Consents(config')
    BY <1>1
  <2> QED BY <1>1, <1>6, <2>1, <2>2 DEF Inside, new
<1>11. Families'
  <2>1. \A d \in Person : client'[d].at = "storing" => d # c /\ client'[d] = client[d]
    BY <1>5, <1>6
  <2>2. \A t \in server'.spent : t[1] <= server'.logins
    BY <1>1, <1>7 DEF Families, HeldToken
  <2>3. \A d \in Person : client'[d].at = "storing" => Unstored(d)'
    <3> SUFFICES ASSUME NEW d \in Person, client'[d].at = "storing" PROVE Unstored(d)'
      OBVIOUS
    <3>1. Unstored(d) /\ client'[d] = client[d]
      BY <1>1, <2>1 DEF Families
    <3> QED BY <1>1, <1>7, <3>1 DEF Unstored, HeldToken
  <2> QED BY <1>1, <1>7, <2>1, <2>2, <2>3 DEF Families
<1>12. Spending'
  <2>1. again => HeldToken \in server.lost
    BY <1>1, <1>9 DEF Spending, again
  <2>2. server'.twice \subseteq server'.lost
    BY <1>1, <1>7, <2>1 DEF Spending
  <2>3. \A t \in server'.spent : t[1] = tokens.login => t[2] <= tokens.rot
    BY <1>1, <1>2, <1>7 DEF Spending, HeldToken
  <2>4. HeldToken \in server'.lost \/ \E d \in Person : client'[d].at = "rotated"
    BY <1>6, <1>7, <2>1
  <2> QED BY <1>1, <2>2, <2>3, <2>4 DEF Spending, HeldToken
<1> QED BY <1>8, <1>10, <1>11, <1>12 DEF AuthInv

\* A transaction ends with the files as they are, or with the rotation on file.
LEMMA SettleKeeps ==
    ASSUME AuthInv, NEW c \in Person, client[c].at = "rotated", NEW row \in ClientRow,
           row.at \in {"failed", "served"}, client' = [client EXCEPT ![c] = row],
           row.at = "served" => lock' = Nobody, row.at = "failed" => lock' = lock,
           UNCHANGED <<config, server>>, tokens' \in Credentials, tokens'.kind = "family",
           tokens'.login = tokens.login, tokens'.rot = tokens.rot + 1
    PROVE  AuthInv'
<1>1. /\ AuthShapes /\ Inside /\ Families /\ Spending /\ lock = c /\ tokens.kind = "family"
      /\ tokens.login \in Nat /\ tokens.rot \in Nat
  BY Zenon DEF AuthInv, Inside, AuthShapes, Credentials
<1>2. /\ tokens' \in Credentials /\ tokens'.kind = "family"
      /\ tokens'.login = tokens.login /\ tokens'.rot = tokens.rot + 1
  OBVIOUS
<1>3. /\ client' \in [Person -> ClientRow] /\ client'[c] = row
      /\ \A d \in Person : d # c => client'[d] = client[d]
  BY <1>1 DEF AuthShapes
<1>4. AuthShapes'
  BY <1>1, <1>2, <1>3 DEF AuthShapes
<1>5. \A d \in Person : d # c => client'[d].at \notin {"locked", "rotated", "renewed", "failed"}
  BY <1>1, <1>3, Alone
<1>6. Inside'
  BY <1>1, <1>3, <1>5 DEF Inside
<1>7. Families'
  BY <1>1, <1>2, <1>3 DEF Families, Unstored
<1>8. Spending'
  <2>1. \A t \in server.spent : t[2] \in Nat
    BY <1>1 DEF AuthShapes
  <2>2. \A t \in server.spent : t[1] = tokens.login => t[2] <= tokens.rot + 1 /\ t[2] # tokens.rot + 1
    BY <1>1, <2>1 DEF Spending
  <2>3. HeldToken' \notin server'.spent
    BY <1>2, <2>2 DEF HeldToken
  <2> QED BY <1>1, <1>2, <2>2, <2>3 DEF Spending
<1> QED BY <1>4, <1>6, <1>7, <1>8 DEF AuthInv

\* A family that was not rotated: what is spent and what is on file are as they were.
LEMMA RenewedKeeps ==
    ASSUME AuthInv, NEW c \in Person, client[c].at \in {"locked", "renewed"}, NEW row \in ClientRow,
           row.at \in {"failed", "served", "renewed"}, client' = [client EXCEPT ![c] = row],
           row.at = "served" => lock' = Nobody, row.at # "served" => lock' = lock,
           UNCHANGED <<config, server>>, tokens' \in Credentials, tokens'.kind = "family",
           tokens.kind = "family", tokens'.login = tokens.login, tokens'.rot = tokens.rot,
           row.at = "renewed" => /\ tokens' = tokens /\ Auth!Consents(config)
                                 /\ row.got = [tokens EXCEPT !.live = TRUE]
    PROVE  AuthInv'
<1>1. /\ AuthShapes /\ Inside /\ Families /\ Spending /\ lock = c
      /\ tokens.login \in Nat /\ tokens.rot \in Nat
  BY Zenon DEF AuthInv, Inside, AuthShapes, Credentials
<1>2. /\ client' \in [Person -> ClientRow] /\ client'[c] = row
      /\ \A d \in Person : d # c => client'[d] = client[d]
  BY <1>1 DEF AuthShapes
<1>3. AuthShapes'
  BY <1>1, <1>2 DEF AuthShapes
<1>4. \A d \in Person : d # c => client[d].at \notin {"locked", "rotated", "renewed", "failed"}
  BY <1>1, Alone
<1>5. Inside'
  <2>1. Auth!Consents(config)' <=> Auth!Consents(config)
    BY DEF Auth!Consents, Auth!Active
  <2>2. \A d \in Person : d # c => client'[d].at \notin {"locked", "rotated", "renewed", "failed"}
    BY <1>2, <1>4
  <2>3. row.at # "locked" /\ row.at # "rotated" /\ (row.at # "served" => lock' = c)
    BY <1>1
  <2> QED BY <1>2, <2>1, <2>2, <2>3 DEF Inside
<1>6. Families'
  BY <1>1, <1>2 DEF Families, Unstored
<1>7. Spending'
  <2>1. HeldToken' = HeldToken /\ \A d \in Person : client[d].at # "rotated"
    BY <1>4 DEF HeldToken
  <2> QED BY <1>1, <2>1 DEF Spending
<1> QED BY <1>3, <1>5, <1>6, <1>7 DEF AuthInv

\* Credentials that end, or do not.
LEMMA LiveOrNot ==
    ASSUME NEW t \in Credentials, NEW live \in BOOLEAN
    PROVE  LET s == [t EXCEPT !.live = live]
           IN  s \in Credentials /\ s.kind = t.kind /\ s.login = t.login /\ s.rot = t.rot
  BY Zenon DEF Credentials

\* The family is not rotated, or the post is lost.
LEMMA UnspentKeeps == ASSUME AuthInv, NEW c \in Person, Auth!Unspent(c) PROVE AuthInv'
<1>1. /\ AuthShapes /\ Inside /\ client[c].at = "locked" /\ client[c].got = tokens
      /\ tokens.kind = "family" /\ Auth!Consents(config) /\ tokens \in Credentials
      /\ UNCHANGED <<config, tokens, lock, server>> /\ client[c] \in ClientRow
  BY DEF AuthInv, Auth!Unspent, Auth!MustRefresh, Inside, AuthShapes
<1>2. CASE client' = [client EXCEPT ![c] =
                 [at |-> "renewed", got |-> [client[c].got EXCEPT !.live = TRUE]]]
  <2> DEFINE row == [at |-> "renewed", got |-> [tokens EXCEPT !.live = TRUE]]
  <2>1. [tokens EXCEPT !.live = TRUE] \in Credentials
    BY <1>1, LiveOrNot
  <2>2. row \in ClientRow /\ row.at = "renewed" /\ row.got = [tokens EXCEPT !.live = TRUE]
    BY <2>1 DEF ClientRow, Errand
  <2>3. client' = [client EXCEPT ![c] = row]
    BY <1>1, <1>2
  <2> HIDE DEF row
  <2> QED BY <1>1, <2>2, <2>3, RenewedKeeps
<1>3. CASE Auth!Go(c, "failed")
  <2> DEFINE row == [client[c] EXCEPT !.at = "failed"]
  <2>1. "failed" \in Errand
    BY DEF Errand
  <2>2. row \in ClientRow /\ row.at = "failed"
    BY <1>1, <2>1, RowOf
  <2>3. client' = [client EXCEPT ![c] = row]
    BY <1>1, <1>3 DEF Auth!Go, AuthShapes
  <2> HIDE DEF row
  <2> QED BY <1>1, <2>2, <2>3, RenewedKeeps
<1> QED BY <1>2, <1>3 DEF Auth!Unspent

\* The rotation is on file before it is used.
LEMMA StoreRefreshKeeps == ASSUME AuthInv, NEW c \in Person, Auth!StoreRefresh(c) PROVE AuthInv'
<1>1. /\ AuthShapes /\ Inside /\ client[c].at \in {"rotated", "renewed"} /\ lock' = Nobody
      /\ UNCHANGED <<config, server>> /\ tokens' = client[c].got
      /\ client' = [client EXCEPT ![c] = [client[c] EXCEPT !.at = "served"]]
  BY DEF AuthInv, AuthShapes, Auth!StoreRefresh, Auth!Committed, Auth!Go
<1>2. /\ [client[c] EXCEPT !.at = "served"] \in ClientRow
      /\ [client[c] EXCEPT !.at = "served"].at = "served"
  <2>1. client[c] \in ClientRow /\ "served" \in Errand
    BY <1>1 DEF AuthShapes, Errand
  <2> QED BY <2>1, RowOf
<1>3. tokens' \in Credentials
  BY <1>1 DEF AuthShapes, ClientRow
<1>4. CASE client[c].at = "rotated"
  <2>1. tokens'.kind = "family" /\ tokens'.login = tokens.login /\ tokens'.rot = tokens.rot + 1
    BY <1>1, <1>4 DEF Inside
  <2> QED BY Zenon, <1>1, <1>2, <1>3, <1>4, <2>1, SettleKeeps
<1>5. CASE client[c].at = "renewed"
  <2>1. tokens.kind = "family" /\ tokens \in Credentials /\ tokens' = [tokens EXCEPT !.live = TRUE]
    BY <1>1, <1>5 DEF Inside, AuthShapes
  <2>2. tokens'.kind = "family" /\ tokens'.login = tokens.login /\ tokens'.rot = tokens.rot
    BY <2>1, LiveOrNot
  <2> QED BY <1>1, <1>2, <1>3, <1>5, <2>1, <2>2, RenewedKeeps
<1> QED BY <1>1, <1>4, <1>5

\* An answer that is lost leaves its refresh token spent on file.
LEMMA LoseKeeps == ASSUME AuthInv, NEW c \in Person, Auth!Lose(c) PROVE AuthInv'
<1> DEFINE row == [client[c] EXCEPT !.at = "failed"]
<1>1. /\ AuthShapes /\ Inside /\ Families /\ Spending /\ client[c].at \in {"rotated", "renewed"}
      /\ UNCHANGED <<config, lock>> /\ client' = [client EXCEPT ![c] = row]
      /\ tokens.kind = "family" /\ tokens \in Credentials
      /\ client[c].at = "rotated" =>
           client[c].got = [kind |-> "family", login |-> tokens.login, rot |-> tokens.rot + 1,
                            live |-> TRUE]
      /\ client[c].at = "renewed" => client[c].got = [tokens EXCEPT !.live = TRUE]
  <2>1. AuthShapes /\ Inside /\ Families /\ Spending /\ client[c].at \in {"rotated", "renewed"}
    BY DEF AuthInv, Auth!Lose
  <2>2. UNCHANGED <<config, lock>> /\ client' = [client EXCEPT ![c] = row]
    BY <2>1 DEF Auth!Lose, Auth!Go, AuthShapes
  <2> QED BY <2>1, <2>2 DEF Inside, AuthShapes
<1>2. row \in ClientRow /\ row.at = "failed"
  <2>1. client[c] \in ClientRow /\ "failed" \in Errand
    BY <1>1 DEF AuthShapes, Errand
  <2> QED BY <2>1, RowOf
<1> HIDE DEF row
<1>3. CASE tokens' = [client[c].got EXCEPT !.live = FALSE] /\ UNCHANGED server
  <2>1. client[c].got \in Credentials
    BY <1>1 DEF AuthShapes, ClientRow
  <2>2. /\ tokens' \in Credentials /\ tokens'.kind = client[c].got.kind
        /\ tokens'.login = client[c].got.login /\ tokens'.rot = client[c].got.rot
    BY <1>3, <2>1, LiveOrNot
  <2>3. CASE client[c].at = "rotated"
    <3>1. tokens'.kind = "family" /\ tokens'.login = tokens.login /\ tokens'.rot = tokens.rot + 1
      BY <1>1, <2>2, <2>3
    <3> QED BY Zenon, <1>1, <1>2, <1>3, <2>2, <2>3, <3>1, SettleKeeps
  <2>4. CASE client[c].at = "renewed"
    <3>1. tokens'.kind = "family" /\ tokens'.login = tokens.login /\ tokens'.rot = tokens.rot
      BY <1>1, <2>2, <2>4, LiveOrNot
    <3> QED BY <1>1, <1>2, <1>3, <2>2, <2>4, <3>1, RenewedKeeps
  <2> QED BY <1>1, <2>3, <2>4
<1>4. CASE UNCHANGED tokens /\ server' = [server EXCEPT !.lost = @ \cup {HeldToken}]
  <2>1. /\ server'.logins = server.logins /\ server'.spent = server.spent
        /\ server'.twice = server.twice /\ server'.lost = server.lost \cup {HeldToken}
        /\ server' \in [logins : Nat, spent : SUBSET (Nat \X Nat),
                        twice : SUBSET (Nat \X Nat), lost : SUBSET (Nat \X Nat)]
    BY <1>1, <1>4 DEF AuthShapes, HeldToken, Credentials
  <2>2. /\ client' \in [Person -> ClientRow] /\ client'[c] = row
        /\ \A d \in Person : d # c => client'[d] = client[d]
    BY <1>1, <1>2 DEF AuthShapes
  <2>3. AuthShapes'
    BY <1>1, <1>4, <2>1, <2>2 DEF AuthShapes
  <2>4. Inside'
    <3>1. lock' = c /\ \A d \in Person : d # c => client'[d].at \notin {"locked", "rotated", "renewed", "failed"}
      BY <1>1, <2>2, Alone
    <3> QED BY <1>2, <2>2, <3>1 DEF Inside
  <2>5. Families'
    BY <1>1, <1>2, <1>4, <2>1, <2>2 DEF Families, Unstored
  <2>6. Spending'
    BY <1>1, <1>4, <2>1 DEF Spending, HeldToken
  <2> QED BY <2>3, <2>4, <2>5, <2>6 DEF AuthInv
<1>5. CASE client[c].at = "renewed" /\ UNCHANGED <<tokens, server>>
  BY <1>1, <1>2, <1>5, RenewedKeeps
<1>6. \/ tokens' = [client[c].got EXCEPT !.live = FALSE] /\ UNCHANGED server
      \/ /\ UNCHANGED tokens
         /\ server' = IF client[c].at = "rotated" THEN [server EXCEPT !.lost = @ \cup {HeldToken}]
                      ELSE server
  BY DEF Auth!Lose, Auth!Wasted, Auth!Held, HeldToken
<1> QED BY <1>1, <1>3, <1>4, <1>5, <1>6

\* What a client has in the transaction ends with what is on file.
LEMMA AuthExpireKeeps == ASSUME AuthInv, Auth!Expire PROVE AuthInv'
<1>1. /\ AuthShapes /\ Inside /\ Families /\ Spending
      /\ tokens' = [tokens EXCEPT !.live = FALSE] /\ UNCHANGED <<config, lock, server>>
      /\ client' = [c \in Person |->
            IF client[c].at = "locked" THEN [client[c] EXCEPT !.got = tokens'] ELSE client[c]]
  BY DEF AuthInv, Auth!Expire
<1>2. /\ tokens' \in Credentials /\ tokens'.kind = tokens.kind
      /\ tokens'.login = tokens.login /\ tokens'.rot = tokens.rot
  BY Zenon, <1>1 DEF AuthShapes, Credentials
<1>3. \A c \in Person :
        /\ client'[c] \in ClientRow /\ client'[c].at = client[c].at
        /\ client[c].at = "locked" => client'[c].got = tokens'
        /\ client[c].at # "locked" => client'[c] = client[c]
  <2> SUFFICES ASSUME NEW c \in Person
               PROVE  /\ client'[c] \in ClientRow /\ client'[c].at = client[c].at
                      /\ client[c].at = "locked" => client'[c].got = tokens'
                      /\ client[c].at # "locked" => client'[c] = client[c]
    OBVIOUS
  <2>1. client[c] \in ClientRow
    BY <1>1 DEF AuthShapes
  <2>2. CASE client[c].at = "locked"
    <3>1. client'[c] = [client[c] EXCEPT !.got = tokens']
      BY <1>1, <2>2
    <3> QED BY <1>2, <2>1, <2>2, <3>1 DEF ClientRow
  <2>3. CASE client[c].at # "locked"
    BY <1>1, <2>1, <2>3
  <2> QED BY <2>2, <2>3
<1>4. AuthShapes'
  <2>1. client' \in [Person -> ClientRow]
    BY <1>1, <1>3
  <2> QED BY <1>1, <1>2, <2>1 DEF AuthShapes
<1>5. Inside'
  BY ZenonT(40), <1>1, <1>2, <1>3 DEF Inside
<1>6. Families'
  BY <1>1, <1>2, <1>3 DEF Families, Unstored
<1>7. Spending'
  BY <1>1, <1>2, <1>3 DEF Spending, HeldToken
<1> QED BY <1>4, <1>5, <1>6, <1>7 DEF AuthInv

\* A step of nobody's.
LEMMA AuthStutters ==
    ASSUME AuthInv, UNCHANGED <<config, tokens, lock, client, server>> PROVE AuthInv'
<1>1. AuthShapes' /\ Inside'
  BY Zenon DEF AuthInv, AuthShapes, Inside
<1>2. Families' /\ Spending'
  BY DEF AuthInv, Families, Unstored, Spending, HeldToken
<1> QED BY <1>1, <1>2 DEF AuthInv

\* Every step of the clients, and of time, keeps the invariant.
LEMMA AuthStep == ASSUME AuthInv, [Auth!AuthNext]_(Auth!authVars) PROVE AuthInv'
<1>1. ASSUME NEW c \in Person,
             \/ Auth!Enable(c) \/ Auth!Disable(c) \/ Auth!Logout(c) \/ Auth!Login(c)
             \/ Auth!OptIn(c) \/ Auth!Polled(c)
             \/ \E value \in Auth!Preference : Auth!Prefer(c, value)
             \/ Auth!StoreLogin(c) \/ Auth!Ask(c) \/ Auth!Acquire(c) \/ Auth!Busy(c)
             \/ Auth!Refuse(c)
             \/ \E creds \in {tokens, Auth!CodexLogin} : Auth!HandOut(c, creds)
             \/ Auth!Present(c) \/ Auth!Unspent(c) \/ Auth!Lose(c) \/ Auth!StoreRefresh(c)
             \/ Auth!Fail(c) \/ Auth!Leave(c) \/ Auth!Kill(c)
      PROVE  AuthInv'
  BY <1>1, QuietKeeps, LogoutKeeps, PolledKeeps, StoreLoginKeeps, AcquireKeeps, HandOutKeeps,
     PresentKeeps, UnspentKeeps, LoseKeeps, StoreRefreshKeeps, AuthKillKeeps
<1>2. CASE UNCHANGED Auth!authVars
  BY <1>2, AuthStutters DEF Auth!authVars
<1> QED BY <1>1, <1>2, AuthExpireKeeps DEF Auth!AuthNext

\* What is answered is on file, and on file is a consent to answer it.
LEMMA AuthHandsOut ==
    ASSUME AuthInv, Auth!AuthNext PROVE Auth!HandsOutTheStore
<1> SUFFICES ASSUME NEW c \in Person, client[c].at # "served", client'[c].at = "served"
             PROVE  /\ Auth!Consents(config')
                    /\ IF client'[c].got.kind = "codex" THEN tokens'.kind = "absent"
                       ELSE client'[c].got = tokens'
  BY DEF Auth!HandsOutTheStore
<1>1. AuthShapes /\ Inside /\ AuthInv
  BY DEF AuthInv
<1>2. ASSUME NEW d \in Person, NEW creds \in {tokens, Auth!CodexLogin}, Auth!HandOut(d, creds)
      PROVE  /\ Auth!Consents(config')
             /\ IF client'[c].got.kind = "codex" THEN tokens'.kind = "absent"
                ELSE client'[c].got = tokens'
  <2>1. /\ UNCHANGED <<config, tokens>> /\ client[d].at = "locked" /\ client[d].got = tokens
        /\ client' = [client EXCEPT ![d] = [at |-> "served", got |-> creds]]
        /\ Auth!MayHandOut(d, creds)
    BY <1>1, <1>2 DEF Auth!HandOut, Inside
  <2>2. d = c /\ client'[c].got = creds
    BY <1>1, <2>1 DEF AuthShapes
  <2>3. Auth!CodexLogin.kind = "codex"
    BY DEF Auth!CodexLogin, Auth!Absent
  <2>4. Auth!Consents(config) /\ (creds = tokens \/ (creds = Auth!CodexLogin /\ tokens.kind = "absent"))
    BY <2>1 DEF Auth!MayHandOut
  <2> QED BY <1>1, <2>1, <2>2, <2>3, <2>4 DEF AuthShapes
<1>3. ASSUME NEW d \in Person, Auth!StoreRefresh(d)
      PROVE  /\ Auth!Consents(config')
             /\ IF client'[c].got.kind = "codex" THEN tokens'.kind = "absent"
                ELSE client'[c].got = tokens'
  <2>1. /\ UNCHANGED config /\ client[d].at \in {"rotated", "renewed"} /\ tokens' = client[d].got
        /\ client' = [client EXCEPT ![d].at = "served"]
    BY <1>3 DEF Auth!StoreRefresh, Auth!Committed, Auth!Go
  <2>3. [tokens EXCEPT !.live = TRUE].kind = tokens.kind
    BY <1>1, LiveOrNot DEF AuthShapes
  <2>4. Auth!Consents(config) /\ client[d].got.kind = "family"
    <3>1. CASE client[d].at = "rotated"
      BY <1>1, <3>1 DEF Inside
    <3>2. CASE client[d].at = "renewed"
      <4>1. /\ Auth!Consents(config) /\ tokens.kind = "family"
            /\ client[d].got = [tokens EXCEPT !.live = TRUE]
        BY <1>1, <3>2 DEF Inside
      <4> QED BY <2>3, <4>1
    <3> QED BY <2>1, <3>1, <3>2
  <2>2. d = c /\ client'[c].got = client[c].got
    BY <1>1, <2>1 DEF AuthShapes, ClientRow
  <2> QED BY <2>1, <2>2, <2>4 DEF Auth!Consents, Auth!Active
<1>4. ASSUME NEW d \in Person,
             \/ Auth!Enable(d) \/ Auth!Disable(d) \/ Auth!Logout(d)
             \/ \E value \in Auth!Preference : Auth!Prefer(d, value)
      PROVE  FALSE
  <2>1. UNCHANGED client
    BY <1>4 DEF Auth!Enable, Auth!Disable, Auth!Logout, Auth!Prefer, Auth!Command
  <2> QED BY <2>1
<1>5. ASSUME NEW d \in Person, NEW at \in Errand \ {"served"}, NEW got,
             client' = [client EXCEPT ![d] = [at |-> at, got |-> got]]
      PROVE  FALSE
  BY <1>1, <1>5 DEF AuthShapes
<1>6. ASSUME NEW d \in Person, NEW at \in Errand \ {"served"}, Auth!Go(d, at)
      PROVE  FALSE
  <2>1. client'[d].at = at \/ client'[d] = client[d]
    BY <1>1, <1>6 DEF AuthShapes, Auth!Go, ClientRow
  <2>2. client[d] \in ClientRow
    BY <1>1 DEF AuthShapes
  <2>3. client'[d].at = at
    BY <1>1, <1>6, <2>2 DEF AuthShapes, Auth!Go, ClientRow
  <2>4. d # c => client'[c] = client[c]
    BY <1>1, <1>6 DEF AuthShapes, Auth!Go
  <2> QED BY <2>3, <2>4
<1>7. ASSUME NEW d \in Person, Auth!Idle(d) PROVE FALSE
  BY <1>1, <1>7, IdleRow DEF AuthShapes, Auth!Idle
<1>8. ASSUME NEW d \in Person, NEW at \in Errand \ {"served"}, NEW got,
             client' = [client EXCEPT ![d].at = at, ![d].got = got]
      PROVE  FALSE
  <2>1. PICK x, y : client[d] = [at |-> x, got |-> y]
    BY <1>1 DEF AuthShapes, ClientRow
  <2>2. client'[d].at = at /\ (d # c => client'[c] = client[c])
    BY <1>1, <1>8, <2>1 DEF AuthShapes
  <2> QED BY <2>2
<1>9. ASSUME NEW d \in Person, Auth!Login(d) \/ Auth!OptIn(d) \/ Auth!Lose(d) PROVE FALSE
  <2>1. \E at \in {"opting", "polling", "failed"} : Auth!Go(d, at)
    BY <1>9 DEF Auth!Login, Auth!OptIn, Auth!Lose
  <2> QED BY <1>6, <2>1 DEF Errand
<1>10. ASSUME NEW d \in Person,
              \/ Auth!StoreLogin(d) \/ Auth!Busy(d) \/ Auth!Refuse(d) \/ Auth!Fail(d)
              \/ Auth!Leave(d) \/ Auth!Kill(d)
       PROVE  FALSE
  <2>1. Auth!Idle(d)
    BY <1>10 DEF Auth!StoreLogin, Auth!Busy, Auth!Refuse, Auth!Fail, Auth!Leave, Auth!Kill
  <2> QED BY <1>7, <2>1
<1>11. ASSUME NEW d \in Person, Auth!Ask(d) \/ Auth!Acquire(d) \/ Auth!Present(d)
       PROVE  FALSE
  <2>1. CASE Auth!Ask(d)
    BY Zenon, <1>8, <2>1 DEF Auth!Ask, Errand
  <2>2. CASE Auth!Acquire(d)
    BY Zenon, <1>8, <2>2 DEF Auth!Acquire, Errand
  <2>3. CASE Auth!Present(d)
    <3>1. PICK x, y : client[d] = [at |-> x, got |-> y]
      BY <1>1 DEF AuthShapes, ClientRow
    <3>2. client'[d].at \in {"failed", "rotated"} /\ (d # c => client'[c] = client[c])
      BY <1>1, <2>3, <3>1 DEF Auth!Present, AuthShapes
    <3> QED BY <3>2
  <2> QED BY <1>11, <2>1, <2>2, <2>3
<1>12. ASSUME NEW d \in Person, Auth!Polled(d) PROVE FALSE
  <2>1. Auth!Idle(d) \/ client' = [client EXCEPT ![d].at = "storing",
                              ![d].got = Auth!Family(server.logins + 1, 0, TRUE)]
    BY Zenon, <1>12 DEF Auth!Polled
  <2> QED BY Zenon, <1>7, <1>8, <2>1 DEF Errand
<1>13. ~Auth!Expire
  <2> SUFFICES ASSUME Auth!Expire PROVE FALSE
    OBVIOUS
  <2>1. client'[c] = IF client[c].at = "locked" THEN [client[c] EXCEPT !.got = tokens']
                     ELSE client[c]
    BY DEF Auth!Expire
  <2>2. client[c] \in ClientRow
    BY <1>1 DEF AuthShapes
  <2> QED BY <2>1, <2>2 DEF ClientRow
<1>14. ASSUME NEW d \in Person, Auth!Unspent(d) PROVE FALSE
  <2>1. Auth!Go(d, "failed")
          \/ client' = [client EXCEPT ![d] =
                 [at |-> "renewed", got |-> [client[d].got EXCEPT !.live = TRUE]]]
    BY <1>14 DEF Auth!Unspent
  <2> QED BY Zenon, <1>5, <1>6, <2>1 DEF Errand
<1> QED BY <1>2, <1>3, <1>4, <1>9, <1>10, <1>11, <1>12, <1>13, <1>14 DEF Auth!AuthNext

AuthPart == part = "auth" => AuthInv

\* A refresh token is presented once unless its answer was lost, and credentials are
\* answered under a consent on file, as they are on file: for any clients, logins,
\* rotations, kills and lost answers.
THEOREM ServicesShareLogins == Spec => LoginsAreShared
<1>1. Init => AuthPart
  BY AuthInitially DEF Init, AuthPart
<1>2. AuthPart /\ [Next]_vars => AuthPart'
  <2> SUFFICES ASSUME AuthPart, [Next]_vars, part' = "auth" PROVE AuthInv'
    BY DEF AuthPart
  <2>1. part = "auth" /\ [Auth!AuthNext]_(Auth!authVars)
    <3>1. CASE Next
      BY <3>1 DEF Next
    <3>2. CASE UNCHANGED vars
      BY <3>2 DEF vars, after5, Auth!authVars
    <3> QED BY <3>1, <3>2
  <2> QED BY <2>1, AuthStep DEF AuthPart
<1>3. AuthPart => (part = "auth" => Auth!TokensAreSpentOnce)
  BY DEF AuthPart, AuthInv, Spending, Auth!TokensAreSpentOnce
<1>4. AuthPart /\ [Next]_vars => [part = "auth" => Auth!HandsOutTheStore]_vars
  <2> SUFFICES ASSUME AuthPart, Next, part = "auth" PROVE Auth!HandsOutTheStore
    OBVIOUS
  <2>1. AuthInv /\ Auth!AuthNext
    BY DEF AuthPart, Next
  <2> QED BY <2>1, AuthHandsOut
<1> QED BY <1>1, <1>2, <1>3, <1>4, PTL DEF Spec, LoginsAreShared

-----------------------------------------------------------------------------
(* The scheduled jobs, in the names of CronJobs. *)

file == v1
tmp == v2
edit == v3
loop == v4
clock == v5
fired == v6
wanted == v7
cut == v8

USE DEF file, tmp, edit, loop, clock, fired, wanted, cut

JobEntry == [id : Job, enabled : BOOLEAN, last : Int]
JobList == Seq(JobEntry)
Ops == {"add", "remove", "pause", "resume", "mark"}
EditRow == [by : {"none", "tool", "loop"}, op : Ops \cup {"none"}, job : Job \cup {"none"},
            jobs : JobList, at : {"free", "changed", "written"}]
LoopRow == [at : {"off", "asleep", "going", "running", "marking"}, now : Int, todo : JobList]
CutRow == [marks : SUBSET Job, lines : SUBSET Job, left : Int]

CronShapes ==
    /\ file \in JobList
    /\ tmp \in [there : BOOLEAN, jobs : JobList]
    /\ edit \in [Client -> EditRow]
    /\ loop \in [Client -> LoopRow]
    /\ clock \in Nat
    /\ fired \in [Job -> Seq(Int)]
    /\ wanted \in [Job -> {"unborn", "on", "off", "gone"}]
    /\ cut \in CutRow

\* What a list has of a job, and a list that has each job once.
Of(jobs, j) == {e \in JobEntry : e.id = j /\ \E i \in DOMAIN jobs : jobs[i] = e}
Distinct(jobs) == \A i, k \in DOMAIN jobs : jobs[i].id = jobs[k].id => i = k

\* Of a loop: its tick goes on; it is at a job's run; what it has still to look at.
Awake(l) == l.at \in {"going", "running", "marking"}
Busy(l) == l.at \in {"running", "marking"}
Ahead(l, j) == IF Busy(l) THEN Of(Tail(l.todo), j) ELSE Of(l.todo, j)

\* A mark is of the job that the loop has just run; an add is of a job that is new.
Acting(e, l, w) ==
    /\ e.at = "free" <=> e = Cron!Free
    /\ e.at # "free" => e.job \in Job /\ e.op \in Ops
    /\ e.op = "add" => w[e.job] = "unborn"
    /\ e.op \in {"remove", "pause", "resume"} => w[e.job] # "unborn"
    /\ e.op = "mark" <=> l.at = "marking"
    /\ e.op = "mark" <=> e.by = "loop"
    /\ Busy(l) => l.todo # <<>>
    /\ e.op = "mark" => e.job = Head(l.todo).id
Changing == \A p \in Client : Acting(edit[p], loop[p], wanted)

(* A list has each job once: one that nobody has added is in no list, and nobody *)
(* adds what another adds.                                                       *)
Adds(e, j) == e.op = "add" /\ e.job = j
Nowhere(j) ==
    /\ Of(file, j) = {} /\ Of(tmp.jobs, j) = {}
    /\ \A p \in Client : Of(edit[p].jobs, j) = {}
Lists ==
    /\ Distinct(file) /\ Distinct(tmp.jobs)
    /\ \A p \in Client : Distinct(edit[p].jobs) /\ Distinct(loop[p].todo)
    /\ \A j \in Job : \A p, q \in Client : Adds(edit[p], j) /\ Adds(edit[q], j) => p = q
    /\ \A j \in Job :
         wanted[j] = "unborn" /\ (\A p \in Client : ~Adds(edit[p], j)) => Nowhere(j)

\* A job is there if it is wanted, as it is wanted.
Meets(s, w) == (s # {} <=> w \in {"on", "off"}) /\ \A e \in s : e.enabled = (w = "on")

(* Of a job whose line nothing took: the file has it as it is wanted; a change of *)
(* it is the only one in progress and has it as it will be wanted; a change of    *)
(* another job leaves it as the file has it; and so does what is in the temporary *)
(* file when somebody is about to rename it.                                      *)
Stands(j) ==
    /\ Meets(Of(file, j), wanted[j])
    /\ \A p \in Client :
         /\ edit[p].at # "free" /\ edit[p].job # j => Of(edit[p].jobs, j) = Of(file, j)
         /\ edit[p].at # "free" /\ edit[p].job = j =>
              /\ \A q \in Client : q # p => edit[q].at = "free"
              /\ Meets(Of(edit[p].jobs, j), Cron!Asked(edit[p].op, wanted[j]))
              /\ edit[p].op # "add" => wanted[j] \in {"on", "off"}
         /\ edit[p].at = "written" /\ tmp.there => Of(tmp.jobs, j) = Of(edit[p].jobs, j)

\* An entry knows of every run of its job.
Knows(runs, e) == \A i \in DOMAIN runs : runs[i] <= e.last

\* A job whose run is not marked yet.
Running(j) == \E p \in Client : Busy(loop[p]) /\ Head(loop[p].todo).id = j

(* Of a job whose line and whose mark nothing took: no two ticks have it, and every *)
(* entry, in the file or ahead of a tick, knows of the runs of its job, but for the *)
(* one that is being run.                                                           *)
Marks(j) ==
    /\ wanted[j] = "unborn" => fired[j] = <<>>
    /\ \A e \in Of(file, j) : Running(j) \/ Knows(fired[j], e)
    /\ \A p \in Client : edit[p].at # "free" /\ edit[p].job = j =>
         \A e \in Of(edit[p].jobs, j) :
           (edit[p].op # "mark" /\ Running(j)) \/ Knows(fired[j], e)
    /\ \A p \in Client : Awake(loop[p]) /\ Of(loop[p].todo, j) # {} =>
         /\ wanted[j] # "unborn"
         /\ \A q \in Client : Awake(loop[q]) /\ Of(loop[q].todo, j) # {} => p = q
         /\ \A i \in DOMAIN fired[j] : fired[j][i] <= loop[p].now
         /\ \A e \in Ahead(loop[p], j) : Knows(fired[j], e)

\* Two runs of a job that its schedule allows, and runs that are all so.
Apart(s, t, j) ==
    CASE Schedule[j].type = "once" -> FALSE
      [] Schedule[j].type = "interval" -> t - s >= 2 * Schedule[j].value
      [] Schedule[j].type = "cron" -> Cron!MinuteFloor(t) # Cron!MinuteFloor(s)
Spaced(runs, j) == \A i, k \in DOMAIN runs : i < k => Apart(runs[i], runs[k], j)

Times ==
    /\ \A j \in Job : \A i \in DOMAIN fired[j] : 0 <= fired[j][i] /\ fired[j][i] <= clock
    /\ \A p \in Client : Awake(loop[p]) => 0 <= loop[p].now /\ loop[p].now <= clock

CronInv ==
    /\ CronShapes /\ Changing /\ Lists /\ Times
    /\ \A j \in Job \ cut.lines : Stands(j)
    /\ \A j \in Job \ (cut.marks \cup cut.lines) : Marks(j) /\ Spaced(fired[j], j)

(* What a change of the list leaves in it: the other jobs as they were, and its *)
(* own as it asks.                                                             *)
Follows(new, jobs, op, j, now) ==
    /\ new \in JobList /\ Distinct(new)
    /\ Cron!Has(new, j) <=> op # "remove"
    /\ \A k \in Job : k # j => (Cron!Has(new, k) <=> Cron!Has(jobs, k))
    /\ \A i \in DOMAIN new : new[i].id # j => \E k \in DOMAIN jobs : new[i] = jobs[k]
    /\ \A i \in DOMAIN new : new[i].id = j =>
         /\ op = "add" => new[i] = Cron!NewJob(j)
         /\ op # "add" => \E k \in DOMAIN jobs :
              /\ jobs[k].id = j
              /\ op = "mark" => new[i].last = now /\ new[i].enabled = jobs[k].enabled
              /\ op # "mark" => new[i].last = jobs[k].last /\ new[i].enabled = (op = "resume")

\* A list's entries.
LEMMA Entries ==
    ASSUME NEW jobs \in JobList
    PROVE  /\ Len(jobs) \in Nat /\ DOMAIN jobs = 1 .. Len(jobs)
           /\ \A i \in DOMAIN jobs : jobs[i] \in JobEntry /\ jobs[i].id \in Job
<1>1. Len(jobs) \in Nat /\ DOMAIN jobs = 1 .. Len(jobs) /\ \A i \in DOMAIN jobs : jobs[i] \in JobEntry
  BY DEF JobList
<1> QED BY <1>1 DEF JobEntry

\* A job that is new is the last.
LEMMA AddFollows ==
    ASSUME NEW jobs \in JobList, Distinct(jobs), NEW j \in Job, ~Cron!Has(jobs, j), NEW now
    PROVE  Follows(Append(jobs, Cron!NewJob(j)), jobs, "add", j, now)
<1> DEFINE new == Append(jobs, Cron!NewJob(j))
<1>1. Cron!NewJob(j) \in JobEntry /\ Cron!NewJob(j).id = j
  BY DEF Cron!NewJob, Cron!Never, JobEntry
<1>2. /\ new \in JobList /\ DOMAIN new = 1 .. Len(jobs) + 1 /\ new[Len(jobs) + 1] = Cron!NewJob(j)
      /\ \A i \in DOMAIN jobs : new[i] = jobs[i]
      /\ Len(jobs) \in Nat /\ DOMAIN jobs = 1 .. Len(jobs)
  BY <1>1 DEF JobList
<1> HIDE DEF new
<1>3. \A i \in DOMAIN new : i = Len(jobs) + 1 \/ (i \in DOMAIN jobs /\ new[i] = jobs[i])
  BY <1>2
<1>4. \A i \in DOMAIN jobs : jobs[i].id # j
  BY DEF Cron!Has
<1>5. Distinct(new)
  BY <1>1, <1>2, <1>3, <1>4 DEF Distinct
<1>6. Cron!Has(new, j)
  BY <1>1, <1>2 DEF Cron!Has
<1>7. \A k \in Job : k # j => (Cron!Has(new, k) <=> Cron!Has(jobs, k))
  BY <1>1, <1>2, <1>3 DEF Cron!Has
<1>8. Follows(new, jobs, "add", j, now)
  BY <1>1, <1>2, <1>3, <1>4, <1>5, <1>6, <1>7 DEF Follows
<1> QED BY <1>8 DEF new

\* A job that is removed was there once.
LEMMA RemoveFollows ==
    ASSUME NEW jobs \in JobList, Distinct(jobs), NEW j \in Job, Cron!Has(jobs, j), NEW now
    PROVE  Follows(Cron!Without(jobs, j), jobs, "remove", j, now)
<1> DEFINE gone == CHOOSE i \in DOMAIN jobs : jobs[i].id = j
           new == Cron!Without(jobs, j)
<1>1. gone \in DOMAIN jobs /\ jobs[gone].id = j
  BY DEF Cron!Has
<1>2. Len(jobs) \in Nat /\ DOMAIN jobs = 1 .. Len(jobs) /\ jobs \in [1 .. Len(jobs) -> JobEntry]
  BY DEF JobList
<1>3. new = [i \in 1 .. Len(jobs) - 1 |-> jobs[IF i < gone THEN i ELSE i + 1]]
  BY DEF Cron!Without
<1> HIDE DEF gone, new
<1>4. /\ DOMAIN new = 1 .. Len(jobs) - 1
      /\ \A i \in DOMAIN new : new[i] = jobs[IF i < gone THEN i ELSE i + 1]
  BY <1>3
<1>5. new \in JobList
  <2>1. Len(jobs) - 1 \in Nat
    BY <1>1, <1>2
  <2>2. new \in [1 .. Len(jobs) - 1 -> JobEntry]
    BY <1>1, <1>2, <1>3
  <2> QED BY <2>1, <2>2 DEF JobList
<1>6. \A i \in DOMAIN new : \E k \in DOMAIN jobs :
         k = (IF i < gone THEN i ELSE i + 1) /\ k # gone /\ new[i] = jobs[k]
  BY <1>1, <1>2, <1>4
<1>7. \A k \in DOMAIN jobs : k # gone => \E i \in DOMAIN new : new[i] = jobs[k]
  <2> SUFFICES ASSUME NEW k \in DOMAIN jobs, k # gone PROVE \E i \in DOMAIN new : new[i] = jobs[k]
    OBVIOUS
  <2>1. CASE k < gone
    BY <1>1, <1>2, <1>4, <2>1
  <2>2. CASE k > gone
    <3>1. k - 1 \in DOMAIN new /\ new[k - 1] = jobs[k]
      BY <1>1, <1>2, <1>4, <2>2
    <3> QED BY <3>1
  <2> QED BY <1>1, <1>2, <2>1, <2>2
<1>8. \A k \in DOMAIN jobs : jobs[k].id = j => k = gone
  BY <1>1 DEF Distinct
<1>9. Distinct(new)
  <2> SUFFICES ASSUME NEW i \in DOMAIN new, NEW k \in DOMAIN new, new[i].id = new[k].id
               PROVE  i = k
    BY DEF Distinct
  <2>1. /\ (IF i < gone THEN i ELSE i + 1) \in DOMAIN jobs
        /\ (IF k < gone THEN k ELSE k + 1) \in DOMAIN jobs
        /\ new[i] = jobs[IF i < gone THEN i ELSE i + 1]
        /\ new[k] = jobs[IF k < gone THEN k ELSE k + 1]
    BY <1>4, <1>6
  <2>2. (IF i < gone THEN i ELSE i + 1) = (IF k < gone THEN k ELSE k + 1)
    BY <2>1 DEF Distinct
  <2> QED BY <1>1, <1>2, <1>4, <2>2
<1>10. ~Cron!Has(new, j)
  BY <1>6, <1>8 DEF Cron!Has
<1>11. \A k \in Job : k # j => (Cron!Has(new, k) <=> Cron!Has(jobs, k))
  BY <1>1, <1>6, <1>7 DEF Cron!Has
<1>12. \A i \in DOMAIN new : new[i].id # j
  BY <1>10 DEF Cron!Has
<1>13. Follows(new, jobs, "remove", j, now)
  BY <1>5, <1>6, <1>9, <1>10, <1>11, <1>12 DEF Follows
<1> QED BY <1>13 DEF new

\* A job that is paused, resumed or marked keeps its place.
LEMMA RenewFollows ==
    ASSUME NEW jobs \in JobList, Distinct(jobs), NEW j \in Job, Cron!Has(jobs, j), NEW now \in Int,
           NEW op \in {"pause", "resume", "mark"}
    PROVE  Follows([i \in DOMAIN jobs |->
                       IF jobs[i].id = j THEN Cron!Renewed(op, jobs[i], now) ELSE jobs[i]],
                   jobs, op, j, now)
<1> DEFINE new == [i \in DOMAIN jobs |->
                     IF jobs[i].id = j THEN Cron!Renewed(op, jobs[i], now) ELSE jobs[i]]
<1>1. Len(jobs) \in Nat /\ DOMAIN jobs = 1 .. Len(jobs) /\ jobs \in [1 .. Len(jobs) -> JobEntry]
  BY DEF JobList
<1>2. ASSUME NEW e \in JobEntry
      PROVE  /\ Cron!Renewed(op, e, now) \in JobEntry
             /\ Cron!Renewed(op, e, now).id = e.id
             /\ op = "mark" => /\ Cron!Renewed(op, e, now).last = now
                               /\ Cron!Renewed(op, e, now).enabled = e.enabled
             /\ op # "mark" => /\ Cron!Renewed(op, e, now).last = e.last
                               /\ Cron!Renewed(op, e, now).enabled = (op = "resume")
  <2>1. CASE op = "mark"
    <3>1. Cron!Renewed(op, e, now) = [e EXCEPT !.last = now]
      BY <2>1 DEF Cron!Renewed
    <3> QED BY <2>1, <3>1 DEF JobEntry
  <2>2. CASE op # "mark"
    <3>1. Cron!Renewed(op, e, now) = [e EXCEPT !.enabled = (op = "resume")]
      BY <2>2 DEF Cron!Renewed
    <3>2. (op = "resume") \in BOOLEAN
      OBVIOUS
    <3> QED BY Zenon, <2>2, <3>1, <3>2 DEF JobEntry
  <2> QED BY <2>1, <2>2
<1>3. /\ DOMAIN new = DOMAIN jobs
      /\ \A i \in DOMAIN jobs :
           new[i] = IF jobs[i].id = j THEN Cron!Renewed(op, jobs[i], now) ELSE jobs[i]
  OBVIOUS
<1> HIDE DEF new
<1>4. \A i \in DOMAIN jobs :
        /\ new[i] \in JobEntry /\ new[i].id = jobs[i].id
        /\ jobs[i].id # j => new[i] = jobs[i]
        /\ jobs[i].id = j => new[i] = Cron!Renewed(op, jobs[i], now)
  BY <1>1, <1>2, <1>3
<1>5. new \in JobList
  <2>1. new \in [1 .. Len(jobs) -> JobEntry]
    BY <1>1, <1>3, <1>4 DEF new
  <2> QED BY <1>1, <2>1 DEF JobList
<1>6. Distinct(new) /\ \A k \in Job : Cron!Has(new, k) <=> Cron!Has(jobs, k)
  BY <1>3, <1>4 DEF Distinct, Cron!Has
<1>7. \A i \in DOMAIN new : new[i].id = j => \E k \in DOMAIN jobs :
        /\ jobs[k].id = j
        /\ op = "mark" => new[i].last = now /\ new[i].enabled = jobs[k].enabled
        /\ op # "mark" => new[i].last = jobs[k].last /\ new[i].enabled = (op = "resume")
  BY <1>1, <1>2, <1>3, <1>4
<1>8. Follows(new, jobs, op, j, now)
  BY <1>3, <1>4, <1>5, <1>6, <1>7 DEF Follows
<1> QED BY <1>8 DEF new

\* What every change does.
LEMMA ChangeFollows ==
    ASSUME NEW jobs \in JobList, Distinct(jobs), NEW j \in Job, NEW now \in Int,
           NEW op \in Ops, op = "add" <=> ~Cron!Has(jobs, j)
    PROVE  Follows(Cron!Changed(op, j, jobs, now), jobs, op, j, now)
<1>1. CASE op = "add"
  <2>1. Cron!Changed(op, j, jobs, now) = Append(jobs, Cron!NewJob(j))
    BY <1>1 DEF Cron!Changed
  <2> QED BY Zenon, <1>1, <2>1, AddFollows
<1>2. CASE op = "remove"
  <2>1. Cron!Changed(op, j, jobs, now) = Cron!Without(jobs, j)
    BY <1>2 DEF Cron!Changed
  <2> QED BY <1>2, <2>1, RemoveFollows
<1>3. CASE op \in {"pause", "resume", "mark"}
  <2>1. Cron!Changed(op, j, jobs, now) = [i \in DOMAIN jobs |->
           IF jobs[i].id = j THEN Cron!Renewed(op, jobs[i], now) ELSE jobs[i]]
    BY <1>3 DEF Cron!Changed
  <2> QED BY Zenon, <1>3, <2>1, RenewFollows
<1> QED BY <1>1, <1>2, <1>3 DEF Ops

\* What a list has of a job.
LEMMA OfList ==
    ASSUME NEW jobs \in JobList, NEW j
    PROVE  /\ \A i \in DOMAIN jobs : jobs[i].id = j => jobs[i] \in Of(jobs, j)
           /\ \A e \in Of(jobs, j) : e \in JobEntry /\ e.id = j /\ \E i \in DOMAIN jobs : jobs[i] = e
           /\ Cron!Has(jobs, j) <=> Of(jobs, j) # {}
           /\ j \in Cron!Listed(jobs) <=> Of(jobs, j) # {}
<1>1. \A i \in DOMAIN jobs : jobs[i].id = j => jobs[i] \in Of(jobs, j)
  BY Entries DEF Of
<1>2. \A e \in Of(jobs, j) : e \in JobEntry /\ e.id = j /\ \E i \in DOMAIN jobs : jobs[i] = e
  BY DEF Of
<1>3. Cron!Has(jobs, j) <=> Of(jobs, j) # {}
  BY Zenon, <1>1, <1>2 DEF Cron!Has
<1>4. j \in Cron!Listed(jobs) <=> Cron!Has(jobs, j)
  BY DEF Cron!Listed, Cron!Has
<1> QED BY <1>1, <1>2, <1>3, <1>4

LEMMA OfOne ==
    ASSUME NEW jobs \in JobList, Distinct(jobs), NEW j, NEW e \in Of(jobs, j), NEW f \in Of(jobs, j)
    PROVE  e = f
<1>1. PICK i \in DOMAIN jobs : jobs[i] = e /\ e.id = j
  BY OfList
<1>2. PICK k \in DOMAIN jobs : jobs[k] = f /\ f.id = j
  BY OfList
<1> QED BY <1>1, <1>2 DEF Distinct

LEMMA OfNone == <<>> \in JobList /\ Distinct(<<>>) /\ \A j : Of(<<>>, j) = {}
  BY DEF JobList, Distinct, Of

\* The head of what a tick goes through, and the rest of it.
LEMMA Rest ==
    ASSUME NEW s \in JobList, Distinct(s), s # <<>>
    PROVE  /\ Tail(s) \in JobList /\ Distinct(Tail(s))
           /\ Head(s) \in JobEntry /\ Head(s).id \in Job /\ Head(s) \in Of(s, Head(s).id)
           /\ Of(Tail(s), Head(s).id) = {}
           /\ \A j : Of(Tail(s), j) \subseteq Of(s, j)
<1>1. /\ Len(s) \in Nat /\ DOMAIN s = 1 .. Len(s) /\ Len(s) # 0
      /\ Tail(s) \in JobList /\ Len(Tail(s)) = Len(s) - 1
      /\ \A i \in 1 .. Len(s) - 1 : Tail(s)[i] = s[i + 1]
  BY DEF JobList
<1>2. Head(s) = s[1] /\ s[1] \in JobEntry /\ 1 \in DOMAIN s
  BY <1>1 DEF JobList
<1>3. DOMAIN Tail(s) = 1 .. Len(s) - 1
  BY <1>1 DEF JobList
<1>4. \A i \in DOMAIN Tail(s) : i \in Int /\ i + 1 \in DOMAIN s /\ i + 1 # 1 /\ Tail(s)[i] = s[i + 1]
  BY <1>1, <1>3
<1>5. Distinct(Tail(s))
  <2> SUFFICES ASSUME NEW i \in DOMAIN Tail(s), NEW k \in DOMAIN Tail(s),
                      Tail(s)[i].id = Tail(s)[k].id
               PROVE  i = k
    BY DEF Distinct
  <2>1. i + 1 = k + 1
    BY Zenon, <1>4 DEF Distinct
  <2> QED BY <1>4, <2>1
<1>6. \A i \in DOMAIN Tail(s) : Tail(s)[i].id # Head(s).id
  BY Zenon, <1>2, <1>4 DEF Distinct
<1>7. Of(Tail(s), Head(s).id) = {}
  <2>1. \A e \in Of(Tail(s), Head(s).id) : e.id = Head(s).id /\ \E i \in DOMAIN Tail(s) : Tail(s)[i] = e
    BY Zenon DEF Of
  <2> QED BY Zenon, <1>6, <2>1
<1>8. \A j : Of(Tail(s), j) \subseteq Of(s, j)
  BY Zenon, <1>4 DEF Of
<1>9. Head(s).id \in Job /\ Head(s) \in Of(s, Head(s).id)
  BY <1>2, OfList, Entries
<1> QED BY <1>1, <1>2, <1>5, <1>7, <1>8, <1>9

\* What a change makes of a list: its own job as it asks, the others as they were.
Makes(new, jobs, op, k, now) ==
    /\ new \in JobList /\ Distinct(new)
    /\ \A j \in Job : j # k => Of(new, j) = Of(jobs, j)
    /\ Of(new, k) # {} <=> op # "remove"
    /\ \A e \in Of(new, k) :
         /\ op = "add" => e.enabled = TRUE
         /\ op # "add" => \E o \in Of(jobs, k) :
              /\ op = "mark" => e.last = now /\ e.enabled = o.enabled
              /\ op # "mark" => e.last = o.last /\ e.enabled = (op = "resume")

LEMMA Change ==
    ASSUME NEW jobs \in JobList, Distinct(jobs), NEW k \in Job, NEW now \in Int,
           NEW op \in Ops, op = "add" <=> ~Cron!Has(jobs, k)
    PROVE  Makes(Cron!Changed(op, k, jobs, now), jobs, op, k, now)
<1> DEFINE new == Cron!Changed(op, k, jobs, now)
<1>1. Follows(new, jobs, op, k, now)
  BY Zenon, ChangeFollows
<1> HIDE DEF new
<1>2. new \in JobList /\ Distinct(new)
  BY <1>1 DEF Follows
<1>3. Of(new, k) # {} <=> op # "remove"
  BY <1>1, <1>2, OfList DEF Follows
<1>4. ASSUME NEW j \in Job, j # k PROVE Of(new, j) = Of(jobs, j)
  <2>1. Of(new, j) \subseteq Of(jobs, j)
    <3> SUFFICES ASSUME NEW e \in Of(new, j) PROVE e \in Of(jobs, j)
      OBVIOUS
    <3>1. PICK i \in DOMAIN new : new[i] = e /\ e.id = j
      BY <1>2, OfList
    <3>2. PICK l \in DOMAIN jobs : new[i] = jobs[l]
      BY <1>1, <1>4, <3>1 DEF Follows
    <3> QED BY <3>1, <3>2, OfList
  <2>2. Of(jobs, j) # {} => Of(new, j) # {}
    BY <1>1, <1>2, <1>4, OfList DEF Follows
  <2>3. \A e, f \in Of(jobs, j) : e = f
    BY OfOne
  <2> QED BY Zenon, <2>1, <2>2, <2>3
<1>5. ASSUME NEW e \in Of(new, k)
      PROVE  /\ op = "add" => e.enabled = TRUE
             /\ op # "add" => \E o \in Of(jobs, k) :
                  /\ op = "mark" => e.last = now /\ e.enabled = o.enabled
                  /\ op # "mark" => e.last = o.last /\ e.enabled = (op = "resume")
  <2>1. PICK i \in DOMAIN new : new[i] = e /\ e.id = k
    BY <1>2, OfList
  <2>2. CASE op = "add"
    BY <1>1, <2>1, <2>2 DEF Follows, Cron!NewJob
  <2>3. CASE op # "add"
    <3>1. PICK l \in DOMAIN jobs :
            /\ jobs[l].id = k
            /\ op = "mark" => new[i].last = now /\ new[i].enabled = jobs[l].enabled
            /\ op # "mark" => new[i].last = jobs[l].last /\ new[i].enabled = (op = "resume")
      BY <1>1, <2>1, <2>3 DEF Follows
    <3>2. jobs[l] \in Of(jobs, k)
      BY <3>1, OfList
    <3> QED BY <2>1, <2>3, <3>1, <3>2
  <2> QED BY <2>2, <2>3
<1>6. Makes(new, jobs, op, k, now)
  BY <1>2, <1>3, <1>4, <1>5 DEF Makes
<1> QED BY <1>6 DEF new

\* A list with one more at its end.
LEMMA Appended ==
    ASSUME NEW s \in Seq(Int), NEW x \in Int
    PROVE  \E n \in Nat \ {0} :
             /\ DOMAIN Append(s, x) = DOMAIN s \cup {n} /\ Append(s, x)[n] = x
             /\ \A i \in DOMAIN s :
                  i \in Nat /\ i < n /\ Append(s, x)[i] = s[i] /\ s[i] \in Int
<1>1. /\ Len(s) \in Nat /\ DOMAIN s = 1 .. Len(s) /\ DOMAIN Append(s, x) = 1 .. Len(s) + 1
      /\ Append(s, x)[Len(s) + 1] = x
      /\ \A i \in 1 .. Len(s) : Append(s, x)[i] = s[i] /\ s[i] \in Int
  OBVIOUS
<1>2. DOMAIN Append(s, x) = DOMAIN s \cup {Len(s) + 1}
  BY <1>1
<1>3. \A i \in DOMAIN s : i \in Nat /\ i < Len(s) + 1
  BY <1>1
<1>4. Len(s) + 1 \in Nat \ {0}
  BY <1>1
<1> QED BY <1>1, <1>2, <1>3, <1>4

\* A job that is due, of what the tick knows of its runs, is due by its schedule.
LEMMA DueOnSchedule ==
    ASSUME NEW job \in JobEntry, NEW now \in Nat, Cron!Due(job, now),
           NEW t \in Int, 0 <= t, t <= job.last
    PROVE  Apart(t, now, job.id)
<1>1. /\ Schedule[job.id].type \in {"once", "interval", "cron"} /\ Schedule[job.id].value \in Nat
      /\ job.last \in Int /\ job.last >= 0 /\ job.last # Cron!Never
  BY ServersAssumption DEF Cron!CronAssumption, Cron!Never, JobEntry
<1>2. CASE Schedule[job.id].type = "once"
  BY <1>1, <1>2 DEF Cron!Due, Apart
<1>3. CASE Schedule[job.id].type = "interval"
  <2>1. now - job.last >= 2 * Schedule[job.id].value
    BY <1>1, <1>3 DEF Cron!Due
  <2>2. 2 * Schedule[job.id].value \in Int
    BY <1>1
  <2>3. now - t >= 2 * Schedule[job.id].value
    BY <1>1, <2>1, <2>2
  <2> QED BY <1>3, <2>3 DEF Apart
<1>4. CASE Schedule[job.id].type = "cron"
  <2>1. job.last < Cron!MinuteFloor(now)
    BY <1>1, <1>4 DEF Cron!Due
  <2>2. Cron!MinuteFloor(t) <= t /\ Cron!MinuteFloor(t) \in Int /\ Cron!MinuteFloor(now) \in Int
    BY DEF Cron!MinuteFloor
  <2>3. Cron!MinuteFloor(now) # Cron!MinuteFloor(t)
    BY <1>1, <2>1, <2>2
  <2> QED BY <1>4, <2>3 DEF Apart
<1> QED BY <1>1, <1>2, <1>3, <1>4

\* What a process is at, and nobody's change.
LEMMA AtClient ==
    ASSUME CronInv, NEW p \in Client
    PROVE  /\ edit[p] \in EditRow /\ edit[p].jobs \in JobList /\ Distinct(edit[p].jobs)
           /\ edit[p].at \in {"free", "changed", "written"} /\ edit[p].op \in Ops \cup {"none"}
           /\ loop[p] \in LoopRow /\ loop[p].todo \in JobList /\ Distinct(loop[p].todo)
           /\ loop[p].at \in {"off", "asleep", "going", "running", "marking"}
           /\ loop[p].now \in Int
           /\ loop[p] = [at |-> loop[p].at, now |-> loop[p].now, todo |-> loop[p].todo]
           /\ Acting(edit[p], loop[p], wanted)
<1>1. edit[p] \in EditRow /\ loop[p] \in LoopRow
  BY DEF CronInv, CronShapes
<1>2. Distinct(edit[p].jobs) /\ Distinct(loop[p].todo) /\ Acting(edit[p], loop[p], wanted)
  BY DEF CronInv, Lists, Changing
<1>3. /\ edit[p].jobs \in JobList
      /\ edit[p].at \in {"free", "changed", "written"} /\ edit[p].op \in Ops \cup {"none"}
  BY <1>1 DEF EditRow
<1>4. /\ loop[p].todo \in JobList /\ loop[p].now \in Int
      /\ loop[p].at \in {"off", "asleep", "going", "running", "marking"}
      /\ loop[p] = [at |-> loop[p].at, now |-> loop[p].now, todo |-> loop[p].todo]
  BY <1>1 DEF LoopRow
<1> QED BY <1>1, <1>2, <1>3, <1>4

LEMMA FreeRow ==
    /\ Cron!Free \in EditRow /\ Cron!Free.at = "free" /\ Cron!Free.op = "none"
    /\ Cron!Free.by = "none" /\ Cron!Free.jobs = <<>>
  BY OfNone DEF Cron!Free, EditRow

\* The pieces of the invariant that a job's exemption does not touch.
LEMMA Parts ==
    ASSUME CronInv
    PROVE  /\ CronShapes /\ Changing /\ Lists /\ Times
           /\ file \in JobList /\ Distinct(file) /\ tmp.jobs \in JobList /\ Distinct(tmp.jobs)
           /\ clock \in Nat /\ DOMAIN edit = Client /\ DOMAIN loop = Client /\ DOMAIN wanted = Job
  BY DEF CronInv, CronShapes, Lists

(* A change begins with what it makes of the list that was read: the file's, or, *)
(* of an add that could not read it, none.                                       *)
LEMMA TakeKeeps ==
    ASSUME CronInv, NEW p \in Client, NEW by \in {"tool", "loop"}, NEW op \in Ops, NEW k \in Job,
           NEW now \in Int, NEW jobs, Cron!Take(p, by, op, k, now, jobs),
           jobs = file \/ (jobs = <<>> /\ op = "add" /\ Cron!Listed(file) \subseteq cut'.lines),
           op = "add" => wanted[k] = "unborn" /\ \A q \in Client : edit[q].job # k,
           op \in {"remove", "pause", "resume"} => wanted[k] # "unborn",
           op = "mark" <=> by = "loop",
           op = "mark" => /\ loop[p].at = "running" /\ k = Head(loop[p].todo).id
                          /\ now = loop[p].now,
           loop' \in [Client -> LoopRow],
           \A q \in Client :
             /\ loop'[q].now = loop[q].now /\ loop'[q].todo = loop[q].todo
             /\ Busy(loop'[q]) <=> Busy(loop[q])
             /\ Awake(loop'[q]) <=> Awake(loop[q])
             /\ loop'[q].at = "marking" <=> (q = p /\ op = "mark") \/ loop[q].at = "marking",
           UNCHANGED <<file, tmp, clock, fired, wanted>>,
           cut' \in CutRow, cut'.marks = cut.marks, cut.lines \subseteq cut'.lines,
           Cron!Overlap(p, k) \subseteq cut'.lines
    PROVE  CronInv'
<1> DEFINE new == Cron!Changed(op, k, jobs, now)
           row == [by |-> by, op |-> op, job |-> k, jobs |-> new, at |-> "changed"]
<1>1. /\ edit[p] = Cron!Free /\ edit' = [edit EXCEPT ![p] = row]
      /\ op = "add" \/ Cron!Has(jobs, k)
  BY DEF Cron!Take
<1>2. jobs \in JobList /\ Distinct(jobs)
  BY Parts, OfNone
<1>3. op = "add" => ~Cron!Has(jobs, k)
  <2> SUFFICES ASSUME op = "add" PROVE ~Cron!Has(jobs, k)
    OBVIOUS
  <2>1. Of(file, k) = {}
    BY Parts DEF Lists, Nowhere, Adds
  <2>2. Of(jobs, k) = {}
    BY <2>1, OfNone
  <2> QED BY <1>2, <2>2, OfList
<1>4. Makes(new, jobs, op, k, now)
  BY Zenon, <1>1, <1>2, <1>3, Change
<1> HIDE DEF new
<1>5. /\ row \in EditRow /\ row # Cron!Free /\ row.at = "changed" /\ row.op = op /\ row.by = by
      /\ row.job = k /\ row.jobs = new /\ op # "none"
  BY <1>4 DEF EditRow, Cron!Free, Ops, Makes
<1> HIDE DEF row
<1>6. /\ edit' \in [Client -> EditRow] /\ edit'[p] = row
      /\ \A q \in Client : q # p => edit'[q] = edit[q]
  BY <1>1, <1>5, Parts DEF CronShapes
<1>7. CronShapes'
  BY <1>6, Parts DEF CronShapes
<1>8. Changing'
  <2> SUFFICES ASSUME NEW q \in Client PROVE Acting(edit'[q], loop'[q], wanted')
    BY DEF Changing
  <2>1. Acting(edit[q], loop[q], wanted)
    BY AtClient
  <2>2. CASE q # p
    <3>1. edit'[q] = edit[q] /\ (loop'[q].at = "marking" <=> loop[q].at = "marking")
      BY <1>6, <2>2
    <3> QED BY <2>1, <3>1 DEF Acting
  <2>3. CASE q = p
    <3>1. loop[p].at # "marking"
      BY <1>1, <2>1, <2>3, FreeRow DEF Acting
    <3> QED BY <1>5, <1>6, <2>1, <2>3, <3>1 DEF Acting
  <2> QED BY <2>2, <2>3
<1>9. Lists'
  <2>1. Distinct(file') /\ Distinct(tmp'.jobs) /\ \A q \in Client : Distinct(loop'[q].todo)
    BY Parts, AtClient
  <2>2. \A q \in Client : Distinct(edit'[q].jobs)
    BY <1>4, <1>5, <1>6, AtClient DEF Makes
  <2>3. ASSUME NEW j \in Job, NEW q \in Client, NEW r \in Client, Adds(edit'[q], j), Adds(edit'[r], j)
        PROVE  q = r
    BY <1>5, <1>6, <2>3, Parts DEF Lists, Adds
  <2>4. ASSUME NEW j \in Job, wanted'[j] = "unborn", \A q \in Client : ~Adds(edit'[q], j)
        PROVE  Nowhere(j)'
    <3>1. \A q \in Client : ~Adds(edit[q], j)
      BY <1>1, <1>6, <2>4, FreeRow DEF Adds
    <3>2. Nowhere(j)
      BY <2>4, <3>1, Parts DEF Lists
    <3>3. Of(new, j) = {}
      <4>1. CASE j # k
        BY <1>4, <3>2, <4>1, OfNone DEF Nowhere, Makes
      <4>2. CASE j = k
        <5>1. op # "add"
          BY <1>5, <1>6, <2>4, <4>2 DEF Adds
        <5>2. jobs = file /\ Cron!Has(file, k)
          BY <1>1, <5>1
        <5> QED BY <3>2, <4>2, <5>2, OfList, Parts DEF Nowhere
      <4> QED BY <4>1, <4>2
    <3> QED BY <1>5, <1>6, <3>2, <3>3 DEF Nowhere
  <2> QED BY <2>1, <2>2, <2>3, <2>4 DEF Lists
<1>10. Times'
  BY Parts DEF Times
<1>11. ASSUME NEW j \in Job \ cut'.lines PROVE Stands(j) /\ Stands(j)'
  <2>1. Stands(j)
    BY <1>11 DEF CronInv
  <2>2. Meets(Of(file', j), wanted'[j])
    BY <2>1 DEF Stands
  <2>3. /\ k = j => \A q \in Client : q # p => edit[q].at = "free"
        /\ \A q \in Client : q # p /\ edit[q].at # "free" => edit[q].job # j
    <3>1. \A q \in Client : q # p /\ edit[q].at # "free" => q \in Cron!Others(p)
      BY AtClient DEF Cron!Others, Acting
    <3> QED BY <1>11, <3>1 DEF Cron!Overlap
  <2>4. ASSUME NEW q \in Client
        PROVE  /\ edit'[q].at # "free" /\ edit'[q].job # j => Of(edit'[q].jobs, j) = Of(file', j)
               /\ edit'[q].at # "free" /\ edit'[q].job = j =>
                    /\ \A r \in Client : r # q => edit'[r].at = "free"
                    /\ Meets(Of(edit'[q].jobs, j), Cron!Asked(edit'[q].op, wanted'[j]))
                    /\ edit'[q].op # "add" => wanted'[j] \in {"on", "off"}
               /\ edit'[q].at = "written" /\ tmp'.there => Of(tmp'.jobs, j) = Of(edit'[q].jobs, j)
    <3>1. CASE q # p
      BY <1>6, <2>1, <2>3, <3>1 DEF Stands
    <3>2. CASE q = p /\ k # j
      <4>1. Of(new, j) = Of(file, j)
        <5>1. Of(new, j) = Of(jobs, j)
          BY <1>4, <3>2 DEF Makes
        <5>2. CASE jobs = file
          BY <5>1, <5>2
        <5>3. CASE jobs # file
          <6>1. Of(new, j) = {} /\ j \notin Cron!Listed(file)
            BY <1>11, <5>1, <5>3, OfNone
          <6>2. file \in JobList /\ (j \in Cron!Listed(file) <=> Of(file, j) # {})
            BY Parts, OfList
          <6> QED BY <6>1, <6>2
        <5> QED BY <5>2, <5>3
      <4> QED BY <1>5, <1>6, <3>2, <4>1
    <3>3. CASE q = p /\ k = j
      <4>1. \A r \in Client : r # q => edit'[r].at = "free"
        BY <1>6, <2>3, <3>3
      <4>2. op # "add" => jobs = file /\ Of(file, j) # {} /\ wanted[j] \in {"on", "off"}
        BY <1>1, <2>1, <3>3, OfList, Parts DEF Stands, Meets
      <4>3. Meets(Of(new, j), Cron!Asked(op, wanted[j]))
        <5>1. CASE op = "add"
          BY <1>4, <3>3, <5>1 DEF Meets, Cron!Asked, Makes
        <5>2. CASE op = "remove"
          BY <1>4, <3>3, <5>2 DEF Meets, Cron!Asked, Makes
        <5>3. CASE op = "pause"
          BY <1>4, <3>3, <5>3 DEF Meets, Cron!Asked, Makes
        <5>4. CASE op = "resume"
          BY <1>4, <3>3, <5>4 DEF Meets, Cron!Asked, Makes
        <5>5. CASE op = "mark"
          BY <1>4, <2>1, <3>3, <4>2, <5>5 DEF Meets, Cron!Asked, Stands, Makes
        <5> QED BY <5>1, <5>2, <5>3, <5>4, <5>5 DEF Ops
      <4> QED BY <1>5, <1>6, <3>3, <4>1, <4>2, <4>3
    <3> QED BY <3>1, <3>2, <3>3
  <2> QED BY <2>1, <2>2, <2>4 DEF Stands
<1>12. ASSUME NEW j \in Job \ (cut'.marks \cup cut'.lines) PROVE Marks(j)' /\ Spaced(fired'[j], j)
  <2>1. Marks(j) /\ Spaced(fired[j], j) /\ Stands(j)
    BY <1>11, <1>12 DEF CronInv
  <2>2. Running(j)' <=> Running(j)
    BY DEF Running
  <2>3. \A q \in Client : Ahead(loop'[q], j) = Ahead(loop[q], j)
    BY DEF Ahead
  <2>4. ASSUME NEW q \in Client, edit'[q].at # "free", edit'[q].job = j, NEW e \in Of(edit'[q].jobs, j)
        PROVE  (edit'[q].op # "mark" /\ Running(j)) \/ Knows(fired[j], e)
    <3>1. CASE q # p
      BY <1>6, <2>1, <2>4, <3>1 DEF Marks
    <3>2. CASE q = p
      <4>1. k = j /\ e \in Of(new, k)
        BY <1>5, <1>6, <2>4, <3>2
      <4>2. CASE op = "add"
        <5>1. fired[j] = <<>>
          BY <2>1, <4>1, <4>2 DEF Marks
        <5> QED BY <5>1 DEF Knows
      <4>3. CASE op = "mark"
        <5>1. e.last = loop[p].now /\ Busy(loop[p])
          BY <1>4, <4>1, <4>3 DEF Busy, Makes
        <5>2. Of(loop[p].todo, j) # {} /\ Awake(loop[p])
          BY <4>1, <4>3, <5>1, AtClient, Rest DEF Acting, Awake
        <5>3. \A i \in DOMAIN fired[j] : fired[j][i] <= loop[p].now
          BY <2>1, <5>2 DEF Marks
        <5> QED BY <5>1, <5>3 DEF Knows
      <4>4. CASE op \notin {"add", "mark"}
        <5>1. jobs = file
          BY <4>4
        <5>2. PICK o \in Of(file, j) : e.last = o.last
          BY <1>4, <4>1, <4>4, <5>1 DEF Makes
        <5>3. Running(j) \/ Knows(fired[j], o)
          BY <2>1 DEF Marks
        <5> QED BY <1>5, <1>6, <3>2, <4>4, <5>2, <5>3 DEF Knows
      <4> QED BY <4>2, <4>3, <4>4
    <3> QED BY <3>1, <3>2
  <2>5. ASSUME NEW q \in Client, Awake(loop'[q]), Of(loop'[q].todo, j) # {}
        PROVE  /\ wanted'[j] # "unborn"
               /\ \A r \in Client : Awake(loop'[r]) /\ Of(loop'[r].todo, j) # {} => q = r
               /\ \A i \in DOMAIN fired'[j] : fired'[j][i] <= loop'[q].now
               /\ \A e \in Ahead(loop'[q], j) : Knows(fired'[j], e)
    BY <2>1, <2>3, <2>5 DEF Marks
  <2>6. (wanted'[j] = "unborn" => fired'[j] = <<>>)
        /\ \A e \in Of(file', j) : Running(j) \/ Knows(fired'[j], e)
    BY <2>1 DEF Marks
  <2> QED BY <2>1, <2>2, <2>4, <2>5, <2>6 DEF Marks
<1> QED BY <1>7, <1>8, <1>9, <1>10, <1>11, <1>12 DEF CronInv

\* The temporary file has what the change made.
LEMMA WriteTmpKeeps == ASSUME CronInv, NEW p \in Client, Cron!WriteTmp(p) PROVE CronInv'
<1> DEFINE row == [edit[p] EXCEPT !.at = "written"]
<1>1. /\ edit[p].at = "changed" /\ tmp' = [there |-> TRUE, jobs |-> edit[p].jobs]
      /\ edit' = [edit EXCEPT ![p] = row]
      /\ UNCHANGED <<file, loop, clock, fired, wanted, cut>>
  BY DEF Cron!WriteTmp
<1>2. /\ row \in EditRow /\ row.at = "written" /\ row.by = edit[p].by /\ row.op = edit[p].op
      /\ row.job = edit[p].job /\ row.jobs = edit[p].jobs /\ row # Cron!Free
  BY AtClient, FreeRow DEF EditRow
<1> HIDE DEF row
<1>3. /\ edit' \in [Client -> EditRow] /\ edit'[p] = row
      /\ \A q \in Client : q # p => edit'[q] = edit[q]
  BY <1>1, <1>2, Parts DEF CronShapes
<1>4. tmp' \in [there : BOOLEAN, jobs : JobList] /\ tmp'.jobs = edit[p].jobs
  BY <1>1, AtClient
<1>5. CronShapes'
  BY <1>1, <1>3, <1>4, Parts DEF CronShapes
<1>6. Changing'
  <2> SUFFICES ASSUME NEW q \in Client PROVE Acting(edit'[q], loop[q], wanted)
    BY <1>1 DEF Changing
  <2>1. Acting(edit[q], loop[q], wanted)
    BY AtClient
  <2>2. CASE q # p
    BY <1>3, <2>1, <2>2
  <2>3. CASE q = p
    BY <1>1, <1>2, <1>3, <2>1, <2>3 DEF Acting
  <2> QED BY <2>2, <2>3
<1>7. Lists'
  <2>1. \A q \in Client : edit'[q].jobs = edit[q].jobs /\ \A j \in Job : Adds(edit'[q], j) <=> Adds(edit[q], j)
    BY <1>2, <1>3 DEF Adds
  <2>2. Distinct(tmp'.jobs) /\ \A q \in Client : Distinct(edit'[q].jobs)
    BY <1>4, <2>1, AtClient
  <2>3. \A j \in Job : \A q, r \in Client : Adds(edit'[q], j) /\ Adds(edit'[r], j) => q = r
    BY <2>1, Parts DEF Lists
  <2>4. ASSUME NEW j \in Job, wanted[j] = "unborn", \A q \in Client : ~Adds(edit'[q], j)
        PROVE  Nowhere(j)'
    <3>1. Nowhere(j)
      BY <2>1, <2>4, Parts DEF Lists
    <3> QED BY <1>1, <1>4, <2>1, <3>1 DEF Nowhere
  <2> QED BY <1>1, <2>2, <2>3, <2>4, Parts DEF Lists
<1>8. Times'
  BY <1>1, Parts DEF Times
<1>9. ASSUME NEW j \in Job \ cut.lines PROVE Stands(j)'
  <2>1. Stands(j)
    BY <1>9 DEF CronInv
  <2>2. ASSUME NEW q \in Client, q # p, edit[q].at # "free"
        PROVE  Of(tmp'.jobs, j) = Of(edit[q].jobs, j)
    <3>1. edit[p].job # j /\ edit[q].job # j
      BY <1>1, <2>1, <2>2 DEF Stands
    <3> QED BY <1>1, <1>4, <2>1, <2>2, <3>1 DEF Stands
  <2>3. ASSUME NEW q \in Client
        PROVE  /\ edit'[q].at # "free" /\ edit'[q].job # j => Of(edit'[q].jobs, j) = Of(file', j)
               /\ edit'[q].at # "free" /\ edit'[q].job = j =>
                    /\ \A r \in Client : r # q => edit'[r].at = "free"
                    /\ Meets(Of(edit'[q].jobs, j), Cron!Asked(edit'[q].op, wanted'[j]))
                    /\ edit'[q].op # "add" => wanted'[j] \in {"on", "off"}
               /\ edit'[q].at = "written" /\ tmp'.there => Of(tmp'.jobs, j) = Of(edit'[q].jobs, j)
    <3>1. CASE q # p
      BY <1>1, <1>3, <2>1, <2>2, <3>1 DEF Stands
    <3>2. CASE q = p
      BY <1>1, <1>2, <1>3, <1>4, <2>1, <3>2 DEF Stands
    <3> QED BY <3>1, <3>2
  <2> QED BY <1>1, <2>1, <2>3 DEF Stands
<1>10. ASSUME NEW j \in Job \ (cut.marks \cup cut.lines) PROVE Marks(j)' /\ Spaced(fired'[j], j)
  <2>1. Marks(j) /\ Spaced(fired[j], j)
    BY <1>10 DEF CronInv
  <2>2. \A q \in Client : /\ edit'[q].at # "free" => edit[q].at # "free"
                          /\ edit'[q].job = edit[q].job /\ edit'[q].op = edit[q].op
                          /\ edit'[q].jobs = edit[q].jobs
    BY <1>1, <1>2, <1>3
  <2>3. Running(j)' <=> Running(j)
    BY <1>1 DEF Running
  <2> QED BY <1>1, <2>1, <2>2, <2>3 DEF Marks
<1> QED BY <1>1, <1>5, <1>6, <1>7, <1>8, <1>9, <1>10 DEF CronInv

\* A loop goes on to its next job.
LEMMA NextRow ==
    ASSUME CronInv, NEW p \in Client, loop[p].todo # <<>>, NEW row, row = Cron!NextJob(loop[p])
    PROVE  /\ row \in LoopRow /\ row.at = "going" /\ row.now = loop[p].now
           /\ row.todo = Tail(loop[p].todo) /\ Distinct(row.todo)
           /\ \A j : Of(row.todo, j) \subseteq Of(loop[p].todo, j)
           /\ Of(loop[p].todo, Head(loop[p].todo).id) # {}
           /\ Head(loop[p].todo).id \in Job
<1>1. loop[p].todo \in JobList /\ Distinct(loop[p].todo) /\ loop[p].now \in Int
  BY AtClient
<1>2. /\ Tail(loop[p].todo) \in JobList /\ Distinct(Tail(loop[p].todo))
      /\ \A j : Of(Tail(loop[p].todo), j) \subseteq Of(loop[p].todo, j)
      /\ Of(loop[p].todo, Head(loop[p].todo).id) # {}
      /\ Head(loop[p].todo).id \in Job
  BY <1>1, Rest
<1>3. row = [at |-> "going", now |-> loop[p].now, todo |-> Tail(loop[p].todo)]
  BY DEF Cron!NextJob
<1>4. row \in LoopRow /\ row.at = "going" /\ row.now = loop[p].now /\ row.todo = Tail(loop[p].todo)
  BY <1>1, <1>2, <1>3 DEF LoopRow
<1> QED BY <1>2, <1>4

\* The list is replaced by what has the temporary name.
LEMMA ReplaceKeeps == ASSUME CronInv, NEW p \in Client, Cron!Replace(p) PROVE CronInv'
<1> DEFINE e == edit[p]
           k == edit[p].job
<1>1. /\ e.at = "written" /\ tmp.there /\ edit' = [edit EXCEPT ![p] = Cron!Free]
      /\ tmp' = Cron!NoTmp /\ wanted' = [wanted EXCEPT ![k] = Cron!Asked(e.op, wanted[k])]
      /\ UNCHANGED <<clock, fired>>
  BY DEF Cron!Replace
<1>2. /\ Acting(e, loop[p], wanted) /\ e # Cron!Free /\ k \in Job /\ e.op \in Ops
      /\ e.op = "mark" => loop[p].at = "marking" /\ loop[p].todo # <<>> /\ k = Head(loop[p].todo).id
      /\ e.by = "loop" <=> e.op = "mark"
  BY <1>1, AtClient, FreeRow DEF Acting, Busy
<1>3. /\ edit' \in [Client -> EditRow] /\ edit'[p] = Cron!Free
      /\ \A q \in Client : q # p => edit'[q] = edit[q]
  BY <1>1, FreeRow, Parts DEF CronShapes
<1>4. /\ wanted' \in [Job -> {"unborn", "on", "off", "gone"}]
      /\ wanted'[k] = Cron!Asked(e.op, wanted[k]) /\ \A j \in Job : j # k => wanted'[j] = wanted[j]
      /\ \A j \in Job : wanted'[j] = "unborn" <=> wanted[j] = "unborn" /\ (j = k => e.op = "mark")
  <2>1. wanted \in [Job -> {"unborn", "on", "off", "gone"}]
    BY Parts DEF CronShapes
  <2>2. /\ Cron!Asked(e.op, wanted[k]) \in {"unborn", "on", "off", "gone"}
        /\ Cron!Asked(e.op, wanted[k]) = "unborn" <=> wanted[k] = "unborn" /\ e.op = "mark"
    BY <1>2, <2>1 DEF Cron!Asked, Ops
  <2>3. wanted'[k] = Cron!Asked(e.op, wanted[k]) /\ \A j \in Job : j # k => wanted'[j] = wanted[j]
    BY <1>1, <1>2, <2>1
  <2> QED BY <1>1, <1>2, <2>1, <2>2, <2>3
<1>5. \/ file' = tmp.jobs /\ cut' = cut
      \/ /\ \E q \in Client \ {p} : edit[q].at = "changed"
         /\ file' = <<>> /\ cut' = [cut EXCEPT !.lines = cut.lines \cup Cron!Listed(file)]
  BY DEF Cron!Replace
<1>6. /\ cut' \in CutRow /\ cut'.marks = cut.marks /\ cut.lines \subseteq cut'.lines
      /\ file' # tmp.jobs => file' = <<>> /\ Cron!Listed(file) \subseteq cut'.lines
                             /\ \E q \in Client \ {p} : edit[q].at = "changed"
  <2>1. cut \in CutRow
    BY Parts DEF CronShapes
  <2>2. Cron!Listed(file) \in SUBSET Job
    BY Entries, Parts DEF Cron!Listed
  <2>3. CASE file' = tmp.jobs /\ cut' = cut
    BY <2>1, <2>3
  <2>4. CASE /\ \E q \in Client \ {p} : edit[q].at = "changed"
             /\ file' = <<>> /\ cut' = [cut EXCEPT !.lines = cut.lines \cup Cron!Listed(file)]
    <3>1. cut' \in CutRow /\ cut'.marks = cut.marks /\ cut'.lines = cut.lines \cup Cron!Listed(file)
      BY <2>1, <2>2, <2>4 DEF CutRow
    <3> QED BY <2>4, <3>1
  <2> QED BY <1>5, <2>3, <2>4
<1>7. /\ e.op # "mark" => loop' = loop
      /\ e.op = "mark" => loop' = [loop EXCEPT ![p] = Cron!NextJob(loop[p])]
  BY <1>2 DEF Cron!Replace
<1>8. /\ loop' \in [Client -> LoopRow] /\ \A q \in Client : q # p => loop'[q] = loop[q]
      /\ loop'[p].at # "marking" /\ (Busy(loop'[p]) => loop'[p].todo # <<>>)
      /\ Distinct(loop'[p].todo) /\ loop'[p].now = loop[p].now
      /\ Awake(loop'[p]) <=> Awake(loop[p])
      /\ \A j \in Job : Of(loop'[p].todo, j) \subseteq Of(loop[p].todo, j)
      /\ \A j \in Job : Ahead(loop'[p], j) = Ahead(loop[p], j)
      /\ \A j \in Job : (j = k /\ e.op = "mark") \/ (Running(j) => Running(j)')
  <2>1. CASE e.op # "mark"
    <3>1. loop' = loop
      BY <1>7, <2>1
    <3>2. loop[p].at # "marking" /\ (Busy(loop[p]) => loop[p].todo # <<>>)
      BY <1>2, <2>1 DEF Acting
    <3>3. \A j \in Job : Running(j) => Running(j)'
      BY <3>1 DEF Running
    <3> QED BY <3>1, <3>2, <3>3, AtClient, Parts DEF CronShapes
  <2>2. CASE e.op = "mark"
    <3> DEFINE row == Cron!NextJob(loop[p])
    <3>1. /\ row \in LoopRow /\ row.at = "going" /\ row.now = loop[p].now
          /\ row.todo = Tail(loop[p].todo) /\ Distinct(row.todo)
          /\ \A j : Of(row.todo, j) \subseteq Of(loop[p].todo, j)
      BY <1>2, <2>2, NextRow
    <3>2. loop' = [loop EXCEPT ![p] = row]
      BY <1>7, <2>2
    <3> HIDE DEF row
    <3>3. /\ loop' \in [Client -> LoopRow] /\ loop'[p] = row
          /\ \A q \in Client : q # p => loop'[q] = loop[q]
      BY <3>1, <3>2, Parts DEF CronShapes
    <3>4. ~Busy(row) /\ Awake(row) /\ Busy(loop[p]) /\ Awake(loop[p])
      BY <1>2, <2>2, <3>1 DEF Busy, Awake
    <3>5. \A j \in Job : Ahead(row, j) = Ahead(loop[p], j)
      BY <3>1, <3>4 DEF Ahead
    <3>6. \A j \in Job : j # k /\ Running(j) => Running(j)'
      BY <1>2, <2>2, <3>3 DEF Running
    <3> QED BY <2>2, <3>1, <3>3, <3>4, <3>5, <3>6
  <2> QED BY <2>1, <2>2
<1>9. CronShapes'
  <2>1. file' \in JobList
    BY <1>6, Parts, OfNone
  <2>2. tmp' \in [there : BOOLEAN, jobs : JobList]
    BY <1>1, OfNone DEF Cron!NoTmp
  <2> QED BY <1>1, <1>3, <1>4, <1>6, <1>8, <2>1, <2>2, Parts DEF CronShapes
<1>10. Changing'
  <2> SUFFICES ASSUME NEW q \in Client PROVE Acting(edit'[q], loop'[q], wanted')
    BY DEF Changing
  <2>1. CASE q = p
    BY <1>3, <1>8, <2>1, FreeRow DEF Acting
  <2>2. CASE q # p
    <3>1. Acting(edit[q], loop[q], wanted) /\ edit'[q] = edit[q] /\ loop'[q] = loop[q]
      BY <1>3, <1>8, <2>2, AtClient
    <3>2. edit[q].op # "none" => edit[q].job \in Job
      BY <3>1, FreeRow DEF Acting
    <3>3. edit[q].op = "add" => wanted'[edit[q].job] = "unborn"
      <4> SUFFICES ASSUME edit[q].op = "add" PROVE wanted'[edit[q].job] = "unborn"
        OBVIOUS
      <4>1. wanted[edit[q].job] = "unborn" /\ edit[q].job \in Job
        BY <3>1, <3>2 DEF Acting
      <4>2. edit[q].job = k => e.op # "add"
        BY <1>2, <2>2, Parts DEF Lists, Adds
      <4>3. edit[q].job = k => e.op = "mark"
        BY <1>2, <4>1, <4>2 DEF Acting, Ops
      <4> QED BY <1>4, <4>1, <4>3
    <3>4. edit[q].op \in {"remove", "pause", "resume"} => wanted'[edit[q].job] # "unborn"
      BY <1>4, <3>1, <3>2 DEF Acting
    <3> QED BY <3>1, <3>3, <3>4 DEF Acting
  <2> QED BY <2>1, <2>2
<1>11. Lists'
  <2>1. Distinct(file') /\ Distinct(tmp'.jobs)
    BY <1>1, <1>6, Parts, OfNone DEF Cron!NoTmp
  <2>2. \A q \in Client : Distinct(edit'[q].jobs) /\ Distinct(loop'[q].todo)
    BY <1>3, <1>8, AtClient, FreeRow, OfNone
  <2>3. \A j \in Job : \A q \in Client : Adds(edit'[q], j) <=> q # p /\ Adds(edit[q], j)
    BY <1>3, FreeRow DEF Adds
  <2>4. \A j \in Job : \A q, r \in Client : Adds(edit'[q], j) /\ Adds(edit'[r], j) => q = r
    BY <2>3, Parts DEF Lists
  <2>5. ASSUME NEW j \in Job, wanted'[j] = "unborn", \A q \in Client : ~Adds(edit'[q], j)
        PROVE  Nowhere(j)'
    <3>1. wanted[j] = "unborn" /\ \A q \in Client : ~Adds(edit[q], j)
      BY <1>4, <2>3, <2>5 DEF Adds
    <3>2. Nowhere(j)
      BY <3>1, Parts DEF Lists
    <3>3. Of(file', j) = {} /\ Of(tmp'.jobs, j) = {}
      BY <1>1, <1>6, <3>2, OfNone DEF Nowhere, Cron!NoTmp
    <3>4. \A q \in Client : Of(edit'[q].jobs, j) = {}
      BY <1>3, <3>2, FreeRow, OfNone DEF Nowhere
    <3> QED BY <3>3, <3>4 DEF Nowhere
  <2> QED BY <2>1, <2>2, <2>4, <2>5 DEF Lists
<1>12. Times'
  BY <1>1, <1>8, Parts DEF Times
<1>13. ASSUME NEW j \in Job \ cut'.lines
       PROVE  /\ Stands(j) /\ Stands(j)'
              /\ k # j => Of(file', j) = Of(file, j)
              /\ k = j => Of(file', j) = Of(e.jobs, j) /\ \A q \in Client : edit'[q].at = "free"
  <2>1. Stands(j)
    BY <1>6, <1>13 DEF CronInv
  <2>2. Of(tmp.jobs, j) = Of(e.jobs, j)
    BY <1>1, <2>1 DEF Stands
  <2>3. k = j => Of(file', j) = Of(e.jobs, j) /\ \A q \in Client : edit'[q].at = "free"
    <3> SUFFICES ASSUME k = j
                 PROVE  Of(file', j) = Of(e.jobs, j) /\ \A q \in Client : edit'[q].at = "free"
      OBVIOUS
    <3>1. \A q \in Client : q # p => edit[q].at = "free"
      BY <1>1, <2>1 DEF Stands
    <3>2. file' = tmp.jobs
      BY <1>6, <3>1
    <3> QED BY <1>3, <2>2, <3>1, <3>2, FreeRow
  <2>4. k # j => Of(file', j) = Of(file, j)
    <3> SUFFICES ASSUME k # j PROVE Of(file', j) = Of(file, j)
      OBVIOUS
    <3>1. Of(e.jobs, j) = Of(file, j)
      BY <1>1, <2>1 DEF Stands
    <3>2. CASE file' = tmp.jobs
      BY <2>2, <3>1, <3>2
    <3>3. CASE file' # tmp.jobs
      <4>1. file' = <<>> /\ j \notin Cron!Listed(file)
        BY <1>6, <1>13, <3>3
      <4>2. Of(file, j) = {}
        BY <4>1, OfList, Parts
      <4> QED BY <4>1, <4>2, OfNone
    <3> QED BY <3>2, <3>3
  <2>5. CASE k = j
    <3>1. Meets(Of(file', j), wanted'[j])
      BY <1>1, <1>4, <2>1, <2>3, <2>5 DEF Stands
    <3> QED BY <2>1, <2>3, <2>5, <3>1 DEF Stands
  <2>6. CASE k # j
    <3>1. wanted'[j] = wanted[j] /\ ~tmp'.there
      BY <1>1, <1>4, <2>6 DEF Cron!NoTmp
    <3>2. \A q \in Client : edit'[q].at # "free" => q # p /\ edit'[q] = edit[q]
      BY <1>3, FreeRow
    <3>3. \A q \in Client : edit[q].at = "free" => edit'[q].at = "free"
      BY <1>3, FreeRow
    <3>4. Stands(j)'
      BY <2>1, <2>4, <2>6, <3>1, <3>2, <3>3 DEF Stands
    <3> QED BY <2>1, <2>4, <2>6, <3>4
  <2> QED BY <2>5, <2>6
<1>14. ASSUME NEW j \in Job \ (cut'.marks \cup cut'.lines) PROVE Marks(j)' /\ Spaced(fired'[j], j)
  <2>1. Marks(j) /\ Spaced(fired[j], j) /\ Stands(j)
    BY <1>6, <1>13, <1>14 DEF CronInv
  <2>2. \A f \in Of(file', j) : Running(j)' \/ Knows(fired[j], f)
    <3> SUFFICES ASSUME NEW f \in Of(file', j), ~Running(j)' PROVE Knows(fired[j], f)
      OBVIOUS
    <3>1. CASE k # j
      <4>1. f \in Of(file, j) /\ ~Running(j)
        BY <1>8, <1>13, <1>14, <3>1
      <4> QED BY <2>1, <4>1 DEF Marks
    <3>2. CASE k = j
      <4>1. f \in Of(e.jobs, j)
        BY <1>13, <1>14, <3>2
      <4>2. e.op = "mark" \/ ~Running(j)
        BY <1>8
      <4> QED BY <1>1, <2>1, <3>2, <4>1, <4>2 DEF Marks
    <3> QED BY <3>1, <3>2
  <2>3. ASSUME NEW q \in Client, edit'[q].at # "free", edit'[q].job = j, NEW f \in Of(edit'[q].jobs, j)
        PROVE  (edit'[q].op # "mark" /\ Running(j)') \/ Knows(fired[j], f)
    <3>1. k # j /\ q # p /\ edit'[q] = edit[q]
      BY <1>3, <1>13, <1>14, <2>3, FreeRow
    <3>2. Running(j) => Running(j)'
      BY <1>8, <3>1
    <3>3. (edit[q].op # "mark" /\ Running(j)) \/ Knows(fired[j], f)
      BY <2>1, <2>3, <3>1 DEF Marks
    <3> QED BY <3>1, <3>2, <3>3
  <2>4. ASSUME NEW q \in Client, Awake(loop'[q]), Of(loop'[q].todo, j) # {}
        PROVE  /\ wanted'[j] # "unborn"
               /\ \A r \in Client : Awake(loop'[r]) /\ Of(loop'[r].todo, j) # {} => q = r
               /\ \A i \in DOMAIN fired[j] : fired[j][i] <= loop'[q].now
               /\ \A f \in Ahead(loop'[q], j) : Knows(fired[j], f)
    <3>1. \A r \in Client : Awake(loop'[r]) /\ Of(loop'[r].todo, j) # {} =>
            Awake(loop[r]) /\ Of(loop[r].todo, j) # {}
      BY <1>8
    <3>2. loop'[q].now = loop[q].now /\ Ahead(loop'[q], j) = Ahead(loop[q], j)
      BY <1>8
    <3> QED BY <1>4, <2>1, <2>4, <3>1, <3>2 DEF Marks
  <2>5. wanted'[j] = "unborn" => fired[j] = <<>>
    BY <1>4, <2>1 DEF Marks
  <2> QED BY <1>1, <2>1, <2>2, <2>3, <2>4, <2>5 DEF Marks
<1> QED BY <1>9, <1>10, <1>11, <1>12, <1>13, <1>14 DEF CronInv

(* A change that fails, or whose process is killed, leaves the list as it is, and *)
(* what a write cut short leaves; the tick it was part of ends.                   *)
LEMMA EndsKeep ==
    ASSUME CronInv, NEW p \in Client, edit' = [edit EXCEPT ![p] = Cron!Free],
           UNCHANGED <<file, clock, fired>>,
           wanted' = IF edit[p].op = "add" THEN [wanted EXCEPT ![edit[p].job] = "gone"] ELSE wanted,
           tmp' \in Cron!Leavings(p),
           \/ loop' = loop /\ loop[p].at # "marking"
           \/ \E t \in Int : loop' = [loop EXCEPT ![p] = Cron!Asleep(t)],
           cut' \in CutRow, cut.marks \subseteq cut'.marks,
           cut.lines \cup Cron!Spoiled(p, tmp') \subseteq cut'.lines,
           loop' # loop /\ Busy(loop[p]) => Head(loop[p].todo).id \in cut'.marks
    PROVE  CronInv'
<1> DEFINE e == edit[p]
           k == edit[p].job
<1>1. Acting(e, loop[p], wanted) /\ (e.op = "add" => k \in Job /\ e.at # "free" /\ wanted[k] = "unborn")
  BY AtClient, FreeRow DEF Acting
<1>2. /\ edit' \in [Client -> EditRow] /\ edit'[p] = Cron!Free
      /\ \A q \in Client : q # p => edit'[q] = edit[q]
  BY FreeRow, Parts DEF CronShapes
<1>3. /\ wanted' \in [Job -> {"unborn", "on", "off", "gone"}]
      /\ \A j \in Job : IF e.op = "add" /\ j = k THEN wanted'[j] = "gone" ELSE wanted'[j] = wanted[j]
  <2>1. wanted \in [Job -> {"unborn", "on", "off", "gone"}]
    BY Parts DEF CronShapes
  <2> QED BY <1>1, <2>1
<1>4. /\ tmp' = tmp \/ (tmp' = Cron!Torn /\ e.at = "changed")
      /\ tmp' \in [there : BOOLEAN, jobs : JobList] /\ Distinct(tmp'.jobs)
  <2>1. tmp \in [there : BOOLEAN, jobs : JobList]
    BY Parts DEF CronShapes
  <2>2. tmp' = tmp \/ (tmp' = Cron!Torn /\ e.at = "changed")
    BY DEF Cron!Leavings
  <2>3. /\ Cron!Torn \in [there : BOOLEAN, jobs : JobList] /\ Cron!Torn.jobs = <<>>
    BY OfNone DEF Cron!Torn
  <2> QED BY <2>1, <2>2, <2>3, Parts, OfNone
<1>5. /\ loop' \in [Client -> LoopRow] /\ \A q \in Client : q # p => loop'[q] = loop[q]
      /\ loop'[p].at # "marking" /\ Distinct(loop'[p].todo)
      /\ loop' = loop \/ ~Awake(loop'[p])
  <2>1. CASE loop' = loop /\ loop[p].at # "marking"
    BY <2>1, AtClient, Parts DEF CronShapes
  <2>2. ASSUME NEW t \in Int, loop' = [loop EXCEPT ![p] = Cron!Asleep(t)]
        PROVE  /\ loop' \in [Client -> LoopRow] /\ \A q \in Client : q # p => loop'[q] = loop[q]
               /\ loop'[p].at # "marking" /\ Distinct(loop'[p].todo) /\ ~Awake(loop'[p])
    <3>1. /\ Cron!Asleep(t) \in LoopRow /\ Cron!Asleep(t).at = "asleep"
          /\ Cron!Asleep(t).todo = <<>>
      BY OfNone DEF Cron!Asleep, LoopRow
    <3>2. /\ loop' \in [Client -> LoopRow] /\ \A q \in Client : q # p => loop'[q] = loop[q]
          /\ loop'[p] = Cron!Asleep(t)
      BY <2>2, <3>1, Parts DEF CronShapes
    <3> QED BY <3>1, <3>2, OfNone DEF Awake
  <2> QED BY <2>1, <2>2
<1>6. CronShapes'
  BY <1>2, <1>3, <1>4, <1>5, Parts DEF CronShapes
<1>7. Changing'
  <2> SUFFICES ASSUME NEW q \in Client PROVE Acting(edit'[q], loop'[q], wanted')
    BY DEF Changing
  <2>1. CASE q = p
    <3>1. Busy(loop'[p]) => loop'[p].todo # <<>>
      BY <1>1, <1>5 DEF Acting, Awake, Busy
    <3> QED BY <1>2, <1>5, <2>1, <3>1, FreeRow DEF Acting
  <2>2. CASE q # p
    <3>1. Acting(edit[q], loop[q], wanted) /\ edit'[q] = edit[q] /\ loop'[q] = loop[q]
      BY <1>2, <1>5, <2>2, AtClient
    <3>2. edit[q].op # "none" => edit[q].job \in Job
      BY <3>1, FreeRow DEF Acting
    <3>3. edit[q].op = "add" => ~(e.op = "add" /\ edit[q].job = k)
      BY <1>1, <2>2, Parts DEF Lists, Adds
    <3> QED BY <1>3, <3>1, <3>2, <3>3 DEF Acting, Ops
  <2> QED BY <2>1, <2>2
<1>8. Lists'
  <2>1. \A q \in Client : Distinct(edit'[q].jobs) /\ Distinct(loop'[q].todo)
    BY <1>2, <1>5, AtClient, FreeRow, OfNone
  <2>2. \A j \in Job : \A q \in Client : Adds(edit'[q], j) <=> q # p /\ Adds(edit[q], j)
    BY <1>2, FreeRow DEF Adds
  <2>3. \A j \in Job : \A q, r \in Client : Adds(edit'[q], j) /\ Adds(edit'[r], j) => q = r
    BY <2>2, Parts DEF Lists
  <2>4. ASSUME NEW j \in Job, wanted'[j] = "unborn", \A q \in Client : ~Adds(edit'[q], j)
        PROVE  Nowhere(j)'
    <3>1. wanted[j] = "unborn" /\ \A q \in Client : ~Adds(edit[q], j)
      BY <1>3, <2>2, <2>4 DEF Adds
    <3>2. Nowhere(j)
      BY <3>1, Parts DEF Lists
    <3>3. Of(tmp'.jobs, j) = {}
      BY <1>4, <3>2, OfNone DEF Nowhere, Cron!Torn
    <3>4. \A q \in Client : Of(edit'[q].jobs, j) = {}
      BY <1>2, <3>2, FreeRow, OfNone DEF Nowhere
    <3> QED BY <3>2, <3>3, <3>4 DEF Nowhere
  <2> QED BY <1>4, <2>1, <2>3, <2>4, Parts DEF Lists
<1>9. Times'
  <2>1. \A q \in Client : Awake(loop'[q]) => loop'[q] = loop[q]
    BY <1>5
  <2> QED BY <2>1, Parts DEF Times
<1>10. ASSUME NEW j \in Job \ cut'.lines PROVE Stands(j) /\ Stands(j)'
  <2>1. Stands(j)
    BY <1>10 DEF CronInv
  <2>2. Meets(Of(file', j), wanted'[j])
    <3>1. CASE e.op = "add" /\ j = k
      <4>1. Of(file, j) = {}
        BY <1>1, <2>1, <3>1 DEF Stands, Meets
      <4> QED BY <1>3, <3>1, <4>1 DEF Meets
    <3>2. CASE ~(e.op = "add" /\ j = k)
      BY <1>3, <2>1, <3>2 DEF Stands
    <3> QED BY <3>1, <3>2
  <2>3. ASSUME NEW q \in Client, edit'[q].at # "free"
        PROVE  /\ edit'[q].job # j => Of(edit'[q].jobs, j) = Of(file', j)
               /\ edit'[q].job = j =>
                    /\ \A r \in Client : r # q => edit'[r].at = "free"
                    /\ Meets(Of(edit'[q].jobs, j), Cron!Asked(edit'[q].op, wanted'[j]))
                    /\ edit'[q].op # "add" => wanted'[j] \in {"on", "off"}
               /\ edit'[q].at = "written" /\ tmp'.there => Of(tmp'.jobs, j) = Of(edit'[q].jobs, j)
    <3>1. q # p /\ edit'[q] = edit[q]
      BY <1>2, <2>3, FreeRow
    <3>2. edit[q].job # j => Of(edit[q].jobs, j) = Of(file, j)
      BY <2>1, <2>3, <3>1 DEF Stands
    <3>3. edit[q].job = j => e.at = "free"
      BY <2>1, <2>3, <3>1 DEF Stands
    <3>4. edit[q].job = j =>
            /\ \A r \in Client : r # q => edit'[r].at = "free"
            /\ Meets(Of(edit[q].jobs, j), Cron!Asked(edit[q].op, wanted'[j]))
            /\ edit[q].op # "add" => wanted'[j] \in {"on", "off"}
      <4> SUFFICES ASSUME edit[q].job = j
                   PROVE  /\ \A r \in Client : r # q => edit'[r].at = "free"
                          /\ Meets(Of(edit[q].jobs, j), Cron!Asked(edit[q].op, wanted'[j]))
                          /\ edit[q].op # "add" => wanted'[j] \in {"on", "off"}
        OBVIOUS
      <4>1. wanted'[j] = wanted[j]
        BY <1>1, <1>3, <3>3
      <4>2. \A r \in Client : r # q => edit'[r].at = "free"
        BY <1>2, <2>1, <2>3, <3>1, FreeRow DEF Stands
      <4> QED BY <2>1, <2>3, <3>1, <4>1, <4>2 DEF Stands
    <3>5. edit[q].at = "written" /\ tmp'.there => Of(tmp'.jobs, j) = Of(edit[q].jobs, j)
      <4> SUFFICES ASSUME edit[q].at = "written", tmp'.there
                   PROVE  Of(tmp'.jobs, j) = Of(edit[q].jobs, j)
        OBVIOUS
      <4>1. CASE tmp' = tmp
        BY <2>1, <4>1 DEF Stands
      <4>2. CASE tmp' # tmp
        <5>1. tmp' = Cron!Torn /\ e.at = "changed"
          BY <1>4, <4>2
        <5>2. Cron!Spoiled(p, tmp') = Cron!Listed(file)
          BY <3>1, <4>2 DEF Cron!Spoiled
        <5>3. Of(file, j) = {}
          BY <1>10, <5>2, OfList, Parts
        <5>4. edit[q].job # j
          BY <3>3, <5>1
        <5> QED BY <3>2, <5>1, <5>3, <5>4, OfNone DEF Cron!Torn
      <4> QED BY <4>1, <4>2
    <3> QED BY <3>1, <3>2, <3>4, <3>5
  <2>4. \A q \in Client : edit'[q].at = "written" => edit'[q].at # "free"
    OBVIOUS
  <2> QED BY <2>1, <2>2, <2>3, <2>4 DEF Stands
<1>11. ASSUME NEW j \in Job \ (cut'.marks \cup cut'.lines) PROVE Marks(j)' /\ Spaced(fired'[j], j)
  <2>1. Marks(j) /\ Spaced(fired[j], j)
    BY <1>11 DEF CronInv
  <2>2. Running(j) => Running(j)'
    BY <1>5, <1>11 DEF Running
  <2>3. \A q \in Client : edit'[q].at # "free" => edit'[q] = edit[q]
    BY <1>2, FreeRow
  <2>4. \A q \in Client : Awake(loop'[q]) => loop'[q] = loop[q]
    BY <1>5
  <2>5. wanted'[j] = "unborn" => wanted[j] = "unborn"
    BY <1>3
  <2> QED BY <2>1, <2>2, <2>3, <2>4, <2>5 DEF Marks
<1> QED BY <1>6, <1>7, <1>8, <1>9, <1>10, <1>11 DEF CronInv

\* What has to be seen of a step of the loop that starts no run and no change.
LEMMA LoopKeeps ==
    ASSUME CronInv, NEW p \in Client, NEW row \in LoopRow, loop' = [loop EXCEPT ![p] = row],
           UNCHANGED <<file, tmp, edit, clock, fired, wanted>>,
           cut' \in CutRow, cut.marks \subseteq cut'.marks, cut'.lines = cut.lines,
           Distinct(row.todo), loop[p].at # "marking", row.at \in {"off", "asleep", "going"},
           Awake(row) => 0 <= row.now /\ row.now <= clock,
           \A j \in Job \ (cut'.marks \cup cut.lines) :
             /\ Busy(loop[p]) /\ Head(loop[p].todo).id = j => Of(file, j) = {}
             /\ Awake(row) /\ Of(row.todo, j) # {} =>
                  /\ wanted[j] # "unborn"
                  /\ \A q \in Client : Awake(loop[q]) /\ Of(loop[q].todo, j) # {} => p = q
                  /\ \A i \in DOMAIN fired[j] : fired[j][i] <= row.now
                  /\ \A e \in Of(row.todo, j) : Knows(fired[j], e)
    PROVE  CronInv'
<1>1. /\ loop' \in [Client -> LoopRow] /\ loop'[p] = row
      /\ \A q \in Client : q # p => loop'[q] = loop[q]
  BY Parts DEF CronShapes
<1>2. ~Busy(row) /\ row.at # "marking"
  BY DEF Busy
<1>3. CronShapes'
  BY <1>1, Parts DEF CronShapes
<1>4. Changing'
  <2> SUFFICES ASSUME NEW q \in Client PROVE Acting(edit[q], loop'[q], wanted)
    BY DEF Changing
  <2>1. Acting(edit[q], loop[q], wanted)
    BY AtClient
  <2> QED BY <1>1, <1>2, <2>1 DEF Acting
<1>5. Lists'
  <2>1. \A q \in Client : Distinct(edit'[q].jobs) /\ Distinct(loop'[q].todo)
    BY <1>1, AtClient
  <2>2. \A j \in Job : Nowhere(j) => Nowhere(j)'
    BY DEF Nowhere
  <2> QED BY <2>1, <2>2, Parts DEF Lists
<1>6. Times'
  BY <1>1, Parts DEF Times
<1>7. ASSUME NEW j \in Job \ cut'.lines PROVE Stands(j) /\ Stands(j)'
  <2>1. Stands(j)
    BY <1>7 DEF CronInv
  <2> QED BY <2>1 DEF Stands
<1>8. ASSUME NEW j \in Job \ (cut'.marks \cup cut'.lines) PROVE Marks(j)' /\ Spaced(fired'[j], j)
  <2>1. Marks(j) /\ Spaced(fired[j], j) /\ Stands(j)
    BY <1>7, <1>8 DEF CronInv
  <2>2. ~Running(j)' /\ Running(j) => Busy(loop[p]) /\ Head(loop[p].todo).id = j
    BY <1>1 DEF Running
  <2>3. ~Running(j)' /\ Running(j) => Of(file, j) = {}
    BY <1>8, <2>2
  <2>4. ASSUME NEW q \in Client, edit[q].at # "free", edit[q].job = j, ~Running(j)', Running(j)
        PROVE  edit[q].op = "mark" \/ Of(edit[q].jobs, j) = {}
    <3>1. Busy(loop[p]) /\ Head(loop[p].todo).id = j /\ Of(file, j) = {}
      BY <2>2, <2>3, <2>4
    <3>2. loop[p].todo # <<>> /\ Awake(loop[p])
      BY <3>1, AtClient DEF Acting, Busy, Awake
    <3>3. Of(loop[p].todo, j) # {}
      BY <3>1, <3>2, AtClient, Rest
    <3>4. edit[q].op # "add"
      BY <2>1, <2>4, <3>2, <3>3, AtClient DEF Marks, Acting
    <3>5. wanted[j] \in {"on", "off"} /\ Of(file, j) # {}
      BY <2>1, <2>4, <3>4 DEF Stands, Meets
    <3> QED BY <3>1, <3>5
  <2>5. ASSUME NEW q \in Client, Awake(loop'[q]), Of(loop'[q].todo, j) # {}
        PROVE  /\ wanted[j] # "unborn"
               /\ \A r \in Client : Awake(loop'[r]) /\ Of(loop'[r].todo, j) # {} => q = r
               /\ \A i \in DOMAIN fired[j] : fired[j][i] <= loop'[q].now
               /\ \A e \in Ahead(loop'[q], j) : Knows(fired[j], e)
    <3>1. Ahead(row, j) = Of(row.todo, j)
      BY <1>2 DEF Ahead
    <3>2. CASE q = p
      BY <1>1, <1>8, <2>5, <3>1, <3>2
    <3>3. CASE q # p
      <4>1. loop'[q] = loop[q] /\ Awake(loop[q]) /\ Of(loop[q].todo, j) # {}
        BY <1>1, <2>5, <3>3
      <4>2. ~(Awake(row) /\ Of(row.todo, j) # {})
        BY <1>8, <3>3, <4>1
      <4>3. \A r \in Client : Awake(loop'[r]) /\ Of(loop'[r].todo, j) # {} => q = r
        BY <1>1, <2>1, <4>1, <4>2 DEF Marks
      <4> QED BY <2>1, <4>1, <4>3 DEF Marks
    <3> QED BY <3>2, <3>3
  <2>6. \A e \in Of(file, j) : Running(j)' \/ Knows(fired[j], e)
    BY <2>1, <2>3 DEF Marks
  <2>7. \A q \in Client : edit[q].at # "free" /\ edit[q].job = j =>
          \A e \in Of(edit[q].jobs, j) : (edit[q].op # "mark" /\ Running(j)') \/ Knows(fired[j], e)
    BY <2>1, <2>4 DEF Marks
  <2> QED BY <2>1, <2>5, <2>6, <2>7 DEF Marks
<1> QED BY <1>3, <1>4, <1>5, <1>6, <1>7, <1>8 DEF CronInv

\* What is left of the moves, when one is made.
LEMMA OneLess ==
    ASSUME CronInv
    PROVE  /\ cut \in CutRow /\ cut.left - 1 \in Int /\ cut.left - 2 \in Int
           /\ \A c \in CutRow, n \in Int :
                /\ [c EXCEPT !.left = n] \in CutRow
                /\ [c EXCEPT !.left = n].marks = c.marks /\ [c EXCEPT !.left = n].lines = c.lines
           /\ \A c \in CutRow, x \in SUBSET Job :
                /\ [c EXCEPT !.marks = x] \in CutRow
                /\ [c EXCEPT !.marks = x].marks = x /\ [c EXCEPT !.marks = x].lines = c.lines
           /\ \A c \in CutRow, x \in SUBSET Job :
                /\ [c EXCEPT !.lines = x] \in CutRow
                /\ [c EXCEPT !.lines = x].lines = x /\ [c EXCEPT !.lines = x].marks = c.marks
<1>1. cut \in CutRow
  BY Parts DEF CronShapes
<1>2. cut.left - 1 \in Int /\ cut.left - 2 \in Int
  BY <1>1 DEF CutRow
<1>3. \A c \in CutRow, n \in Int :
        /\ [c EXCEPT !.left = n] \in CutRow
        /\ [c EXCEPT !.left = n].marks = c.marks /\ [c EXCEPT !.left = n].lines = c.lines
  BY DEF CutRow
<1>4. \A c \in CutRow, x \in SUBSET Job :
        /\ [c EXCEPT !.marks = x] \in CutRow
        /\ [c EXCEPT !.marks = x].marks = x /\ [c EXCEPT !.marks = x].lines = c.lines
  BY DEF CutRow
<1>5. \A c \in CutRow, x \in SUBSET Job :
        /\ [c EXCEPT !.lines = x] \in CutRow
        /\ [c EXCEPT !.lines = x].lines = x /\ [c EXCEPT !.lines = x].marks = c.marks
  BY DEF CutRow
<1> QED BY <1>1, <1>2, <1>3, <1>4, <1>5

LEMMA OverlapOfJobs ==
    ASSUME CronInv, NEW p \in Client, NEW k \in Job PROVE Cron!Overlap(p, k) \in SUBSET Job
<1>1. \A q \in Cron!Others(p) : q \in Client /\ edit[q].job \in Job
  BY AtClient DEF Cron!Others, Acting
<1> QED BY <1>1 DEF Cron!Overlap

\* An edit is asked for.
LEMMA EditKeeps ==
    ASSUME CronInv, NEW p \in Client, NEW op \in {"add", "remove", "pause", "resume"},
           NEW k \in Job, Cron!Edit(p, op, k)
    PROVE  CronInv'
<1>1. /\ UNCHANGED <<file, tmp, loop, clock, fired, wanted>>
      /\ op = "add" <=> wanted[k] = "unborn"
      /\ op = "add" => \A q \in Client : edit[q].job # k
      /\ op \in Ops /\ op # "mark"
  BY DEF Cron!Edit, Ops
<1>2. Cron!Overlap(p, k) \in SUBSET Job /\ Cron!Listed(file) \in SUBSET Job /\ cut.lines \in SUBSET Job
  BY OverlapOfJobs, OneLess, Entries, Parts DEF Cron!Listed, CutRow
<1>3. loop' \in [Client -> LoopRow]
  BY <1>1, Parts DEF CronShapes
<1>4. ASSUME NEW jobs, Cron!Take(p, "tool", op, k, 0, jobs),
             jobs = file \/ (jobs = <<>> /\ op = "add" /\ Cron!Listed(file) \subseteq cut'.lines),
             cut' \in CutRow, cut'.marks = cut.marks,
             cut.lines \cup Cron!Overlap(p, k) \subseteq cut'.lines
      PROVE  CronInv'
  <2>1. "tool" \in {"tool", "loop"} /\ (op = "mark" <=> "tool" = "loop") /\ 0 \in Int
    BY <1>1
  <2>2. \A q \in Client :
          /\ loop'[q].now = loop[q].now /\ loop'[q].todo = loop[q].todo
          /\ Busy(loop'[q]) <=> Busy(loop[q])
          /\ Awake(loop'[q]) <=> Awake(loop[q])
          /\ loop'[q].at = "marking" <=> (q = p /\ op = "mark") \/ loop[q].at = "marking"
    BY <1>1
  <2>3. op = "mark" => /\ loop[p].at = "running" /\ k = Head(loop[p].todo).id /\ 0 = loop[p].now
    BY <1>1
  <2> QED BY <1>1, <1>3, <1>4, <2>1, <2>2, <2>3, TakeKeeps
<1>5. CASE /\ Cron!Take(p, "tool", op, k, 0, file)
           /\ cut' = [cut EXCEPT !.left = @ - 1, !.lines = @ \cup Cron!Overlap(p, k)]
  <2>1. /\ cut' \in CutRow /\ cut'.marks = cut.marks
        /\ cut'.lines = cut.lines \cup Cron!Overlap(p, k)
    BY <1>2, <1>5, OneLess DEF CutRow
  <2> QED BY <1>4, <1>5, <2>1
<1>6. CASE /\ op = "add" /\ Cron!Take(p, "tool", op, k, 0, <<>>)
           /\ cut' = [cut EXCEPT !.left = @ - 2,
                                !.lines = @ \cup Cron!Overlap(p, k) \cup Cron!Listed(file)]
  <2>1. /\ cut' \in CutRow /\ cut'.marks = cut.marks
        /\ cut'.lines = cut.lines \cup Cron!Overlap(p, k) \cup Cron!Listed(file)
    BY <1>2, <1>6, OneLess DEF CutRow
  <2> QED BY <1>4, <1>6, <2>1
<1> QED BY <1>5, <1>6 DEF Cron!Edit, Cron!ReadFor

\* A run ends: its job is marked, unless it is gone or the file cannot be read.
LEMMA MarkRunKeeps == ASSUME CronInv, NEW p \in Client, Cron!MarkRun(p) PROVE CronInv'
<1> DEFINE l == loop[p]
           k == Head(loop[p].todo).id
           row == Cron!NextJob(loop[p])
<1>1. /\ l.at = "running" /\ UNCHANGED <<file, tmp, clock, fired, wanted>>
  BY DEF Cron!MarkRun
<1>2. l.todo # <<>> /\ Busy(l) /\ Awake(l)
  BY <1>1, AtClient DEF Acting, Busy, Awake
<1>3. /\ row \in LoopRow /\ row.at = "going" /\ row.now = loop[p].now
      /\ row.todo = Tail(loop[p].todo) /\ Distinct(row.todo)
      /\ \A j : Of(row.todo, j) \subseteq Of(loop[p].todo, j)
      /\ k \in Job
  BY <1>2, NextRow
<1> HIDE DEF row
<1>4. ASSUME UNCHANGED edit, loop' = [loop EXCEPT ![p] = row],
             cut' \in CutRow, cut.marks \subseteq cut'.marks, cut'.lines = cut.lines,
             k \in cut'.marks \/ ~Cron!Has(file, k)
      PROVE  CronInv'
  <2>1. ASSUME NEW j \in Job \ (cut'.marks \cup cut.lines)
        PROVE  /\ Busy(loop[p]) /\ Head(loop[p].todo).id = j => Of(file, j) = {}
               /\ Awake(row) /\ Of(row.todo, j) # {} =>
                    /\ wanted[j] # "unborn"
                    /\ \A q \in Client : Awake(loop[q]) /\ Of(loop[q].todo, j) # {} => p = q
                    /\ \A i \in DOMAIN fired[j] : fired[j][i] <= row.now
                    /\ \A e \in Of(row.todo, j) : Knows(fired[j], e)
    <3>1. Marks(j)
      BY <1>4, <2>1 DEF CronInv
    <3>2. k = j => Of(file, j) = {}
      BY <1>4, <2>1, OfList, Parts
    <3>3. Of(row.todo, j) = Ahead(l, j)
      BY <1>2, <1>3 DEF Ahead
    <3> QED BY <1>2, <1>3, <3>1, <3>2, <3>3 DEF Marks
  <2>2. 0 <= row.now /\ row.now <= clock
    BY <1>2, <1>3, Parts DEF Times
  <2>3. loop[p].at # "marking" /\ row.at \in {"off", "asleep", "going"}
    BY <1>1, <1>3
  <2> QED BY <1>1, <1>3, <1>4, <2>1, <2>2, <2>3, LoopKeeps
<1>5. CASE ~Cron!Has(file, k) /\ loop' = [loop EXCEPT ![p] = Cron!NextJob(@)] /\ UNCHANGED <<edit, cut>>
  BY <1>4, <1>5, OneLess DEF row
<1>6. CASE /\ cut' = [cut EXCEPT !.left = @ - 1, !.marks = @ \cup {k}]
           /\ loop' = [loop EXCEPT ![p] = Cron!NextJob(@)] /\ UNCHANGED edit
  <2>1. cut' \in CutRow /\ cut'.marks = cut.marks \cup {k} /\ cut'.lines = cut.lines
    BY <1>3, <1>6, OneLess DEF CutRow
  <2> QED BY <1>4, <1>6, <2>1 DEF row
<1>7. CASE /\ Cron!Take(p, "loop", "mark", k, l.now, file)
           /\ loop' = [loop EXCEPT ![p].at = "marking"]
           /\ cut' = [cut EXCEPT !.lines = @ \cup Cron!Overlap(p, k)]
  <2>1. Cron!Overlap(p, k) \in SUBSET Job
    BY <1>3, OverlapOfJobs
  <2>2. cut' \in CutRow /\ cut'.marks = cut.marks /\ cut'.lines = cut.lines \cup Cron!Overlap(p, k)
    BY <1>7, <2>1, OneLess DEF CutRow
  <2> DEFINE new == [loop[p] EXCEPT !.at = "marking"]
  <2>3. /\ new \in LoopRow /\ new.at = "marking" /\ new.now = l.now /\ new.todo = l.todo
    BY AtClient DEF LoopRow
  <2>4. loop' = [loop EXCEPT ![p] = new]
    BY <1>7
  <2> HIDE DEF new
  <2>5. /\ loop' \in [Client -> LoopRow] /\ loop'[p] = new
        /\ \A q \in Client : q # p => loop'[q] = loop[q]
    BY <2>3, <2>4, Parts DEF CronShapes
  <2>6. \A q \in Client :
          /\ loop'[q].now = loop[q].now /\ loop'[q].todo = loop[q].todo
          /\ Busy(loop'[q]) <=> Busy(loop[q])
          /\ Awake(loop'[q]) <=> Awake(loop[q])
          /\ loop'[q].at = "marking" <=> (q = p /\ "mark" = "mark") \/ loop[q].at = "marking"
    BY <1>2, <2>3, <2>5 DEF Busy, Awake
  <2>7. /\ "mark" \in Ops /\ "loop" \in {"tool", "loop"} /\ ("mark" = "mark" <=> "loop" = "loop")
        /\ l.now \in Int
    BY AtClient DEF Ops
  <2> QED BY <1>1, <1>3, <1>7, <2>2, <2>5, <2>6, <2>7, TakeKeeps
<1> QED BY <1>5, <1>6, <1>7 DEF Cron!MarkRun, Cron!ReadFor

\* A dashboard starts.
LEMMA StartKeeps == ASSUME CronInv, NEW p \in Client, Cron!Start(p) PROVE CronInv'
<1> DEFINE row == Cron!Asleep(clock)
<1>1. /\ loop[p] = Cron!Off /\ loop' = [loop EXCEPT ![p] = row]
      /\ cut' = [cut EXCEPT !.left = cut.left - 1]
      /\ UNCHANGED <<file, tmp, edit, clock, fired, wanted>>
  BY DEF Cron!Start
<1>2. row \in LoopRow /\ ~Awake(row) /\ Distinct(row.todo) /\ row.at = "asleep"
  BY Parts, OfNone DEF Cron!Asleep, LoopRow, Awake
<1>3. ~Busy(loop[p]) /\ loop[p].at # "marking"
  BY <1>1 DEF Cron!Off, Busy
<1>4. cut' \in CutRow /\ cut'.marks = cut.marks /\ cut'.lines = cut.lines
  BY <1>1, OneLess
<1> HIDE DEF row
<1> QED BY <1>1, <1>2, <1>3, <1>4, LoopKeeps

\* A tick ends.
LEMMA EndTickKeeps == ASSUME CronInv, NEW p \in Client, Cron!EndTick(p) PROVE CronInv'
<1> DEFINE row == Cron!Asleep(clock + 2)
<1>1. /\ loop[p].at = "going" /\ loop' = [loop EXCEPT ![p] = row]
      /\ UNCHANGED <<file, tmp, edit, clock, fired, wanted, cut>>
  BY DEF Cron!EndTick
<1>2. row \in LoopRow /\ ~Awake(row) /\ Distinct(row.todo) /\ row.at = "asleep"
  BY Parts, OfNone DEF Cron!Asleep, LoopRow, Awake
<1>3. ~Busy(loop[p]) /\ loop[p].at # "marking"
  BY <1>1 DEF Busy
<1>4. cut' \in CutRow /\ cut'.marks = cut.marks /\ cut'.lines = cut.lines
  BY <1>1, OneLess
<1> HIDE DEF row
<1> QED BY <1>1, <1>2, <1>3, <1>4, LoopKeeps

\* A job that is not due is passed over.
LEMMA PassOverKeeps == ASSUME CronInv, NEW p \in Client, Cron!PassOver(p) PROVE CronInv'
<1> DEFINE row == Cron!NextJob(loop[p])
<1>1. /\ loop[p].at = "going" /\ loop[p].todo # <<>> /\ loop' = [loop EXCEPT ![p] = row]
      /\ UNCHANGED <<file, tmp, edit, clock, fired, wanted, cut>>
  BY DEF Cron!PassOver
<1>2. /\ row \in LoopRow /\ row.at = "going" /\ row.now = loop[p].now
      /\ row.todo = Tail(loop[p].todo) /\ Distinct(row.todo)
      /\ \A j : Of(row.todo, j) \subseteq Of(loop[p].todo, j)
  BY <1>1, NextRow
<1> HIDE DEF row
<1>3. ~Busy(loop[p]) /\ loop[p].at # "marking" /\ Awake(loop[p])
  BY <1>1 DEF Busy, Awake
<1>4. cut' \in CutRow /\ cut'.marks = cut.marks /\ cut'.lines = cut.lines
  BY <1>1, OneLess
<1>5. ASSUME NEW j \in Job \ (cut'.marks \cup cut.lines)
      PROVE  /\ Busy(loop[p]) /\ Head(loop[p].todo).id = j => Of(file, j) = {}
             /\ Awake(row) /\ Of(row.todo, j) # {} =>
                  /\ wanted[j] # "unborn"
                  /\ \A q \in Client : Awake(loop[q]) /\ Of(loop[q].todo, j) # {} => p = q
                  /\ \A i \in DOMAIN fired[j] : fired[j][i] <= row.now
                  /\ \A e \in Of(row.todo, j) : Knows(fired[j], e)
  <2>1. Marks(j)
    BY <1>4, <1>5 DEF CronInv
  <2>2. Of(row.todo, j) \subseteq Ahead(loop[p], j) /\ Ahead(loop[p], j) = Of(loop[p].todo, j)
    BY <1>2, <1>3 DEF Ahead
  <2> QED BY <1>2, <1>3, <2>1, <2>2 DEF Marks
<1>6. 0 <= row.now /\ row.now <= clock
  BY <1>2, <1>3, Parts DEF Times
<1> QED BY <1>1, <1>2, <1>3, <1>4, <1>5, <1>6, LoopKeeps

\* A tick reads the list, or cannot.
LEMMA TickKeeps == ASSUME CronInv, NEW p \in Client, Cron!Tick(p) PROVE CronInv'
<1>1. /\ loop[p].at = "asleep" /\ UNCHANGED <<file, tmp, edit, clock, fired, wanted>>
      /\ ~Busy(loop[p]) /\ ~Awake(loop[p]) /\ loop[p].at # "marking"
  BY DEF Cron!Tick, Busy, Awake
<1>2. ASSUME NEW todo \in JobList, Distinct(todo),
             loop' = [loop EXCEPT ![p] = [at |-> "going", now |-> clock, todo |-> todo]],
             cut' \in CutRow, cut.marks \subseteq cut'.marks, cut'.lines = cut.lines,
             todo # <<>> =>
               /\ todo = file
               /\ (\E q \in Client \ {p} : Awake(loop[q])) => Cron!Listed(file) \subseteq cut'.marks
      PROVE  CronInv'
  <2> DEFINE row == [at |-> "going", now |-> clock, todo |-> todo]
  <2>1. row \in LoopRow /\ row.now = clock /\ row.todo = todo /\ row.at = "going"
    BY <1>2, Parts DEF LoopRow
  <2>2. ASSUME NEW j \in Job \ (cut'.marks \cup cut.lines), Of(todo, j) # {}
        PROVE  /\ wanted[j] # "unborn"
               /\ \A q \in Client : Awake(loop[q]) /\ Of(loop[q].todo, j) # {} => p = q
               /\ \A i \in DOMAIN fired[j] : fired[j][i] <= clock
               /\ \A e \in Of(todo, j) : Knows(fired[j], e)
    <3>1. Marks(j) /\ Stands(j)
      BY <1>2, <2>2 DEF CronInv
    <3>2. todo = file /\ j \in Cron!Listed(file)
      BY <1>2, <2>2, OfNone, OfList, Parts
    <3>3. \A q \in Client : q # p => ~Awake(loop[q])
      BY <1>2, <2>2, <3>2, OfNone
    <3>4. wanted[j] # "unborn"
      BY <2>2, <3>1, <3>2 DEF Stands, Meets
    <3>5. ~Running(j)
      BY <1>1, <3>3 DEF Running, Busy, Awake
    <3>6. \A i \in DOMAIN fired[j] : fired[j][i] <= clock
      BY Parts DEF Times
    <3> QED BY <3>1, <3>2, <3>3, <3>4, <3>5, <3>6 DEF Marks
  <2>3. 0 <= row.now /\ row.now <= clock
    BY <2>1, Parts
  <2> HIDE DEF row
  <2>4. loop' = [loop EXCEPT ![p] = row]
    BY <1>2 DEF row
  <2> QED BY <1>1, <1>2, <2>1, <2>2, <2>3, <2>4, LoopKeeps
<1>3. CASE /\ loop' = [loop EXCEPT ![p] = [at |-> "going", now |-> clock, todo |-> file]]
           /\ cut' = IF \E q \in Client \ {p} : Cron!Ticks(q)
                     THEN [cut EXCEPT !.marks = cut.marks \cup Cron!Listed(file)] ELSE cut
  <2>1. \A q \in Client : Awake(loop[q]) => Cron!Ticks(q)
    BY AtClient DEF Awake, Cron!Ticks
  <2>2. Cron!Listed(file) \in SUBSET Job
    BY Entries, Parts DEF Cron!Listed
  <2>3. CASE \E q \in Client \ {p} : Cron!Ticks(q)
    <3>1. cut.marks \cup Cron!Listed(file) \in SUBSET Job
      BY <2>2, OneLess DEF CutRow
    <3>2. /\ cut' \in CutRow /\ cut'.marks = cut.marks \cup Cron!Listed(file)
          /\ cut'.lines = cut.lines
      BY <1>3, <2>3, <3>1, OneLess
    <3> QED BY <1>2, <1>3, <3>2, Parts
  <2>4. CASE ~\E q \in Client \ {p} : Cron!Ticks(q)
    <3>1. cut' = cut /\ ~\E q \in Client \ {p} : Awake(loop[q])
      BY <1>3, <2>1, <2>4
    <3> QED BY <1>2, <1>3, <3>1, OneLess, Parts
  <2> QED BY <2>3, <2>4
<1>4. CASE /\ cut' = [cut EXCEPT !.left = cut.left - 1]
           /\ loop' = [loop EXCEPT ![p] = [at |-> "going", now |-> clock, todo |-> <<>>]]
  <2>1. cut' \in CutRow /\ cut'.marks = cut.marks /\ cut'.lines = cut.lines
    BY <1>4, OneLess
  <2> QED BY <1>2, <1>4, <2>1, OfNone
<1> QED BY <1>3, <1>4 DEF Cron!Tick

\* A job that is due is run.
LEMMA RunJobKeeps == ASSUME CronInv, NEW p \in Client, Cron!RunJob(p) PROVE CronInv'
<1> DEFINE l == loop[p]
           h == Head(loop[p].todo).id
           row == [loop[p] EXCEPT !.at = "running"]
<1>1. /\ l.at = "going" /\ l.todo # <<>> /\ Cron!Due(Head(l.todo), l.now)
      /\ fired' = [fired EXCEPT ![h] = Append(fired[h], l.now)]
      /\ loop' = [loop EXCEPT ![p] = row]
      /\ UNCHANGED <<file, tmp, edit, clock, wanted, cut>>
  BY DEF Cron!RunJob
<1>2. /\ l.todo \in JobList /\ Distinct(l.todo) /\ l.now \in Int
      /\ Head(l.todo) \in JobEntry /\ h \in Job /\ Head(l.todo) \in Of(l.todo, h)
      /\ Of(Tail(l.todo), h) = {} /\ \A j : Of(Tail(l.todo), j) \subseteq Of(l.todo, j)
  BY <1>1, AtClient, Rest
<1>3. /\ row \in LoopRow /\ row.at = "running" /\ row.now = l.now /\ row.todo = l.todo
      /\ Awake(l) /\ ~Busy(l) /\ Awake(row) /\ Busy(row)
  BY <1>1, AtClient DEF LoopRow, Awake, Busy
<1> HIDE DEF row
<1>4. /\ loop' \in [Client -> LoopRow] /\ loop'[p] = row
      /\ \A q \in Client : q # p => loop'[q] = loop[q]
  BY <1>1, <1>3, Parts DEF CronShapes
<1>5. 0 <= l.now /\ l.now <= clock /\ l.now \in Nat
  BY <1>2, <1>3, Parts DEF Times
<1>6. /\ fired' \in [Job -> Seq(Int)] /\ fired'[h] = Append(fired[h], l.now) /\ fired[h] \in Seq(Int)
      /\ \A j \in Job : j # h => fired'[j] = fired[j]
  BY <1>1, <1>2, Parts DEF CronShapes
<1>7. PICK n \in Nat \ {0} :
        /\ DOMAIN fired'[h] = DOMAIN fired[h] \cup {n} /\ fired'[h][n] = l.now
        /\ \A i \in DOMAIN fired[h] :
             i \in Nat /\ i < n /\ fired'[h][i] = fired[h][i] /\ fired[h][i] \in Int
  <2>1. \E n \in Nat \ {0} :
          /\ DOMAIN Append(fired[h], l.now) = DOMAIN fired[h] \cup {n}
          /\ Append(fired[h], l.now)[n] = l.now
          /\ \A i \in DOMAIN fired[h] :
               i \in Nat /\ i < n /\ Append(fired[h], l.now)[i] = fired[h][i] /\ fired[h][i] \in Int
    BY Zenon, <1>2, <1>6, Appended
  <2> QED BY Zenon, <1>6, <2>1
<1>8. CronShapes'
  BY <1>1, <1>4, <1>6, Parts DEF CronShapes
<1>9. Changing'
  <2> SUFFICES ASSUME NEW q \in Client PROVE Acting(edit[q], loop'[q], wanted)
    BY <1>1 DEF Changing
  <2>1. Acting(edit[q], loop[q], wanted)
    BY AtClient
  <2>2. CASE q # p
    BY <1>4, <2>1, <2>2
  <2>3. CASE q = p
    BY <1>1, <1>3, <1>4, <2>1, <2>3 DEF Acting
  <2> QED BY <2>2, <2>3
<1>10. Lists'
  <2>1. \A q \in Client : Distinct(loop'[q].todo)
    BY <1>2, <1>3, <1>4, AtClient
  <2>2. \A j \in Job : Nowhere(j) => Nowhere(j)'
    BY <1>1 DEF Nowhere
  <2> QED BY <1>1, <2>1, <2>2, Parts DEF Lists
<1>11. Times'
  <2>1. ASSUME NEW j \in Job, NEW i \in DOMAIN fired'[j]
        PROVE  0 <= fired'[j][i] /\ fired'[j][i] <= clock
    <3>1. CASE j # h
      BY <1>6, <2>1, <3>1, Parts DEF Times
    <3>2. CASE j = h /\ i = n
      BY <1>5, <1>7, <3>2
    <3>3. CASE j = h /\ i # n
      BY <1>2, <1>7, <2>1, <3>3, Parts DEF Times
    <3> QED BY <3>1, <3>2, <3>3
  <2>2. \A q \in Client : Awake(loop'[q]) => 0 <= loop'[q].now /\ loop'[q].now <= clock
    BY <1>3, <1>4, <1>5, Parts DEF Times
  <2> QED BY <1>1, <2>1, <2>2 DEF Times
<1>12. ASSUME NEW j \in Job \ cut.lines PROVE Stands(j)'
  <2>1. Stands(j)
    BY <1>12 DEF CronInv
  <2> QED BY <1>1, <2>1 DEF Stands
<1>13. \A q \in Client : /\ loop'[q].todo = loop[q].todo /\ loop'[q].now = loop[q].now
                         /\ Awake(loop'[q]) <=> Awake(loop[q])
  BY <1>3, <1>4
<1>14. ASSUME NEW j \in Job \ (cut.marks \cup cut.lines), j # h
       PROVE  Marks(j)' /\ Spaced(fired'[j], j)
  <2>1. Marks(j) /\ Spaced(fired[j], j) /\ fired'[j] = fired[j]
    BY <1>6, <1>14 DEF CronInv
  <2>2. Running(j)' <=> Running(j)
    BY <1>3, <1>4, <1>13, <1>14 DEF Running
  <2>3. \A q \in Client : Ahead(loop'[q], j) \subseteq Ahead(loop[q], j)
    BY <1>2, <1>3, <1>4 DEF Ahead
  <2>4. ASSUME NEW q \in Client, Awake(loop'[q]), Of(loop'[q].todo, j) # {}
        PROVE  /\ wanted[j] # "unborn"
               /\ \A r \in Client : Awake(loop'[r]) /\ Of(loop'[r].todo, j) # {} => q = r
               /\ \A i \in DOMAIN fired'[j] : fired'[j][i] <= loop'[q].now
               /\ \A e \in Ahead(loop'[q], j) : Knows(fired'[j], e)
    BY <1>13, <2>1, <2>3, <2>4 DEF Marks
  <2> QED BY <1>1, <2>1, <2>2, <2>4 DEF Marks
<1>15. ASSUME NEW j \in Job \ (cut.marks \cup cut.lines), j = h
       PROVE  Marks(j)' /\ Spaced(fired'[j], j)
  <2>1. Marks(j) /\ Spaced(fired[j], j)
    BY <1>2, <1>15 DEF CronInv
  <2>2. /\ wanted[j] # "unborn" /\ \A i \in DOMAIN fired[j] : fired[j][i] <= l.now
        /\ \A q \in Client : Awake(loop[q]) /\ Of(loop[q].todo, j) # {} => p = q
        /\ Knows(fired[j], Head(l.todo))
    BY <1>15, <1>2, <1>3, <2>1 DEF Marks, Ahead
  <2>3. Running(j)'
    BY <1>15, <1>3, <1>4 DEF Running
  <2>4. ASSUME NEW q \in Client, edit[q].at # "free", edit[q].job = j PROVE edit[q].op # "mark"
    <3> SUFFICES ASSUME edit[q].op = "mark" PROVE FALSE
      OBVIOUS
    <3>1. loop[q].at = "marking" /\ loop[q].todo # <<>> /\ Head(loop[q].todo).id = j
      BY <2>4, AtClient DEF Acting, Busy
    <3>2. Awake(loop[q]) /\ Of(loop[q].todo, j) # {}
      BY <3>1, AtClient, Rest DEF Awake
    <3> QED BY <1>1, <2>2, <3>1, <3>2
  <2>5. ASSUME NEW q \in Client, Awake(loop'[q]), Of(loop'[q].todo, j) # {}
        PROVE  /\ \A r \in Client : Awake(loop'[r]) /\ Of(loop'[r].todo, j) # {} => q = r
               /\ \A i \in DOMAIN fired'[j] : fired'[j][i] <= loop'[q].now
               /\ \A e \in Ahead(loop'[q], j) : Knows(fired'[j], e)
    <3>1. q = p /\ \A r \in Client : Awake(loop'[r]) /\ Of(loop'[r].todo, j) # {} => q = r
      BY <1>13, <2>2, <2>5
    <3>2. Ahead(loop'[q], j) = {} /\ loop'[q].now = l.now
      BY <1>15, <1>2, <1>3, <1>4, <3>1 DEF Ahead
    <3>3. \A i \in DOMAIN fired'[j] : fired'[j][i] <= l.now
      BY <1>15, <1>5, <1>7, <2>2
    <3> QED BY <3>1, <3>2, <3>3
  <2>6. Marks(j)'
    <3>1. wanted' = wanted /\ edit' = edit
      BY <1>1
    <3>2. \A q \in Client : edit'[q].at # "free" /\ edit'[q].job = j =>
            \A e \in Of(edit'[q].jobs, j) :
              (edit'[q].op # "mark" /\ Running(j)') \/ Knows(fired'[j], e)
      BY Zenon, <2>3, <2>4, <3>1
    <3>3. wanted'[j] # "unborn"
      BY <2>2, <3>1
    <3>4. ASSUME NEW q \in Client, Awake(loop'[q]), Of(loop'[q].todo, j) # {}
          PROVE  /\ wanted'[j] # "unborn"
                 /\ \A r \in Client : Awake(loop'[r]) /\ Of(loop'[r].todo, j) # {} => q = r
                 /\ \A i \in DOMAIN fired'[j] : fired'[j][i] <= loop'[q].now
                 /\ \A e \in Ahead(loop'[q], j) : Knows(fired'[j], e)
      BY Zenon, <2>5, <3>3, <3>4
    <3>5. \A e \in Of(file', j) : Running(j)' \/ Knows(fired'[j], e)
      BY Zenon, <2>3
    <3>6. wanted'[j] = "unborn" => fired'[j] = <<>>
      BY Zenon, <3>3
    <3> QED BY <3>2, <3>4, <3>5, <3>6 DEF Marks
  <2>7. ASSUME NEW i \in DOMAIN fired'[j], NEW k \in DOMAIN fired'[j], i < k
        PROVE  Apart(fired'[j][i], fired'[j][k], j)
    <3>1. i \in DOMAIN fired[j] /\ fired'[j][i] = fired[j][i] /\ fired[j][i] \in Int
      BY <1>15, <1>7, <2>7
    <3>2. CASE k # n
      <4>1. k \in DOMAIN fired[j] /\ fired'[j][k] = fired[j][k]
        BY <1>15, <1>7, <2>7, <3>2
      <4> QED BY Zenon, <2>1, <2>7, <3>1, <4>1 DEF Spaced
    <3>3. CASE k = n
      <4>1. 0 <= fired[j][i] /\ fired[j][i] <= Head(l.todo).last
        BY <1>15, <1>2, <2>2, <3>1, Parts DEF Times, Knows
      <4>2. Apart(fired[j][i], l.now, Head(l.todo).id)
        BY <1>15, <1>1, <1>2, <1>5, <3>1, <4>1, DueOnSchedule
      <4> QED BY Zenon, <1>15, <1>7, <3>1, <3>3, <4>2
    <3> QED BY <3>2, <3>3
  <2> QED BY <2>6, <2>7 DEF Spaced
<1>16. \A j \in Job \ (cut.marks \cup cut.lines) : Marks(j)' /\ Spaced(fired'[j], j)
  BY Zenon, <1>14, <1>15
<1>17. cut' = cut
  BY <1>1
<1> QED BY Zenon, <1>8, <1>9, <1>10, <1>11, <1>12, <1>16, <1>17 DEF CronInv

\* Time passes.
LEMMA PassKeeps == ASSUME CronInv, Cron!Pass PROVE CronInv'
<1>1. clock' = clock + 1 /\ UNCHANGED <<file, tmp, edit, loop, fired, wanted, cut>>
  BY DEF Cron!Pass
<1>2. CronShapes' /\ Changing' /\ Lists'
  <2>1. CronShapes'
    BY <1>1, Parts DEF CronShapes
  <2>2. Changing'
    BY <1>1, Parts DEF Changing
  <2>3. Lists'
    BY <1>1, Parts DEF Lists, Nowhere
  <2> QED BY <2>1, <2>2, <2>3
<1>3. Times'
  <2>1. /\ clock \in Nat /\ fired \in [Job -> Seq(Int)]
        /\ \A p \in Client : loop[p].now \in Int
    BY Parts, AtClient DEF CronShapes
  <2>2. \A j \in Job : \A i \in DOMAIN fired[j] : fired[j][i] \in Int
    BY <2>1
  <2> QED BY <1>1, <2>1, <2>2, Parts DEF Times
<1>4. \A j \in Job \ cut.lines : Stands(j)'
  BY <1>1 DEF CronInv, Stands
<1>5. \A j \in Job \ (cut.marks \cup cut.lines) : Marks(j)' /\ Spaced(fired'[j], j)
  BY <1>1 DEF CronInv, Marks, Running
<1> QED BY <1>1, <1>2, <1>3, <1>4, <1>5 DEF CronInv

LEMMA CronStutters == ASSUME CronInv, UNCHANGED Cron!cronVars PROVE CronInv'
<1>1. UNCHANGED <<file, tmp, edit, loop, clock, fired, wanted, cut>>
  BY DEF Cron!cronVars
<1>2. CronShapes' /\ Changing' /\ Lists' /\ Times'
  BY <1>1, Parts DEF CronShapes, Changing, Lists, Nowhere, Times
<1>3. \A j \in Job \ cut.lines : Stands(j)'
  BY <1>1 DEF CronInv, Stands
<1>4. \A j \in Job \ (cut.marks \cup cut.lines) : Marks(j)' /\ Spaced(fired'[j], j)
  BY <1>1 DEF CronInv, Marks, Running
<1> QED BY <1>1, <1>2, <1>3, <1>4 DEF CronInv

\* A change raises: what it was part of ends.
LEMMA RaisesKeeps ==
    ASSUME CronInv, NEW p \in Client, edit[p] # Cron!Free, Cron!Raises(p),
           tmp' \in Cron!Leavings(p), UNCHANGED <<file, clock, fired>>,
           cut' \in CutRow, cut'.marks = cut.marks \cup Cron!Unmarked(p),
           cut.lines \cup Cron!Spoiled(p, tmp') \subseteq cut'.lines
    PROVE  CronInv'
<1>1. /\ edit' = [edit EXCEPT ![p] = Cron!Free]
      /\ wanted' = IF edit[p].op = "add" THEN [wanted EXCEPT ![edit[p].job] = "gone"] ELSE wanted
      /\ loop' = IF edit[p].by = "loop" THEN [loop EXCEPT ![p] = Cron!Asleep(clock + 2)] ELSE loop
  BY DEF Cron!Raises
<1>2. /\ edit[p].by = "loop" <=> loop[p].at = "marking"
      /\ edit[p].by = "loop" => edit[p].job = Head(loop[p].todo).id
  BY AtClient DEF Acting
<1>3. clock + 2 \in Int
  BY Parts
<1>4. CASE edit[p].by = "loop"
  <2>1. loop' = [loop EXCEPT ![p] = Cron!Asleep(clock + 2)] /\ Head(loop[p].todo).id \in cut'.marks
    BY <1>1, <1>2, <1>4 DEF Cron!Unmarked
  <2> QED BY <1>1, <1>3, <2>1, EndsKeep
<1>5. CASE edit[p].by # "loop"
  <2>1. loop' = loop /\ loop[p].at # "marking"
    BY <1>1, <1>2, <1>5
  <2> QED BY <1>1, <2>1, EndsKeep
<1> QED BY <1>4, <1>5

LEMMA SpoiledOfJobs ==
    ASSUME CronInv, NEW p \in Client
    PROVE  Cron!Unmarked(p) \in SUBSET Job /\ \A left : Cron!Spoiled(p, left) \in SUBSET Job
<1>1. edit[p].by = "loop" => edit[p].job \in Job
  BY AtClient, FreeRow DEF Acting
<1>2. Cron!Listed(file) \in SUBSET Job
  BY Entries, Parts DEF Cron!Listed
<1> QED BY <1>1, <1>2 DEF Cron!Unmarked, Cron!Spoiled

\* The temporary file was renamed by another.
LEMMA ReplaceFindsKeeps == ASSUME CronInv, NEW p \in Client, Cron!ReplaceFinds(p) PROVE CronInv'
<1>1. /\ edit[p].at = "written" /\ Cron!Raises(p) /\ UNCHANGED <<file, tmp, clock, fired>>
      /\ cut' = [cut EXCEPT !.marks = cut.marks \cup Cron!Unmarked(p)]
  BY DEF Cron!ReplaceFinds
<1>2. edit[p] # Cron!Free /\ tmp' \in Cron!Leavings(p) /\ Cron!Spoiled(p, tmp') = {}
  BY <1>1, FreeRow DEF Cron!Leavings, Cron!Spoiled
<1>3. cut.marks \cup Cron!Unmarked(p) \in SUBSET Job
  BY SpoiledOfJobs, OneLess DEF CutRow
<1>4. cut' \in CutRow /\ cut'.marks = cut.marks \cup Cron!Unmarked(p) /\ cut'.lines = cut.lines
  BY <1>1, <1>3, OneLess
<1> QED BY <1>1, <1>2, <1>4, RaisesKeeps

\* A write, or the rename, fails.
LEMMA WriteFailsKeeps == ASSUME CronInv, NEW p \in Client, Cron!WriteFails(p) PROVE CronInv'
<1>1. /\ edit[p] # Cron!Free /\ Cron!Raises(p) /\ tmp' \in Cron!Leavings(p)
      /\ UNCHANGED <<file, clock, fired>>
      /\ cut' = [cut EXCEPT !.left = @ - 1, !.marks = @ \cup Cron!Unmarked(p),
                           !.lines = @ \cup Cron!Spoiled(p, tmp')]
  BY DEF Cron!WriteFails
<1>2. /\ cut.marks \cup Cron!Unmarked(p) \in SUBSET Job
      /\ cut.lines \cup Cron!Spoiled(p, tmp') \in SUBSET Job
  BY SpoiledOfJobs, OneLess DEF CutRow
<1>3. /\ cut' \in CutRow /\ cut'.marks = cut.marks \cup Cron!Unmarked(p)
      /\ cut'.lines = cut.lines \cup Cron!Spoiled(p, tmp')
  BY <1>1, <1>2, OneLess DEF CutRow
<1> QED BY <1>1, <1>3, RaisesKeeps

\* A process dies.
LEMMA CronKillKeeps == ASSUME CronInv, NEW p \in Client, Cron!Kill(p) PROVE CronInv'
<1> DEFINE more == IF loop[p].at \in {"running", "marking"}
                   THEN cut.marks \cup {Head(loop[p].todo).id} ELSE cut.marks
<1>1. /\ edit' = [edit EXCEPT ![p] = Cron!Free] /\ tmp' \in Cron!Leavings(p)
      /\ UNCHANGED <<file, clock, fired>>
      /\ wanted' = IF edit[p].op = "add" THEN [wanted EXCEPT ![edit[p].job] = "gone"] ELSE wanted
      /\ loop' = IF loop[p] = Cron!Off THEN loop ELSE [loop EXCEPT ![p] = Cron!Asleep(clock)]
      /\ cut' = [cut EXCEPT !.left = @ - 1, !.lines = @ \cup Cron!Spoiled(p, tmp'), !.marks = more]
  BY DEF Cron!Kill
<1>2. Busy(loop[p]) => Head(loop[p].todo).id \in Job
  BY AtClient, Rest DEF Acting
<1>3. /\ more \in SUBSET Job /\ cut.marks \subseteq more
      /\ Busy(loop[p]) => Head(loop[p].todo).id \in more
  BY <1>2, OneLess DEF CutRow, Busy
<1>4. cut.lines \cup Cron!Spoiled(p, tmp') \in SUBSET Job
  BY SpoiledOfJobs, OneLess DEF CutRow
<1> HIDE DEF more
<1>5. /\ cut' \in CutRow /\ cut'.marks = more
      /\ cut'.lines = cut.lines \cup Cron!Spoiled(p, tmp')
  BY <1>1, <1>3, <1>4, OneLess DEF CutRow
<1>6. \/ loop' = loop /\ loop[p].at # "marking"
      \/ \E t \in Int : loop' = [loop EXCEPT ![p] = Cron!Asleep(t)]
  <2>1. CASE loop[p] = Cron!Off
    BY <1>1, <2>1 DEF Cron!Off
  <2>2. CASE loop[p] # Cron!Off
    <3>1. clock \in Int /\ loop' = [loop EXCEPT ![p] = Cron!Asleep(clock)]
      BY <1>1, <2>2, Parts
    <3> QED BY Zenon, <3>1
  <2> QED BY <2>1, <2>2
<1> QED BY <1>1, <1>3, <1>5, <1>6, EndsKeep

LEMMA CronStep == ASSUME CronInv, [Cron!CronNext]_(Cron!cronVars) PROVE CronInv'
<1>1. ASSUME NEW p \in Client, NEW op \in {"add", "remove", "pause", "resume"}, NEW j \in Job,
             Cron!Edit(p, op, j)
      PROVE  CronInv'
  BY <1>1, EditKeeps
<1>2. ASSUME NEW p \in Client,
             \/ Cron!WriteTmp(p) \/ Cron!Replace(p) \/ Cron!ReplaceFinds(p) \/ Cron!WriteFails(p)
             \/ Cron!Kill(p)
      PROVE  CronInv'
  BY <1>2, WriteTmpKeeps, ReplaceKeeps, ReplaceFindsKeeps, WriteFailsKeeps, CronKillKeeps
<1>3. ASSUME NEW p \in Client,
             \/ Cron!Start(p) \/ Cron!Tick(p) \/ Cron!PassOver(p) \/ Cron!RunJob(p)
             \/ Cron!MarkRun(p) \/ Cron!EndTick(p)
      PROVE  CronInv'
  BY <1>3, StartKeeps, TickKeeps, PassOverKeeps, RunJobKeeps, MarkRunKeeps, EndTickKeeps
<1> QED BY <1>1, <1>2, <1>3, PassKeeps, CronStutters DEF Cron!CronNext

LEMMA CronInitially == ASSUME Cron!CronInit PROVE CronInv
<1>1. /\ file = <<>> /\ tmp = Cron!NoTmp /\ edit = [p \in Client |-> Cron!Free]
      /\ loop = [p \in Client |-> Cron!Off] /\ clock = 0
      /\ fired = [j \in Job |-> <<>>] /\ wanted = [j \in Job |-> "unborn"]
      /\ cut = [marks |-> {}, lines |-> {}, left |-> MaxMoves]
  BY DEF Cron!CronInit
<1>2. CronShapes
  <2>1. file \in JobList /\ tmp \in [there : BOOLEAN, jobs : JobList]
    BY <1>1, OfNone DEF Cron!NoTmp
  <2>2. edit \in [Client -> EditRow]
    BY <1>1, FreeRow
  <2>3. loop \in [Client -> LoopRow]
    BY <1>1, OfNone DEF Cron!Off, LoopRow
  <2>4. cut \in CutRow
    BY <1>1, ServersAssumption DEF Cron!CronAssumption, CutRow
  <2>5. fired \in [Job -> Seq(Int)] /\ wanted \in [Job -> {"unborn", "on", "off", "gone"}]
    BY <1>1
  <2> QED BY <1>1, <2>1, <2>2, <2>3, <2>4, <2>5 DEF CronShapes
<1>3. \A p \in Client : /\ edit[p] = Cron!Free /\ loop[p].at = "off" /\ loop[p].todo = <<>>
                        /\ ~Busy(loop[p]) /\ ~Awake(loop[p])
  BY <1>1 DEF Cron!Off, Busy, Awake
<1>4. Changing
  BY <1>3, FreeRow DEF Changing, Acting
<1>5. tmp.jobs = <<>> /\ ~tmp.there
  BY <1>1 DEF Cron!NoTmp
<1>6. \A j \in Job : fired[j] = <<>> /\ DOMAIN fired[j] = {} /\ wanted[j] = "unborn"
  BY <1>1
<1>7. Lists
  BY <1>1, <1>3, <1>5, FreeRow, OfNone DEF Lists, Nowhere, Adds
<1>8. Times
  BY <1>3, <1>6 DEF Times
<1>9. \A j \in Job : Stands(j)
  BY <1>1, <1>3, <1>6, FreeRow, OfNone DEF Stands, Meets
<1>10. \A j \in Job : Marks(j) /\ Spaced(fired[j], j)
  BY <1>1, <1>3, <1>6, FreeRow, OfNone DEF Marks, Spaced
<1> QED BY <1>2, <1>4, <1>7, <1>8, <1>9, <1>10 DEF CronInv

LEMMA InvRunsJobs == ASSUME CronInv PROVE Cron!JobsDoAsAsked
<1>1. Cron!FiresOnSchedule
  <2> SUFFICES ASSUME NEW j \in Job \ (cut.marks \cup cut.lines),
                      NEW i \in DOMAIN fired[j], NEW k \in DOMAIN fired[j], i < k
               PROVE  Apart(fired[j][i], fired[j][k], j)
    BY Zenon DEF Cron!FiresOnSchedule, Apart
  <2> QED BY Zenon DEF CronInv, Spaced
<1>2. Cron!EditsStand
  <2> SUFFICES ASSUME NEW j \in Job \ cut.lines
               PROVE  /\ Cron!Has(file, j) <=> wanted[j] \in {"on", "off"}
                      /\ \A i \in DOMAIN file : file[i].id = j => file[i].enabled = (wanted[j] = "on")
    BY Zenon DEF Cron!EditsStand
  <2>1. Meets(Of(file, j), wanted[j])
    BY Zenon DEF CronInv, Stands
  <2>2. Cron!Has(file, j) <=> Of(file, j) # {}
    BY Parts, OfList
  <2>3. \A i \in DOMAIN file : file[i].id = j => file[i] \in Of(file, j)
    BY Parts, OfList
  <2> QED BY Zenon, <2>1, <2>2, <2>3 DEF Meets
<1> QED BY <1>1, <1>2 DEF Cron!JobsDoAsAsked

CronPart == part = "cron" => CronInv

\* A job runs when its schedule says and what was asked of it stands, across edits beside
\* its runs, failed reads and writes, and kills in between: for any jobs, of any types and
\* values, and any number of processes that share the file without a lock.
THEOREM ServicesRunJobs == Spec => []JobsDoAsAsked
<1>1. Init => CronPart
  BY CronInitially DEF Init, CronPart
<1>2. CronPart /\ [Next]_vars => CronPart'
  <2> SUFFICES ASSUME CronPart, [Next]_vars, part' = "cron" PROVE CronInv'
    BY DEF CronPart
  <2>1. part = "cron" /\ [Cron!CronNext]_(Cron!cronVars)
    <3>1. CASE Next
      BY <3>1 DEF Next
    <3>2. CASE UNCHANGED vars
      BY <3>2 DEF vars, after5, Cron!cronVars
    <3> QED BY <3>1, <3>2
  <2> QED BY <2>1, CronStep DEF CronPart
<1>3. CronPart => JobsDoAsAsked
  BY InvRunsJobs DEF CronPart, JobsDoAsAsked
<1> QED BY <1>1, <1>2, <1>3, PTL DEF Spec
-------------------------------------------------------------------------------
(* The turns of an agent. *)

TurnPart == part = "turn" => Loop!TurnInv

(* TurnsAreFaithful, for any provider API, any number of requests, tools   *)
(* and workers, and any window: a history replays through compaction,      *)
(* interrupts and forced answers, no tool runs that was not asked for or   *)
(* twice, and the meter is a floor of the bill (AgentTurn).                *)
THEOREM ServicesTurnsAreFaithful == Spec => []TurnsAreFaithful
<1>1. Init => TurnPart
  BY Loop!TurnInitially, ServersAssumption DEF Init, TurnPart
<1>2. TurnPart /\ [Next]_vars => TurnPart'
  <2> SUFFICES ASSUME TurnPart, [Next]_vars PROVE TurnPart'
    OBVIOUS
  <2> SUFFICES ASSUME part' = "turn" PROVE Loop!TurnInv'
    BY DEF TurnPart
  <2>1. part = "turn" /\ [Loop!TurnNext]_(Loop!turnVars)
    BY DEF Next, vars, after5, Loop!turnVars
  <2> QED BY <2>1, Loop!TurnStep, ServersAssumption DEF TurnPart
<1>3. TurnPart => TurnsAreFaithful
  BY Loop!InvTurns, ServersAssumption DEF TurnPart, TurnsAreFaithful
<1> QED BY <1>1, <1>2, <1>3, PTL DEF Spec

-------------------------------------------------------------------------------
(* The steers of a run, in the names of SteeringBudget. *)

used == v1
turn == v3
call == v4
inbox == v5
trail == v6

USE DEF used, turn, call, inbox, trail

IdleSteer == [pc : {"idle"}, accepted : BOOLEAN, parked : SUBSET Steering!Event]

SteerRow ==
    [pc : {"local", "unwind", "inject", "accepted", "publish", "done"}, proc : Process,
     leaf : Leaf, turn : Nat, accepted : BOOLEAN, parked : SUBSET Steering!Event]

InboxRow ==
    [at : {"none", "queued", "release", "tell", "told"}, outcome : {"read", "discarded"}]

SteerShapes ==
    /\ call \in [Call -> IdleSteer \cup SteerRow]
    /\ inbox \in [Call -> InboxRow]
    /\ trail \in [Call -> Seq(Steering!Event)]
    /\ turn \in [Process -> [Leaf -> [open : BOOLEAN, n : Nat]]]

\* The durable count has a slot for it: under way, or delivered.
Counts(c, i) ==
    \/ c.pc \in {"local", "inject", "unwind"}
    \/ i.at \in {"queued", "release"}
    \/ i.at \in {"tell", "told"} /\ i.outcome = "read"

Counted == {s \in Call : Counts(call[s], inbox[s])}

(* Where the caller is, where the core is with its steer, and what the     *)
(* audit says of it, agree: before the steer is queued, once it is refused,*)
(* while the caller has not said it was accepted, and after.               *)
Story(c, i, t) ==
    /\ c.pc \in {"idle", "local", "inject"} =>
          i.at = "none" /\ t = <<>> /\ ~c.accepted /\ c.parked = {}
    /\ c.pc = "unwind" =>
          /\ i.at = "none" /\ t = <<>> /\ ~c.accepted
          /\ c.parked \in {{"exhausted"}, {"rejected"}}
    /\ c.pc = "done" /\ ~c.accepted =>
          i.at = "none" /\ t \in {<<"exhausted">>, <<"rejected">>}
    /\ c.pc \in {"accepted", "publish"} =>
          /\ i.at # "none" /\ ~c.accepted
          /\ t = IF c.pc = "accepted" THEN <<>> ELSE <<"accepted">>
          /\ c.parked = IF i.at = "told" THEN {i.outcome} ELSE {}
    /\ c.pc = "done" /\ c.accepted =>
          /\ i.at # "none"
          /\ t = IF i.at = "told" THEN <<"accepted", i.outcome>> ELSE <<"accepted">>
    /\ i.at = "release" => i.outcome = "discarded"

SteerInv ==
    /\ SteerShapes
    /\ \A s \in Call : Story(call[s], inbox[s], trail[s])
    /\ IsFiniteSet(Counted) /\ used = Cardinality(Counted)

(* One steer moves *)

\* What a step of one steer leaves alone of all others.
OnlySteer(s, c, i, t) ==
    /\ call' = [call EXCEPT ![s] = c]
    /\ inbox' = [inbox EXCEPT ![s] = i]
    /\ trail' = [trail EXCEPT ![s] = t]

\* How the durable count follows: a slot is taken, given back, or left alone.
CountFollows(was, is) ==
    \/ (was <=> is) /\ used' = used
    \/ ~was /\ is /\ used' = used + 1
    \/ was /\ ~is /\ Steering!Release

\* A steer that keeps its story, and its slot in the count, keeps the invariant.
LEMMA SteerMoves ==
    ASSUME SteerInv, NEW s \in Call,
           NEW c \in IdleSteer \cup SteerRow, NEW i \in InboxRow, NEW t \in Seq(Steering!Event),
           OnlySteer(s, c, i, t), UNCHANGED turn,
           Story(c, i, t), CountFollows(Counts(call[s], inbox[s]), Counts(c, i))
    PROVE  SteerInv'
<1>1. SteerShapes' /\ call'[s] = c /\ inbox'[s] = i /\ trail'[s] = t
      /\ \A q \in Call : q # s =>
            call'[q] = call[q] /\ inbox'[q] = inbox[q] /\ trail'[q] = trail[q]
  BY DEF SteerInv, SteerShapes, OnlySteer
<1>2. ASSUME NEW q \in Call PROVE Story(call'[q], inbox'[q], trail'[q])
  <2>1. CASE q = s
    BY <1>1, <2>1
  <2>2. CASE q # s
    BY <1>1, <2>2 DEF SteerInv
  <2> QED BY <2>1, <2>2
<1>3. \A q \in Call : q # s => (q \in Counted' <=> q \in Counted)
  BY <1>1 DEF Counted
<1>4. (s \in Counted <=> Counts(call[s], inbox[s])) /\ (s \in Counted' <=> Counts(c, i))
  BY <1>1 DEF Counted
<1>5. Counted \subseteq Call /\ Counted' \subseteq Call
  BY DEF Counted
<1>6. IsFiniteSet(Counted) /\ used = Cardinality(Counted) /\ used \in Nat
  BY FS_CardinalityType DEF SteerInv
<1>7. IsFiniteSet(Counted') /\ used' = Cardinality(Counted')
  <2>1. CASE (Counts(call[s], inbox[s]) <=> Counts(c, i)) /\ used' = used
    <3>1. \A q \in Call : q \in Counted' <=> q \in Counted
      BY <1>3, <1>4, <2>1
    <3>2. Counted' = Counted
      BY <1>5, <3>1
    <3> QED BY <1>6, <2>1, <3>2
  <2>2. CASE ~Counts(call[s], inbox[s]) /\ Counts(c, i) /\ used' = used + 1
    <3>1. Counted' = Counted \cup {s} /\ s \notin Counted
      BY <1>3, <1>4, <1>5, <2>2
    <3> QED BY <1>6, <2>2, <3>1, FS_AddElement
  <2>3. CASE Counts(call[s], inbox[s]) /\ ~Counts(c, i) /\ Steering!Release
    <3>1. Counted' = Counted \ {s} /\ s \in Counted
      BY <1>3, <1>4, <1>5, <2>3
    <3>2. /\ IsFiniteSet(Counted \ {s}) /\ Cardinality(Counted \ {s}) = Cardinality(Counted) - 1
      BY <1>6, <3>1, FS_RemoveElement
    <3>3. Cardinality(Counted \ {s}) \in Nat
      BY <3>2, FS_CardinalityType
    <3>4. used' = used - 1
      BY <1>6, <2>3, <3>2, <3>3 DEF Steering!Release
    <3> QED BY <1>6, <3>1, <3>2, <3>4
  <2> QED BY <2>1, <2>2, <2>3 DEF CountFollows
<1> QED BY <1>1, <1>2, <1>7 DEF SteerInv

\* What a step of a steer starts from.
LEMMA SteerFacts ==
    ASSUME SteerInv, NEW s \in Call
    PROVE  /\ call[s] \in IdleSteer \cup SteerRow /\ inbox[s] \in InboxRow
           /\ trail[s] \in Seq(Steering!Event) /\ Story(call[s], inbox[s], trail[s])
           /\ call[s].pc # "idle" => call[s] \in SteerRow
           /\ call = [call EXCEPT ![s] = call[s]]
           /\ inbox = [inbox EXCEPT ![s] = inbox[s]]
           /\ trail = [trail EXCEPT ![s] = trail[s]]
           /\ <<>> \in Seq(Steering!Event) /\ \A e \in Steering!Event : <<e>> \in Seq(Steering!Event)
<1>1. /\ call \in [Call -> IdleSteer \cup SteerRow] /\ inbox \in [Call -> InboxRow]
      /\ trail \in [Call -> Seq(Steering!Event)] /\ Story(call[s], inbox[s], trail[s])
  BY DEF SteerInv, SteerShapes
<1>2. call[s].pc # "idle" => call[s] \in SteerRow
  BY <1>1 DEF IdleSteer
<1> QED BY <1>1, <1>2

\* What is appended comes last, and leaves what it is appended to as it was.
LEMMA AppendedLast ==
    ASSUME NEW S, NEW q \in Seq(S), NEW e \in S, Len(q) = 1
    PROVE  Append(q, e)[1] = q[1] /\ Append(q, e)[2] = e
<1>1. /\ \A i \in 1 .. Len(q) : Append(q, e)[i] = q[i]
      /\ Append(q, e)[Len(q) + 1] = e
  BY AppendProperties, ZenonT(40)
<1>2. 1 \in 1 .. Len(q) /\ Len(q) + 1 = 2
  OBVIOUS
<1> QED BY <1>1, <1>2, Zenon

\* The audit's second word.
LEMMA SecondWord ==
    ASSUME NEW o \in Steering!Event
    PROVE  /\ Append(<<"accepted">>, o) = <<"accepted", o>>
           /\ <<"accepted", o>> \in Seq(Steering!Event) /\ <<"accepted">> \in Seq(Steering!Event)
<1> DEFINE one == <<"accepted">>  two == <<"accepted", o>>
<1>1. "accepted" \in Steering!Event
  BY DEF Steering!Event
<1>2. one \in Seq(Steering!Event) /\ Len(one) = 1 /\ one[1] = "accepted"
  BY <1>1
<1>3. two \in Seq(Steering!Event) /\ Len(two) = 2 /\ two[1] = "accepted" /\ two[2] = o
  BY <1>1
<1>4. Append(one, o) = two
  <2> HIDE DEF one, two
  <2>1. Append(one, o) \in Seq(Steering!Event) /\ Len(Append(one, o)) = 2
    <3>1. Append(one, o) \in Seq(Steering!Event) /\ Len(Append(one, o)) = Len(one) + 1
      BY <1>2, AppendProperties
    <3> QED BY <1>2, <3>1
  <2>2. Append(one, o)[1] = "accepted" /\ Append(one, o)[2] = o
    <3>1. Append(one, o)[1] = one[1] /\ Append(one, o)[2] = o
      BY Zenon, <1>2, AppendedLast
    <3> QED BY Zenon, <1>2, <3>1
  <2> QED BY <1>3, <2>1, <2>2, SeqEqual
<1> QED BY <1>2, <1>3, <1>4

(* steer_live_run, step by step *)

\* A slot is taken, or the ceiling refuses.
LEMMA ReserveKeeps ==
    ASSUME SteerInv, NEW s \in Call, NEW p \in Process, NEW l \in Leaf, Steering!Reserve(s, p, l)
    PROVE  SteerInv'
<1> DEFINE row == [pc |-> "local", proc |-> p, leaf |-> l, turn |-> turn[p][l].n,
                   accepted |-> FALSE, parked |-> {}]
           refused == [row EXCEPT !.pc = "done"]
<1>1. row \in SteerRow /\ refused \in SteerRow
  BY DEF SteerInv, SteerShapes, SteerRow
<1>2. /\ row.pc = "local" /\ ~row.accepted /\ row.parked = {}
      /\ refused.pc = "done" /\ ~refused.accepted /\ refused.parked = {}
  OBVIOUS
<1>3. /\ call[s].pc = "idle" /\ UNCHANGED <<turn, inbox>>
      /\ \/ used' = used + 1 /\ call' = [call EXCEPT ![s] = row] /\ UNCHANGED trail
         \/ /\ call' = [call EXCEPT ![s] = refused]
            /\ trail' = [trail EXCEPT ![s] = Append(@, "exhausted")] /\ UNCHANGED used
  BY DEF Steering!Reserve, Steering!Log
<1> HIDE DEF row, refused
<1>4. inbox[s].at = "none" /\ trail[s] = <<>>
  BY <1>3, SteerFacts DEF Story
<1>5. ~Counts(call[s], inbox[s]) /\ Counts(row, inbox[s]) /\ ~Counts(refused, inbox[s])
  BY <1>2, <1>3, <1>4 DEF Counts
<1>6. CASE used' = used + 1 /\ call' = [call EXCEPT ![s] = row] /\ UNCHANGED trail
  <2>1. OnlySteer(s, row, inbox[s], trail[s])
    BY <1>3, <1>6, SteerFacts DEF OnlySteer
  <2>2. Story(row, inbox[s], trail[s])
    BY <1>2, <1>4 DEF Story
  <2> QED BY <1>1, <1>3, <1>5, <1>6, <2>1, <2>2, SteerFacts, SteerMoves DEF CountFollows
<1>7. CASE /\ call' = [call EXCEPT ![s] = refused]
           /\ trail' = [trail EXCEPT ![s] = Append(@, "exhausted")] /\ UNCHANGED used
  <2>1. OnlySteer(s, refused, inbox[s], <<"exhausted">>)
    BY <1>3, <1>4, <1>7, SteerFacts DEF OnlySteer
  <2>2. Story(refused, inbox[s], <<"exhausted">>)
    BY <1>2, <1>4 DEF Story
  <2>3. <<"exhausted">> \in Seq(Steering!Event)
    BY DEF Steering!Event
  <2> QED BY <1>1, <1>3, <1>5, <1>7, <2>1, <2>2, <2>3, SteerFacts, SteerMoves DEF CountFollows
<1> QED BY <1>3, <1>6, <1>7

\* The limits of the process that steers accept it, or the slot is unwound.
LEMMA ReserveLocalKeeps ==
    ASSUME SteerInv, NEW s \in Call, Steering!ReserveLocal(s)
    PROVE  SteerInv'
<1>1. /\ call[s].pc = "local" /\ UNCHANGED <<used, turn, inbox, trail>>
      /\ \/ call' = [call EXCEPT ![s].pc = "inject"]
         \/ call' = [call EXCEPT ![s] = [@ EXCEPT !.pc = "unwind", !.parked = {"exhausted"}]]
  BY DEF Steering!ReserveLocal, Steering!At, Steering!Goto
<1>2. /\ inbox[s].at = "none" /\ trail[s] = <<>> /\ ~call[s].accepted /\ call[s].parked = {}
      /\ call[s] \in SteerRow
  BY <1>1, SteerFacts DEF Story
<1> DEFINE go == [call[s] EXCEPT !.pc = "inject"]
           back == [call[s] EXCEPT !.pc = "unwind", !.parked = {"exhausted"}]
<1>3. /\ go \in SteerRow /\ go.pc = "inject" /\ ~go.accepted /\ go.parked = {}
      /\ back \in SteerRow /\ back.pc = "unwind" /\ ~back.accepted /\ back.parked = {"exhausted"}
  BY <1>2 DEF SteerRow, Steering!Event
<1>4. \/ OnlySteer(s, go, inbox[s], trail[s])
      \/ OnlySteer(s, back, inbox[s], trail[s])
  BY <1>1, SteerFacts DEF OnlySteer
<1> HIDE DEF go, back
<1>5. Story(go, inbox[s], trail[s]) /\ Story(back, inbox[s], trail[s])
  BY <1>2, <1>3 DEF Story
<1>6. Counts(call[s], inbox[s]) /\ Counts(go, inbox[s]) /\ Counts(back, inbox[s])
  BY <1>1, <1>3 DEF Counts
<1> QED BY <1>1, <1>3, <1>4, <1>5, <1>6, SteerFacts, SteerMoves DEF CountFollows

\* A refused steer gives its slot back and is told once.
LEMMA UnwindKeeps ==
    ASSUME SteerInv, NEW s \in Call, Steering!Unwind(s)
    PROVE  SteerInv'
<1>1. PICK why \in call[s].parked : Steering!Log(s, why)
  BY DEF Steering!Unwind
<1>2. /\ call[s].pc = "unwind" /\ UNCHANGED <<turn, inbox>> /\ Steering!Release
      /\ call' = [call EXCEPT ![s] = [@ EXCEPT !.pc = "done", !.parked = {}]]
  BY DEF Steering!Unwind, Steering!At
<1>3. /\ inbox[s].at = "none" /\ trail[s] = <<>> /\ ~call[s].accepted
      /\ why \in {"exhausted", "rejected"} /\ call[s] \in SteerRow
  BY <1>1, <1>2, SteerFacts, ZenonT(60) DEF Story
<1> DEFINE c == [call[s] EXCEPT !.pc = "done", !.parked = {}]
<1>4. c \in SteerRow /\ c.pc = "done" /\ ~c.accepted
  BY <1>3 DEF SteerRow
<1>5. <<why>> \in Seq(Steering!Event) /\ OnlySteer(s, c, inbox[s], <<why>>)
  <2>1. trail' = [trail EXCEPT ![s] = Append(trail[s], why)]
    BY <1>1 DEF Steering!Log
  <2> QED BY <1>2, <1>3, <2>1, SteerFacts DEF Steering!Event, OnlySteer
<1> HIDE DEF c
<1>6. Story(c, inbox[s], <<why>>)
  BY <1>3, <1>4 DEF Story
<1>7. Counts(call[s], inbox[s]) /\ ~Counts(c, inbox[s])
  BY <1>2, <1>3, <1>4 DEF Counts
<1> QED BY <1>2, <1>4, <1>5, <1>6, <1>7, SteerFacts, SteerMoves DEF CountFollows

\* The core queues it into the occurrence the caller saw, or refuses.
LEMMA InjectKeeps ==
    ASSUME SteerInv, NEW s \in Call, Steering!Inject(s)
    PROVE  SteerInv'
<1>1. /\ call[s].pc = "inject" /\ UNCHANGED <<used, turn, trail>>
      /\ \/ inbox' = [inbox EXCEPT ![s].at = "queued"] /\ call' = [call EXCEPT ![s].pc = "accepted"]
         \/ /\ call' = [call EXCEPT ![s] = [@ EXCEPT !.pc = "unwind", !.parked = {"rejected"}]]
            /\ UNCHANGED inbox
  BY DEF Steering!Inject, Steering!At, Steering!Goto
<1>2. /\ inbox[s].at = "none" /\ trail[s] = <<>> /\ ~call[s].accepted /\ call[s].parked = {}
      /\ call[s] \in SteerRow /\ inbox[s] \in InboxRow
  BY <1>1, SteerFacts DEF Story
<1> DEFINE i == [inbox[s] EXCEPT !.at = "queued"]
           go == [call[s] EXCEPT !.pc = "accepted"]
           back == [call[s] EXCEPT !.pc = "unwind", !.parked = {"rejected"}]
<1>3. /\ go \in SteerRow /\ go.pc = "accepted" /\ ~go.accepted /\ go.parked = {}
      /\ back \in SteerRow /\ back.pc = "unwind" /\ ~back.accepted /\ back.parked = {"rejected"}
      /\ i \in InboxRow /\ i.at = "queued"
  BY <1>2 DEF SteerRow, InboxRow, Steering!Event
<1>4. \/ OnlySteer(s, go, i, trail[s])
      \/ OnlySteer(s, back, inbox[s], trail[s])
  BY <1>1, SteerFacts DEF OnlySteer
<1> HIDE DEF go, back, i
<1>5. Story(go, i, trail[s]) /\ Story(back, inbox[s], trail[s])
  BY <1>2, <1>3 DEF Story
<1>6. Counts(call[s], inbox[s]) /\ Counts(go, i) /\ Counts(back, inbox[s])
  BY <1>1, <1>3 DEF Counts
<1> QED BY <1>1, <1>3, <1>4, <1>5, <1>6, SteerFacts, SteerMoves DEF CountFollows

\* The acceptance is told before what came of it.
LEMMA AcceptKeeps ==
    ASSUME SteerInv, NEW s \in Call, Steering!Accept(s)
    PROVE  SteerInv'
<1> DEFINE c == [call[s] EXCEPT !.pc = "publish"]
<1>1. /\ call[s].pc = "accepted" /\ UNCHANGED <<used, turn, inbox>>
      /\ call' = [call EXCEPT ![s].pc = "publish"]
      /\ trail' = [trail EXCEPT ![s] = Append(@, "accepted")]
  BY DEF Steering!Accept, Steering!At, Steering!Goto, Steering!Log
<1>2. /\ trail[s] = <<>> /\ ~call[s].accepted /\ call[s] \in SteerRow /\ inbox[s].at # "none"
      /\ call[s].parked = IF inbox[s].at = "told" THEN {inbox[s].outcome} ELSE {}
      /\ inbox[s].at = "release" => inbox[s].outcome = "discarded"
  BY <1>1, SteerFacts DEF Story
<1>3. c \in SteerRow /\ c.pc = "publish" /\ ~c.accepted /\ c.parked = call[s].parked
  BY <1>2 DEF SteerRow
<1>4. <<"accepted">> \in Seq(Steering!Event) /\ OnlySteer(s, c, inbox[s], <<"accepted">>)
  BY <1>1, <1>2, SteerFacts DEF Steering!Event, OnlySteer
<1> HIDE DEF c
<1>5. Story(c, inbox[s], <<"accepted">>)
  BY <1>2, <1>3 DEF Story
<1>6. Counts(call[s], inbox[s]) <=> Counts(c, inbox[s])
  BY <1>1, <1>3 DEF Counts
<1> QED BY <1>1, <1>3, <1>4, <1>5, <1>6, SteerFacts, SteerMoves DEF CountFollows

\* What was parked before the acceptance is told now.
LEMMA SteerPublishKeeps ==
    ASSUME SteerInv, NEW s \in Call, Steering!Publish(s)
    PROVE  SteerInv'
<1> DEFINE c == [call[s] EXCEPT !.pc = "done", !.accepted = TRUE, !.parked = {}]
           t == IF inbox[s].at = "told" THEN <<"accepted", inbox[s].outcome>> ELSE <<"accepted">>
<1>1. /\ call[s].pc = "publish" /\ UNCHANGED <<used, turn, inbox>>
      /\ call' = [call EXCEPT ![s] = c]
      /\ trail' = [trail EXCEPT ![s] = IF call[s].parked = {} THEN @
                                       ELSE Append(@, CHOOSE o \in call[s].parked : TRUE)]
  BY DEF Steering!Publish, Steering!At
<1>2. /\ trail[s] = <<"accepted">> /\ call[s] \in SteerRow /\ inbox[s].at # "none"
      /\ inbox[s] \in InboxRow
      /\ call[s].parked = IF inbox[s].at = "told" THEN {inbox[s].outcome} ELSE {}
      /\ inbox[s].at = "release" => inbox[s].outcome = "discarded"
  BY <1>1, SteerFacts DEF Story
<1>3. c \in SteerRow /\ c.pc = "done" /\ c.accepted
  BY <1>2 DEF SteerRow
<1>4. trail' = [trail EXCEPT ![s] = t] /\ t \in Seq(Steering!Event)
  <2>1. CASE inbox[s].at = "told"
    <3>1. (CHOOSE o \in call[s].parked : TRUE) = inbox[s].outcome /\ call[s].parked # {}
      BY <1>2, <2>1
    <3>2. inbox[s].outcome \in Steering!Event
      BY <1>2 DEF InboxRow, Steering!Event
    <3>3. Append(<<"accepted">>, inbox[s].outcome) = <<"accepted", inbox[s].outcome>>
          /\ <<"accepted", inbox[s].outcome>> \in Seq(Steering!Event)
      BY <3>2, SecondWord
    <3> QED BY <1>1, <1>2, <2>1, <3>1, <3>3
  <2>2. CASE inbox[s].at # "told"
    BY <1>1, <1>2, <2>2, SteerFacts DEF Steering!Event
  <2> QED BY <2>1, <2>2
<1>5. OnlySteer(s, c, inbox[s], t)
  BY <1>1, <1>4, SteerFacts DEF OnlySteer
<1>6. Story(c, inbox[s], t)
  BY <1>2, <1>3 DEF Story
<1> HIDE DEF c, t
<1>7. Counts(call[s], inbox[s]) <=> Counts(c, inbox[s])
  BY <1>1, <1>3 DEF Counts
<1> QED BY <1>1, <1>3, <1>4, <1>5, <1>6, <1>7, SteerFacts, SteerMoves DEF CountFollows

(* What comes of it, on a thread of the core *)

\* Read it keeps its slot; discarded it will give it back.
LEMMA SteerSettleKeeps ==
    ASSUME SteerInv, NEW s \in Call, NEW outcome \in {"read", "discarded"},
           Steering!Settle(s, outcome)
    PROVE  SteerInv'
<1> DEFINE i == [outcome |-> outcome, at |-> IF outcome = "discarded" THEN "release" ELSE "tell"]
<1>1. /\ inbox[s].at = "queued" /\ UNCHANGED <<used, turn, call, trail>>
      /\ inbox' = [inbox EXCEPT ![s] = i]
  BY DEF Steering!Settle
<1>2. i \in InboxRow /\ i.at = (IF outcome = "discarded" THEN "release" ELSE "tell")
      /\ i.outcome = outcome
  BY DEF InboxRow
<1> HIDE DEF i
<1>3. OnlySteer(s, call[s], i, trail[s])
  BY <1>1, SteerFacts DEF OnlySteer
<1>4. Story(call[s], i, trail[s])
  <2>1. Story(call[s], inbox[s], trail[s]) /\ call[s] \in IdleSteer \cup SteerRow
    BY SteerFacts
  <2> QED BY <1>1, <1>2, <2>1 DEF Story
<1>5. Counts(call[s], inbox[s]) /\ Counts(call[s], i)
  BY <1>1, <1>2 DEF Counts
<1> QED BY <1>1, <1>2, <1>3, <1>4, <1>5, SteerFacts, SteerMoves DEF CountFollows

\* A discarded steer costs nothing anywhere.
LEMMA ReleaseDurableKeeps ==
    ASSUME SteerInv, NEW s \in Call, Steering!ReleaseDurable(s)
    PROVE  SteerInv'
<1> DEFINE i == [inbox[s] EXCEPT !.at = "tell"]
<1>1. /\ inbox[s].at = "release" /\ Steering!Release /\ UNCHANGED <<turn, call, trail>>
      /\ inbox' = [inbox EXCEPT ![s] = i]
  BY DEF Steering!ReleaseDurable
<1>2. inbox[s] \in InboxRow /\ inbox[s].outcome = "discarded"
  BY <1>1, SteerFacts DEF Story
<1>3. i \in InboxRow /\ i.at = "tell" /\ i.outcome = "discarded"
  BY <1>2 DEF InboxRow
<1> HIDE DEF i
<1>4. OnlySteer(s, call[s], i, trail[s])
  BY <1>1, SteerFacts DEF OnlySteer
<1>5. Story(call[s], i, trail[s]) /\ call[s].pc \notin {"local", "inject", "unwind"}
  <2>1. Story(call[s], inbox[s], trail[s]) /\ call[s] \in IdleSteer \cup SteerRow
    BY SteerFacts
  <2> QED BY <1>1, <1>3, <2>1 DEF Story
<1>6. Counts(call[s], inbox[s]) /\ ~Counts(call[s], i)
  BY <1>1, <1>3, <1>5 DEF Counts
<1> QED BY <1>1, <1>3, <1>4, <1>5, <1>6, SteerFacts, SteerMoves DEF CountFollows

\* An outcome that comes before the acceptance is parked, a later one is told.
LEMMA TellKeeps ==
    ASSUME SteerInv, NEW s \in Call, Steering!Tell(s)
    PROVE  SteerInv'
<1> DEFINE i == [inbox[s] EXCEPT !.at = "told"]
           c == [call[s] EXCEPT !.parked = {inbox[s].outcome}]
           t == Append(trail[s], inbox[s].outcome)
<1>1. /\ inbox[s].at = "tell" /\ UNCHANGED <<used, turn>>
      /\ inbox' = [inbox EXCEPT ![s] = i]
      /\ \/ ~call[s].accepted /\ call' = [call EXCEPT ![s] = c] /\ UNCHANGED trail
         \/ call[s].accepted /\ trail' = [trail EXCEPT ![s] = t] /\ UNCHANGED call
  BY DEF Steering!Tell, Steering!MustPark, Steering!Log
<1>2. /\ inbox[s] \in InboxRow /\ call[s] \in SteerRow /\ trail[s] \in Seq(Steering!Event)
      /\ Story(call[s], inbox[s], trail[s])
      /\ call[s].pc \in {"accepted", "publish", "done"}
  <2>1. call[s].pc # "idle"
    BY <1>1, SteerFacts DEF Story
  <2> QED BY <1>1, <2>1, SteerFacts DEF Story, SteerRow
<1>3. i \in InboxRow /\ i.at = "told" /\ i.outcome = inbox[s].outcome
      /\ inbox[s].outcome \in Steering!Event
  BY <1>2 DEF InboxRow, Steering!Event
<1>4. CASE ~call[s].accepted /\ call' = [call EXCEPT ![s] = c] /\ UNCHANGED trail
  <2>1. /\ c \in SteerRow /\ c.pc = call[s].pc /\ ~c.accepted /\ c.parked = {inbox[s].outcome}
    BY <1>2, <1>3, <1>4 DEF SteerRow
  <2>2. OnlySteer(s, c, i, trail[s])
    BY <1>1, <1>4, SteerFacts DEF OnlySteer
  <2> HIDE DEF c, i
  <2>3. Story(c, i, trail[s])
    BY <1>1, <1>2, <1>3, <1>4, <2>1 DEF Story
  <2>4. Counts(call[s], inbox[s]) <=> Counts(c, i)
    BY <1>1, <1>3, <2>1 DEF Counts
  <2> QED BY <1>1, <1>2, <1>3, <2>1, <2>2, <2>3, <2>4, SteerMoves DEF CountFollows
<1>5. CASE call[s].accepted /\ trail' = [trail EXCEPT ![s] = t] /\ UNCHANGED call
  <2>1. call[s].pc = "done" /\ trail[s] = <<"accepted">>
    BY <1>1, <1>2, <1>5 DEF Story
  <2>2. t = <<"accepted", inbox[s].outcome>> /\ t \in Seq(Steering!Event)
    BY <1>3, <2>1, SecondWord
  <2>3. OnlySteer(s, call[s], i, t)
    BY <1>1, <1>5, SteerFacts DEF OnlySteer
  <2> HIDE DEF t, i
  <2>4. Story(call[s], i, t)
    BY <1>1, <1>2, <1>3, <1>5, <2>1, <2>2 DEF Story
  <2>5. Counts(call[s], inbox[s]) <=> Counts(call[s], i)
    BY <1>1, <1>3 DEF Counts
  <2> QED BY <1>1, <1>2, <1>3, <2>2, <2>3, <2>4, <2>5, SteerMoves DEF CountFollows
<1> QED BY <1>1, <1>4, <1>5

(* All of it *)

\* No steer has begun.
LEMMA SteeringInitially == ASSUME Steering!SteeringInit PROVE SteerInv
<1>1. /\ call = [s \in Call |-> [pc |-> "idle", accepted |-> FALSE, parked |-> {}]]
      /\ inbox = [s \in Call |-> [at |-> "none", outcome |-> "read"]]
      /\ trail = [s \in Call |-> <<>>] /\ used = 0
      /\ turn = [p \in Process |-> [l \in Leaf |-> [open |-> TRUE, n |-> 0]]]
  BY DEF Steering!SteeringInit
<1>2. SteerShapes
  BY <1>1 DEF SteerShapes, IdleSteer, InboxRow
<1>3. \A s \in Call : Story(call[s], inbox[s], trail[s])
  BY <1>1 DEF Story
<1>4. Counted = {}
  BY <1>1 DEF Counted, Counts
<1> QED BY <1>1, <1>2, <1>3, <1>4, FS_EmptySet DEF SteerInv

\* Every step keeps the invariant.
LEMMA SteerStep ==
    ASSUME SteerInv, [Steering!SteeringNext]_(Steering!steerVars)
    PROVE  SteerInv'
<1>1. ASSUME NEW s \in Call,
             \/ \E p \in Process, l \in Leaf : Steering!Reserve(s, p, l)
             \/ Steering!ReserveLocal(s) \/ Steering!Unwind(s) \/ Steering!Inject(s)
             \/ Steering!Accept(s) \/ Steering!Publish(s)
             \/ \E outcome \in {"read", "discarded"} : Steering!Settle(s, outcome)
             \/ Steering!ReleaseDurable(s) \/ Steering!Tell(s)
      PROVE  SteerInv'
  BY <1>1, ReserveKeeps, ReserveLocalKeeps, UnwindKeeps, InjectKeeps, AcceptKeeps, SteerPublishKeeps,
     SteerSettleKeeps, ReleaseDurableKeeps, TellKeeps
<1>2. ASSUME UNCHANGED <<used, call, inbox, trail>>,
             turn' \in [Process -> [Leaf -> [open : BOOLEAN, n : Nat]]]
      PROVE  SteerInv'
  BY <1>2 DEF SteerInv, SteerShapes, Counted
<1>3. turn \in [Process -> [Leaf -> [open : BOOLEAN, n : Nat]]]
  BY DEF SteerInv, SteerShapes
<1>4. ASSUME NEW p \in Process,
             Steering!Crash(p) \/ \E l \in Leaf : Steering!TurnEnds(p, l) \/ Steering!Correct(p, l)
      PROVE  SteerInv'
  <2>1. CASE Steering!Crash(p)
    BY <1>2, <1>3, <2>1 DEF Steering!Crash
  <2>2. ASSUME NEW l \in Leaf, Steering!TurnEnds(p, l) PROVE SteerInv'
    <3>1. turn' = [turn EXCEPT ![p][l].open = FALSE] /\ UNCHANGED <<used, call, inbox, trail>>
      BY <2>2 DEF Steering!TurnEnds
    <3>2. turn[p][l] \in [open : BOOLEAN, n : Nat] /\ turn[p] \in [Leaf -> [open : BOOLEAN, n : Nat]]
      BY <1>3
    <3>3. [turn[p][l] EXCEPT !.open = FALSE] \in [open : BOOLEAN, n : Nat]
      BY <3>2
    <3>4. turn' = [turn EXCEPT ![p] = [turn[p] EXCEPT ![l] = [turn[p][l] EXCEPT !.open = FALSE]]]
      BY <3>1
    <3> QED BY <1>2, <1>3, <3>1, <3>2, <3>3, <3>4
  <2>3. ASSUME NEW l \in Leaf, Steering!Correct(p, l) PROVE SteerInv'
    BY <1>2, <1>3, <2>3 DEF Steering!Correct
  <2> QED BY <1>4, <2>1, <2>2, <2>3
<1>5. CASE UNCHANGED Steering!steerVars
  BY <1>2, <1>3, <1>5 DEF Steering!steerVars
<1> QED BY <1>1, <1>4, <1>5 DEF Steering!SteeringNext

\* What the invariant says of a steer (steer_live_run, settle).
LEMMA InvSteers == ASSUME SteerInv PROVE Steering!SteersAreKept
<1>1. used = Cardinality(Steering!Landed \cup Steering!Pending)
  <2>1. Counted = Steering!Landed \cup Steering!Pending
    BY DEF Counted, Counts, Steering!Landed, Steering!Pending
  <2> QED BY <2>1 DEF SteerInv
<1>2. ASSUME NEW s \in Call
      PROVE  /\ trail[s] \in {<<>>, <<"exhausted">>, <<"rejected">>, <<"accepted">>,
                             <<"accepted", inbox[s].outcome>>}
             /\ call[s].pc = "done" /\ inbox[s].at = "told" => Len(trail[s]) = 2
  <2>1. Story(call[s], inbox[s], trail[s])
    BY DEF SteerInv
  <2>2. call[s].pc \in {"idle", "local", "inject", "unwind", "accepted", "publish", "done"}
    BY DEF SteerInv, SteerShapes, IdleSteer, SteerRow
  <2> QED BY <2>1, <2>2 DEF Story
<1>3. \A S : Steering!Cardinality(S) = Cardinality(S)
  BY DEF Steering!Cardinality, Cardinality
<1> QED BY <1>1, <1>2, <1>3 DEF Steering!SteersAreKept

(* A steer counts once and is told once: the durable count is what was     *)
(* delivered plus what is under way, whoever crashes, and the audit tells  *)
(* each steer as one story (supervision.py steer_live_run).                *)
THEOREM SteersStayKept == Steering!SteeringSpec => []Steering!SteersAreKept
<1>1. Steering!SteeringInit => SteerInv
  BY SteeringInitially
<1>2. SteerInv /\ [Steering!SteeringNext]_(Steering!steerVars) => SteerInv'
  BY SteerStep
<1>3. SteerInv => Steering!SteersAreKept
  BY InvSteers
<1> QED BY <1>1, <1>2, <1>3, PTL DEF Steering!SteeringSpec

SteeringPart == part = "steering" => SteerInv

\* SteeringBudget's SteersStayKept, of the part examined here: a steer counts once and
\* is told once, whoever refuses it, discards it or crashes.
THEOREM ServicesKeepSteers == Spec => []SteersAreKept
<1>1. Init => SteeringPart
  BY SteeringInitially DEF Init, SteeringPart
<1>2. SteeringPart /\ [Next]_vars => SteeringPart'
  <2> SUFFICES ASSUME SteeringPart, [Next]_vars, part' = "steering" PROVE SteerInv'
    BY DEF SteeringPart
  <2>1. part = "steering" /\ [Steering!SteeringNext]_(Steering!steerVars)
    <3>1. CASE Next
      BY <3>1 DEF Next
    <3>2. CASE UNCHANGED vars
      BY <3>2 DEF vars, after5, Steering!steerVars
    <3> QED BY <3>1, <3>2
  <2> QED BY <2>1, SteerStep DEF SteeringPart
<1>3. SteeringPart => SteersAreKept
  BY InvSteers DEF SteeringPart, SteersAreKept
<1> QED BY <1>1, <1>2, <1>3, PTL DEF Spec
===============================================================================
