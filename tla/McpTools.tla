------------------------------- MODULE McpTools -------------------------------
(***************************************************************************)
(* The tools of external MCP servers in one process: mcp/session.py (an    *)
(* event loop on a thread of its own behind a synchronous facade),         *)
(* mcp/manager.py (connect, refresh, shutdown), mcp/tools.py and           *)
(* tools/registry.py (who owns a public name), workflow/sandbox.py (which  *)
(* servers a leaf may call).                                               *)
(*                                                                         *)
(* One manager, the session threads and leaves that call by name act at    *)
(* any moment; a registry operation, under its lock, is one action.        *)
(***************************************************************************)
EXTENDS Naturals

CONSTANTS Server,       \* configured servers, named by their exact identity
          Name,         \* public names: mcp_{server}_{tool}, sanitized
          Builtin,      \* names a built-in registered first
          Listings,     \* what a server may list, sanitized: sets of names
          Leaf,         \* leaves of runs, each with a call at a time
          Allow,        \* Allow[l]: the servers leaf l may call, none if its run is tainted
          Nobody,
          MaxRefreshes  \* bound: refreshes

VARIABLES
    entries,  \* _entries: the toolset that owns each public name
    session,  \* per server: where its thread is, and whether it was told to stop
    manager,  \* the thread in connect_all, refresh or shutdown, what it tracks;
              \* told: what each server listed last; late: whom it gave up on
    call      \* per leaf: a call by name

mcpVars == <<entries, session, manager, call>>

Toolset == Server \cup {"none", "builtin"}

McpAssumption ==
    /\ Name # {} /\ Builtin \subseteq Name /\ Listings \subseteq SUBSET Name
    /\ "none" \notin Server /\ "builtin" \notin Server
    /\ Allow \in [Leaf -> SUBSET Server]
    /\ Nobody \notin Server /\ MaxRefreshes \in Nat

Owned(s) == {n \in Name : entries[n] = s}

McpTypeOK ==
    /\ \A n \in Name : entries[n] \in Toolset
    /\ \A s \in Server :
         /\ session[s].at \in {"none", "opening", "serving", "over"}
         /\ session[s].failed \in BOOLEAN /\ session[s].stop \in BOOLEAN
    /\ manager.pc \in {"idle", "wait", "list", "publish", "relist", "republish",
                       "close", "join", "down"}
    /\ manager.at \in Server \cup {Nobody}
    /\ manager.todo \subseteq Server /\ manager.tracked \subseteq Server \ manager.todo
    /\ manager.refreshes \in 0..MaxRefreshes
    /\ \A l \in Leaf : call[l].pc \in {"idle", "judged", "handler", "sent"}

McpInit ==
    /\ entries = [n \in Name |-> IF n \in Builtin THEN "builtin" ELSE "none"]
    /\ session = [s \in Server |-> [at |-> "none", failed |-> FALSE, stop |-> FALSE]]
    /\ manager = [pc |-> "idle", at |-> Nobody, todo |-> Server, tracked |-> {},
                  closing |-> FALSE, listed |-> {}, told |-> [s \in Server |-> {}],
                  refreshes |-> 0, late |-> {}]
    /\ call = [l \in Leaf |-> [pc |-> "idle", name |-> CHOOSE n \in Name : TRUE,
                               server |-> Nobody]]
-----------------------------------------------------------------------------
(* The thread of a session (ThreadedMCPSession._run, _serve) *)

Thread(s, at, failed) ==
    /\ session' = [session EXCEPT ![s].at = at, ![s].failed = failed]
    /\ UNCHANGED <<entries, manager, call>>

\* The opener yields, early or late: nobody tells it that its caller gave up.
Opened(s) == session[s].at = "opening" /\ Thread(s, "serving", FALSE)

\* It cannot connect, or the connection breaks under it.
Broken(s) == session[s].at \in {"opening", "serving"} /\ Thread(s, "over", TRUE)

\* Told to stop it leaves the connection, which may raise too.
Left(s) ==
    /\ session[s].at = "serving" /\ session[s].stop
    /\ \E failed \in BOOLEAN : Thread(s, "over", failed)

(* _submit: whether a coroutine is scheduled at all. *)
Connected(s) == session[s].at = "serving" /\ ~session[s].failed
-----------------------------------------------------------------------------
(* The manager *)

At(pc) == manager.pc = pc
Here == manager.at
Manager(pc) == [manager EXCEPT !.pc = pc]

\* connect_all goes on with the next server, a closing shutdown with the next
\* session; a refresh returns.
Done == [Manager("idle") EXCEPT !.at = Nobody, !.listed = {}]

(* ThreadedMCPSession(): start the thread and wait for it to be ready. *)
Connect(s) ==
    /\ At("idle") /\ s \in manager.todo
    /\ session' = [session EXCEPT ![s].at = "opening"]
    /\ manager' = [Manager("wait") EXCEPT !.at = s, !.todo = @ \ {s}]
    /\ UNCHANGED <<entries, call>>

Ready ==
    /\ At("wait") /\ session[Here].at \in {"serving", "over"}
    /\ manager' = IF session[Here].failed THEN Done ELSE Manager("list")
    /\ UNCHANGED <<entries, session, call>>

\* The constructor raises: there is no session to close, and its thread goes on.
ConnectTimedOut ==
    /\ At("wait") /\ session[Here].at = "opening"
    /\ manager' = [Done EXCEPT !.late = @ \cup {Here}]
    /\ UNCHANGED <<entries, session, call>>

(* list_tools: the whole listing, or an error, a dead session, a timeout. *)
List ==
    /\ \E pc \in {"list", "relist"} : At(pc)
    /\ \/ \E listing \in Listings :
            /\ Connected(Here)
            /\ manager' = [Manager(IF At("list") THEN "publish" ELSE "republish")
                             EXCEPT !.listed = listing]
       \/ manager' = IF At("list") THEN Manager("close") ELSE Done
    /\ UNCHANGED <<entries, session, call>>

(* register_mcp_batch: a name of another server refuses the listing, a     *)
(* built-in keeps its name.                                                *)
Foreign(s, listing) == {n \in listing : entries[n] \in Server \ {s}}
Accepted(listing) == {n \in listing : entries[n] # "builtin"}

Publish ==
    /\ At("publish") \/ At("republish")
    /\ IF Foreign(Here, manager.listed) = {}
       THEN /\ entries' = [n \in Name |-> IF n \in Accepted(manager.listed)
                                          THEN Here ELSE entries[n]]
            /\ manager' = [Done EXCEPT !.tracked = @ \cup {Here}, !.told[Here] = manager.listed]
       ELSE /\ manager' = IF At("publish") THEN Manager("close") ELSE Done
            /\ UNCHANGED entries
    /\ UNCHANGED <<session, call>>

(* close: tell the loop to stop, wait for its thread, close the loop, which *)
(* raises if the thread is still there: logged, by whoever called.          *)
Close ==
    /\ At("close")
    /\ session' = [session EXCEPT ![Here].stop = TRUE]
    /\ manager' = Manager("join")
    /\ UNCHANGED <<entries, call>>

Joined ==
    /\ At("join")          \* the thread ended, or thirty seconds passed
    /\ manager' = Done
    /\ UNCHANGED <<entries, session, call>>

(* deregister_toolset: select by owner and remove, in one hold of the lock. *)
Without(s) == [n \in Name |-> IF entries[n] = s THEN "none" ELSE entries[n]]

(* refresh: nuke and repave. *)
Refresh(s) ==
    /\ At("idle") /\ manager.todo = {} /\ ~manager.closing
    /\ s \in manager.tracked /\ manager.refreshes < MaxRefreshes
    /\ entries' = Without(s)
    /\ manager' = [Manager("relist") EXCEPT !.at = s, !.refreshes = @ + 1, !.told[s] = {}]
    /\ UNCHANGED <<session, call>>

(* shutdown: for each session, its tools first; then forget them all. *)
ShutDownOne(s) ==
    /\ At("idle") /\ manager.todo = {} /\ s \in manager.tracked
    /\ entries' = Without(s)
    /\ manager' = [Manager("close") EXCEPT !.at = s, !.closing = TRUE, !.tracked = @ \ {s}]
    /\ UNCHANGED <<session, call>>

ShutDown ==
    /\ At("idle") /\ manager.todo = {} /\ manager.tracked = {}
    /\ manager' = Manager("down")
    /\ UNCHANGED <<entries, session, call>>
-----------------------------------------------------------------------------
(* A leaf calls a tool by its name *)

CallAt(l, pc) ==
    /\ call' = [call EXCEPT ![l].pc = pc]
    /\ UNCHANGED <<entries, session, manager>>

(* _mcp_denial: an mcp_ name is for the server its entry belongs to; no    *)
(* entry, or a built-in of such a name, has no server to be allowed.       *)
MayCall(l, toolset) == toolset \in Allow[l]

(* sandbox_dispatch's preflight; a refusal is the call's result. *)
Preflight(l, n) ==
    /\ call[l].pc = "idle" /\ MayCall(l, entries[n])
    /\ call' = [call EXCEPT ![l].pc = "judged", ![l].name = n]
    /\ UNCHANGED <<entries, session, manager>>

\* Mutant: the preflight's verdict is kept, the handler looked up by name.
Permitted_Before(l, n) == entries[n] \in Server

\* The entry whose handler runs is the entry the guards judge again.
Permitted(l, n) == MayCall(l, entries[n])

(* registry.dispatch: one snapshot of the entry, then its handler. *)
Dispatch(l) ==
    /\ call[l].pc = "judged"
    /\ \/ /\ Permitted(l, call[l].name)
          /\ call' = [call EXCEPT ![l].pc = "handler", ![l].server = entries[call[l].name]]
       \/ /\ ~Permitted(l, call[l].name)
          /\ call' = [call EXCEPT ![l].pc = "idle"]
    /\ UNCHANGED <<entries, session, manager>>

(* The handler: fail fast on a dead session, else wait. *)
Send(l) ==
    /\ call[l].pc = "handler"
    /\ CallAt(l, IF Connected(call[l].server) THEN "sent" ELSE "idle")

(* The answer, or 120 seconds: the loop may end without resolving it. *)
Answered(l) == call[l].pc = "sent" /\ CallAt(l, "idle")

McpNext ==
    \/ \E s \in Server :
         Opened(s) \/ Broken(s) \/ Left(s) \/ Connect(s) \/ Refresh(s) \/ ShutDownOne(s)
    \/ Ready \/ ConnectTimedOut \/ List \/ Publish \/ Close \/ Joined \/ ShutDown
    \/ \E l \in Leaf :
         (\E n \in Name : Preflight(l, n)) \/ Dispatch(l) \/ Send(l) \/ Answered(l)

McpSpec == McpInit /\ [][McpNext]_mcpVars
-----------------------------------------------------------------------------
(* Properties *)

(* However names change hands between the two checks and the call, a leaf's *)
(* call reaches only a server its run allows: the registry never judges one *)
(* entry and then runs the handler of another.                             *)
CallsGoWhereAllowed ==
    \A l \in Leaf : call[l].pc \in {"handler", "sent"} => call[l].server \in Allow[l]

(* A server owns what it listed last, whole but for the built-ins' names,  *)
(* or nothing: no failed connect, collision or refresh publishes a part.   *)
ListingsAreWhole ==
    \A s \in Server :
      ~(Owned(s) = {} /\ s \notin manager.tracked) => Owned(s) = manager.told[s] \ Builtin

(* Once the manager is done, whoever has tools is tracked and is asked to  *)
(* stop at the end; a connection nobody tracks was told to stop, but for   *)
(* one whose opening outlived the constructor's patience.                  *)
NothingIsLeftOpen ==
    At("idle") =>
        \A s \in Server :
          /\ Owned(s) # {} => s \in manager.tracked
          /\ Connected(s) => s \in manager.tracked \/ session[s].stop \/ s \in manager.late
=============================================================================
