--------------------------- MODULE GatewaySessions ---------------------------
(***************************************************************************)
(* Turns of gateway sessions over one database shared by several processes *)
(* (gateway/manager.py, gateway/session.py, state/compression_lock.py and  *)
(* the session tables of state/db.py), with the durable notices each turn  *)
(* claims, and releases or acknowledges when its fate is known.            *)
(*                                                                         *)
(* A step is one database transaction or one hold of a lock.  A turn is a  *)
(* member of Turn: the worker thread of one prompt.submit, whose uuids     *)
(* (notice token, lock holder, child id) it stands for.  A session's       *)
(* transcript is the sequence of the turns whose messages it holds; a      *)
(* compacted transcript is the sequence of turns it condenses.             *)
(***************************************************************************)
EXTENDS DurableNotices

CONSTANTS Process, Turn, Root,
          MaxAgents,   \* bound: agents ever built
          MaxNotices,  \* bound: notices published by others
          MaxFaults    \* bound: crashes and database errors

(* A session owns notices, a turn's uuid is its token and names no session *)
(* that was there before it.                                               *)
GatewayAssumption ==
    /\ NoticeAssumption
    /\ {Root} \cup Turn \subseteq Owner /\ Turn \subseteq Token /\ Root \notin Turn
    /\ {"report", "error", "interrupted"} \subseteq Fact

VARIABLES
    sessions,  \* the sessions table and its messages: [id -> row]
    lock,      \* compression_locks: [session -> [holder, lapsed]]
    live,      \* SessionManager._sessions of each process: GatewaySession objects
    agents,    \* agents built so far by the agent factory
    turn,      \* [Turn -> its thread]
    faults

sessionVars == <<sessions, lock, live, agents, turn, faults>>
vars == <<noticeVars, sessionVars>>

Session == {Root} \cup Turn    \* a turn that forks names its child
NoSession == NoToken

(* A GatewaySession: the agent it drives and the busy lock it takes, named *)
(* by the agent it was first made for.                                     *)
Object == [session : Session, agent : Nat, lock : Nat]
NoObject == [session |-> Root, agent |-> 0, lock |-> 0]

Outcome == {"none", "complete", "compacted", "error", "interrupted", "raised"}
PC == {"new", "got", "loaded", "talking", "persist", "locked", "ended", "created", "saved",
       "unlock", "cost", "release", "publish", "ack", "done", "busy", "dead"}

TurnRow == [pc : PC, process : Process, object : Object, prior : Seq(Turn),
            token : BOOLEAN, outcome : Outcome, child : BOOLEAN, committed : BOOLEAN]

TypeOK ==
    /\ NoticeTypeOK
    /\ \A s \in DOMAIN sessions :
         /\ sessions[s].transcript \in Seq(Turn)
         /\ sessions[s].parent \in Session \cup {NoSession}
         /\ sessions[s].ended \in BOOLEAN /\ sessions[s].cost \subseteq Turn
    /\ \A s \in DOMAIN lock : lock[s].holder \in Turn /\ lock[s].lapsed \in BOOLEAN
    /\ \A p \in Process : live[p] \subseteq Object
    /\ turn \in [Turn -> TurnRow]
    /\ agents \in Nat /\ faults \in 0..MaxFaults

Fresh(parent) == [parent |-> parent, ended |-> FALSE, transcript |-> <<>>, cost |-> {}]

Init ==
    /\ NoticeInit
    /\ sessions = [s \in {Root} |-> Fresh(NoSession)]
    /\ lock = <<>>
    /\ live = [p \in Process |-> {}]
    /\ agents = 0
    /\ turn \in [Turn -> {[pc |-> "new", process |-> p, object |-> NoObject, prior |-> <<>>,
                           token |-> FALSE, outcome |-> "none", child |-> FALSE,
                           committed |-> FALSE] : p \in Process}]
    /\ faults = 0

ObjectOf(p, s) == {o \in live[p] : o.session = s}

(* Threads of process p inside GatewaySession._run, and the one that forks *)
(* and so holds the manager's lock.                                        *)
Inside(t) == turn[t].pc \in PC \ {"new", "got", "done", "busy", "dead"}
Forking(p) == \E t \in Turn : turn[t].process = p /\ turn[t].pc \in {"ended", "created", "saved"}

Goto(t, pc) == turn' = [turn EXCEPT ![t].pc = pc]

(* root-to-tip lineage of a session, as the set the claim asks for *)
Lineage(s) ==
    LET up[n \in 0..Cardinality(DOMAIN sessions)] ==
          IF n = 0 THEN {s}
          ELSE up[n-1] \cup ({sessions[x].parent : x \in up[n-1]} \ {NoSession})
    IN  up[Cardinality(DOMAIN sessions)]
-----------------------------------------------------------------------------
Busy(p, o) == \E u \in Turn : Inside(u) /\ turn[u].process = p /\ turn[u].object.lock = o.lock
Made(s) == [session |-> s, agent |-> agents + 1, lock |-> agents + 1]

(* SessionManager.create_session with the id of a known session: whatever  *)
(* its row says, it is live again, on an agent of its own.                 *)
Create(p, s) ==
    /\ agents < MaxAgents /\ ~Forking(p) /\ s \in DOMAIN sessions /\ ObjectOf(p, s) = {}
    /\ live' = [live EXCEPT ![p] = @ \cup {Made(s)}]
    /\ agents' = agents + 1
    /\ UNCHANGED <<noticeVars, sessions, lock, turn, faults>>

(* SessionManager.get: a live session, or one revived from a row that was  *)
(* not closed by a compaction; _stream_prompt refuses a busy one.          *)
Get(t, s) ==
    LET p == turn[t].process
        o == IF ObjectOf(p, s) = {} THEN Made(s) ELSE CHOOSE x \in ObjectOf(p, s) : TRUE
    IN  /\ turn[t].pc = "new" /\ ~Forking(p) /\ s \in DOMAIN sessions
        /\ o \in live[p] \/ (~sessions[s].ended /\ agents < MaxAgents)
        /\ live' = [live EXCEPT ![p] = @ \cup {o}]
        /\ agents' = IF o \in live[p] THEN agents ELSE agents + 1
        /\ turn' = [turn EXCEPT ![t].pc = IF Busy(p, o) THEN "busy" ELSE "got", ![t].object = o]
        /\ UNCHANGED <<noticeVars, sessions, lock, faults>>

(* submit: the busy lock is the arbiter, then _run reads the transcript. *)
Submit(t) ==
    /\ turn[t].pc = "got"
    /\ LET o == turn[t].object
       IN  turn' = IF Busy(turn[t].process, o)
                   THEN [turn EXCEPT ![t].pc = "busy"]
                   ELSE [turn EXCEPT ![t].pc = "loaded",
                                     ![t].prior = sessions[o.session].transcript]
    /\ UNCHANGED <<noticeVars, sessions, lock, live, agents, faults>>

(* claim_lineage_notices: no rows, no token. *)
ClaimNotices(t) ==
    LET owners == Lineage(turn[t].object.session)
    IN  /\ turn[t].pc = "loaded"
        /\ Claim(owners, t)
        /\ turn' = [turn EXCEPT ![t].pc = "talking", ![t].token = Claimable(owners) # {}]
        /\ UNCHANGED <<sessions, lock, live, agents, faults>>

(* run_conversation returns a result, or raises; _persist then branches. *)
Converse(t) ==
    /\ turn[t].pc = "talking"
    /\ \E out \in Outcome \ {"none"} :
         turn' = [turn EXCEPT ![t].outcome = out,
                              ![t].pc = CASE out = "raised" -> "release"
                                          [] out \in {"error", "interrupted"} -> "cost"
                                          [] OTHER -> "persist"]
    /\ UNCHANGED <<noticeVars, sessions, lock, live, agents, faults>>

(* save_messages appends what the turn added, whatever others added since. *)
Append1(t) ==
    /\ turn[t].pc = "persist" /\ turn[t].outcome = "complete"
    /\ sessions' = [sessions EXCEPT ![turn[t].object.session].transcript = Append(@, t)]
    /\ turn' = [turn EXCEPT ![t].pc = "cost", ![t].committed = TRUE]
    /\ UNCHANGED <<noticeVars, lock, live, agents, faults>>

(* acquire_compression_lock: an expired row is deleted, then the primary   *)
(* key decides; any database error means "not ours".                       *)
LockFree(s) == s \in DOMAIN lock => lock[s].lapsed

TryLock(t) ==
    LET s == turn[t].object.session
    IN  /\ turn[t].pc = "persist" /\ turn[t].outcome = "compacted"
        /\ \/ /\ LockFree(s)
              /\ lock' = [x \in DOMAIN lock \cup {s} |->
                            IF x = s THEN [holder |-> t, lapsed |-> FALSE] ELSE lock[x]]
              /\ Goto(t, "locked")
           \/ ~LockFree(s) /\ Goto(t, "cost") /\ UNCHANGED lock
        /\ UNCHANGED <<noticeVars, sessions, live, agents, faults>>

(* fork_for_compaction, under the manager's lock: one commit each to close *)
(* the parent, create the child and save its transcript.                   *)
EndParent(t) ==
    /\ turn[t].pc = "locked" /\ ~Forking(turn[t].process)
    /\ sessions' = [sessions EXCEPT ![turn[t].object.session].ended = TRUE]
    /\ Goto(t, "ended")
    /\ UNCHANGED <<noticeVars, lock, live, agents, faults>>

CreateChild(t) ==
    /\ turn[t].pc = "ended"
    /\ sessions' = [x \in DOMAIN sessions \cup {t} |->
                      IF x = t THEN Fresh(turn[t].object.session) ELSE sessions[x]]
    /\ turn' = [turn EXCEPT ![t].pc = "created", ![t].child = TRUE]
    /\ UNCHANGED <<noticeVars, lock, live, agents, faults>>

SaveChild(t) ==
    /\ turn[t].pc = "created"
    /\ sessions' = [sessions EXCEPT ![t].transcript = @ \o Append(turn[t].prior, t)]
    /\ turn' = [turn EXCEPT ![t].pc = "saved", ![t].committed = TRUE]
    /\ UNCHANGED <<noticeVars, lock, live, agents, faults>>

(* The child shares the parent's agent, and the busy lock of the parent    *)
(* it replaces in the manager, if the manager still had one.               *)
Heir(o, registered, t) ==
    [session |-> t, agent |-> o.agent,
     lock |-> IF registered = {} THEN agents + 1 ELSE (CHOOSE x \in registered : TRUE).lock]

Register(t) ==
    LET p == turn[t].process
        o == turn[t].object
        registered == ObjectOf(p, o.session)
    IN  /\ turn[t].pc = "saved"
        /\ live' = [live EXCEPT ![p] = (@ \ registered) \cup {Heir(o, registered, t)}]
        /\ agents' = agents + 1
        /\ Goto(t, "unlock")
        /\ UNCHANGED <<noticeVars, sessions, lock, faults>>

Dropped(f, s) == [x \in DOMAIN f \ {s} |-> f[x]]

(* release_compression_lock deletes the row only of its own holder. *)
Unlock(t) ==
    LET s == turn[t].object.session
        mine == s \in DOMAIN lock /\ lock[s].holder = t
    IN  /\ turn[t].pc = "unlock"
        /\ lock' = IF mine THEN Dropped(lock, s) ELSE lock
        /\ Goto(t, IF turn[t].committed THEN "cost" ELSE "release")
        /\ UNCHANGED <<noticeVars, sessions, live, agents, faults>>

(* The notices are acknowledged only once the transcript is committed. *)
Fate(r) == IF r.committed THEN "ack" ELSE "release"

(* _record_session_cost: on the child of a fork, else on the session. *)
RecordCost(t) ==
    LET r == turn[t]
    IN  /\ r.pc = "cost"
        /\ sessions' = [sessions EXCEPT ![IF r.child THEN t ELSE r.object.session].cost = @ \cup {t}]
        /\ Goto(t, Fate(r))
        /\ UNCHANGED <<noticeVars, lock, live, agents, faults>>
-----------------------------------------------------------------------------
ReleaseNotices(t) ==
    /\ turn[t].pc = "release"
    /\ IF turn[t].token THEN Release(t) ELSE UNCHANGED noticeVars
    /\ Goto(t, IF turn[t].outcome \in {"error", "interrupted"} THEN "publish" ELSE "done")
    /\ UNCHANGED <<sessions, lock, live, agents, faults>>

(* Equal deaths of one session are one fact. *)
PublishDeadTurn(t) ==
    /\ turn[t].pc = "publish"
    /\ Publish(turn[t].object.session, turn[t].outcome)
    /\ Goto(t, "done")
    /\ UNCHANGED <<sessions, lock, live, agents, faults>>

AckNotices(t) ==
    /\ turn[t].pc = "ack"
    /\ IF turn[t].token THEN Ack(t) ELSE UNCHANGED noticeVars
    /\ Goto(t, "done")
    /\ UNCHANGED <<sessions, lock, live, agents, faults>>

(* A background run reports to the session that launched it. *)
PublishFact(o, f) ==
    /\ nextId <= MaxNotices /\ o \in DOMAIN sessions
    /\ Publish(o, f)
    /\ UNCHANGED sessionVars

(* A transaction of _persist fails: the exception leaves through the lock  *)
(* and the turn gives its notices back.                                    *)
PersistFails(t) ==
    /\ faults < MaxFaults /\ faults' = faults + 1
    /\ \/ turn[t].pc = "persist" /\ turn[t].outcome = "complete"
       \/ turn[t].pc \in {"locked", "ended", "created"}
    /\ Goto(t, IF turn[t].pc = "persist" THEN "release" ELSE "unlock")
    /\ UNCHANGED <<noticeVars, sessions, lock, live, agents>>

Crash(p) ==
    /\ faults < MaxFaults /\ faults' = faults + 1
    /\ turn' = [t \in Turn |-> IF turn[t].process = p /\ turn[t].pc # "done" /\ turn[t].pc # "new"
                               THEN [turn[t] EXCEPT !.pc = "dead"] ELSE turn[t]]
    /\ live' = [live EXCEPT ![p] = {}]
    /\ UNCHANGED <<noticeVars, sessions, lock, agents>>

LockLapses(s) ==
    /\ s \in DOMAIN lock /\ ~lock[s].lapsed
    /\ lock' = [lock EXCEPT ![s].lapsed = TRUE]
    /\ UNCHANGED <<noticeVars, sessions, live, agents, turn, faults>>

ClockMoves ==
    /\ \/ \E r \in board : Expire(r)
       \/ \E t \in Turn : Lapse(t)
    /\ UNCHANGED sessionVars

Step(t) ==
    \/ \E s \in Session : Get(t, s)
    \/ Submit(t) \/ ClaimNotices(t) \/ Converse(t)
    \/ Append1(t) \/ TryLock(t) \/ EndParent(t) \/ CreateChild(t) \/ SaveChild(t)
    \/ Register(t) \/ Unlock(t) \/ RecordCost(t)
    \/ ReleaseNotices(t) \/ PublishDeadTurn(t) \/ AckNotices(t)
    \/ PersistFails(t)

Next ==
    \/ \E t \in Turn : Step(t)
    \/ \E o \in Owner : PublishFact(o, "report")
    \/ \E p \in Process : Crash(p) \/ \E s \in Session : Create(p, s)
    \/ \E s \in Session : LockLapses(s)
    \/ ClockMoves

Spec == Init /\ [][Next]_vars
-----------------------------------------------------------------------------
(* A notice disappears only with an explanation: it is on the board, or in *)
(* the trail with the reason it went, and only an owner whose trail is     *)
(* full may have lost one from sight (notice_trail.py:20-30).  "acked" is  *)
(* said of one turn only, whose messages were saved to a session of the    *)
(* lineage: a turn that died, lost its fork or could not persist leaves    *)
(* its notices to the next one, however late it answers.                   *)
AckedOnce(k) ==
    /\ turn[trail[k].token].committed
    /\ \E s \in DOMAIN sessions : trail[k].token \in Range(sessions[s].transcript)
    /\ \A j \in DOMAIN trail : trail[j].id = trail[k].id => j = k

NoticesExplained ==
    /\ \A i \in 1..(nextId - 1) :
        \/ \E r \in board : r.id = i
        \/ \E k \in DOMAIN trail : trail[k].id = i
        \/ \E o \in Owner : Cardinality({k \in DOMAIN trail : trail[k].owner = o}) = TrailCap
    /\ \A k \in DOMAIN trail : trail[k].reason = "acked" => AckedOnce(k)

(* gateway/manager.py:90-91: the compaction lock keeps two processes from  *)
(* forking one session into divergent children.                            *)
OneChildPerParent ==
    \A s, u \in DOMAIN sessions :
        sessions[s].parent # NoSession /\ sessions[s].parent = sessions[u].parent => s = u
=============================================================================
