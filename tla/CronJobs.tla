------------------------------- MODULE CronJobs -------------------------------
(***************************************************************************)
(* Scheduled jobs: the file that holds them (cron/store.py), the loop that *)
(* runs what is due (cron/scheduler.py, cron/schedule.py) and the edits of *)
(* the cronjob tool (cron/tool.py) and of the command line.                *)
(*                                                                         *)
(* A process has one store: the loop and the tool handlers of a dashboard  *)
(* share its lock, and a command line or a chat is a process of its own,   *)
(* with a lock of its own.  Nothing locks the file.  A change reads it,    *)
(* writes what it makes of it to one temporary name that all processes     *)
(* share, and renames that over the file.  A tick reads the list once and  *)
(* then goes through it with no lock: what it runs may have been paused or *)
(* removed since.                                                          *)
(*                                                                         *)
(* A file that cannot be read, or was torn, reads as no jobs at all.  A    *)
(* handle that outlives the rename of its name is not modelled.            *)
(*                                                                         *)
(* Time is counted in half minutes.  uuids are fresh: a job id is added    *)
(* once.  A run reports nothing that the loop reads, so it only takes time *)
(* and its failure is its end.                                             *)
(***************************************************************************)
EXTENDS Integers, Sequences

CONSTANTS
    Client,    \* processes that open the store
    Job,
    Schedule,  \* what each job was added with: its type, and its value, which is a time
               \* for "once", and minutes for "interval" and "cron"
    MaxTime,   \* half minutes that pass at most
    MaxMoves   \* loops started, changes of the list asked for, processes killed, and
               \* reads and writes that fail, together at most

CronAssumption ==
    /\ Schedule \in [Job -> [type : {"once", "interval", "cron"}, value : Nat \ {0}]]
    /\ MaxMoves \in Nat

VARIABLES
    file,    \* HOME/cron/jobs.json
    tmp,     \* jobs.json.tmp, which may not be there
    edit,    \* per process: the change in progress under its lock
    loop,    \* per process: where its tick stands
    clock,
    fired,   \* per job: when its runs were started
    wanted,  \* per job: what the last acknowledged edit asked for
    cut      \* [marks, lines: the jobs that an event below took its mark or its
             \* line from; left: how many moves there may still be]

cronVars == <<file, tmp, edit, loop, clock, fired, wanted, cut>>

Never == 0 - 1
NoTmp == [there |-> FALSE, jobs |-> <<>>]
Torn == [there |-> TRUE, jobs |-> <<>>]
Free == [by |-> "none", op |-> "none", job |-> "none", jobs |-> <<>>, at |-> "free"]
Off == [at |-> "off", now |-> 0, todo |-> <<>>]
Asleep(t) == [at |-> "asleep", now |-> t, todo |-> <<>>]

NewJob(j) == [id |-> j, enabled |-> TRUE, last |-> Never]
Has(jobs, j) == \E i \in DOMAIN jobs : jobs[i].id = j
Listed(jobs) == {jobs[i].id : i \in DOMAIN jobs}

CronInit ==
    /\ file = <<>>
    /\ tmp = NoTmp
    /\ edit = [p \in Client |-> Free]
    /\ loop = [p \in Client |-> Off]
    /\ clock = 0
    /\ fired = [j \in Job |-> <<>>]
    /\ wanted = [j \in Job |-> "unborn"]
    /\ cut = [marks |-> {}, lines |-> {}, left |-> MaxMoves]

-----------------------------------------------------------------------------
(* The schedule.                                                           *)

MinuteFloor(t) == t - (t % 2)

Due(job, now) ==
    LET value == Schedule[job.id].value IN
    /\ job.enabled
    /\ CASE Schedule[job.id].type = "once" -> job.last = Never /\ now >= value
         [] Schedule[job.id].type = "interval" ->
                job.last = Never \/ now - job.last >= 2 * value
         [] Schedule[job.id].type = "cron" ->
                (now \div 2) % value = 0 /\ job.last < MinuteFloor(now)

-----------------------------------------------------------------------------
(* The store: what a change makes of the list it read.                     *)

\* An id is in the list at most once, so one entry goes.
Without(jobs, j) ==
    LET gone == CHOOSE i \in DOMAIN jobs : jobs[i].id = j
    IN  [i \in 1 .. Len(jobs) - 1 |-> jobs[IF i < gone THEN i ELSE i + 1]]

Renewed(op, job, now) ==
    IF op = "mark" THEN [job EXCEPT !.last = now] ELSE [job EXCEPT !.enabled = (op = "resume")]

Changed(op, j, jobs, now) ==
    CASE op = "add" -> Append(jobs, NewJob(j))
      [] op = "remove" -> Without(jobs, j)
      [] op \in {"pause", "resume", "mark"} ->
           [i \in DOMAIN jobs |->
               IF jobs[i].id = j THEN Renewed(op, jobs[i], now) ELSE jobs[i]]

\* list() and then a change of what it returned, with the lock taken twice.
ReadFor_Stale(p, op) == IF op = "mark" THEN loop[p].todo ELSE file

ReadFor(p, op) == file

\* Changes of other processes that are in progress: this one and they may undo
\* each other, so what the file says of their jobs is anybody's guess.
Others(p) == {q \in Client \ {p} : edit[q] # Free}
Overlap(p, j) == IF Others(p) = {} THEN {} ELSE {j} \cup {edit[q].job : q \in Others(p)}

\* The lock is taken and the file read; a job that is not there is no change.
Take(p, by, op, j, now, jobs) ==
    /\ edit[p] = Free
    /\ op = "add" \/ Has(jobs, j)
    /\ edit' = [edit EXCEPT ![p] =
           [by |-> by, op |-> op, job |-> j, jobs |-> Changed(op, j, jobs, now),
            at |-> "changed"]]

\* add, remove, set_enabled, from the tool and the routes of a dashboard, from
\* another session's tool, and from the command line.  An add that could not
\* read the file writes a list of its one job; any other finds no job.
Edit(p, op, j) ==
    /\ cut.left > 0
    /\ op = "add" <=> wanted[j] = "unborn"
    /\ op = "add" => \A q \in Client : edit[q].job # j
    /\ \/ /\ Take(p, "tool", op, j, 0, ReadFor(p, op))
          /\ cut' = [cut EXCEPT !.left = @ - 1, !.lines = @ \cup Overlap(p, j)]
       \/ /\ cut.left > 1 /\ op = "add"
          /\ Take(p, "tool", op, j, 0, <<>>)
          /\ cut' = [cut EXCEPT !.left = @ - 2,
                               !.lines = @ \cup Overlap(p, j) \cup Listed(file)]
    /\ UNCHANGED <<file, tmp, loop, clock, fired, wanted>>

WriteTmp(p) ==
    /\ edit[p].at = "changed"
    /\ tmp' = [there |-> TRUE, jobs |-> edit[p].jobs]
    /\ edit' = [edit EXCEPT ![p].at = "written"]
    /\ UNCHANGED <<file, loop, clock, fired, wanted, cut>>

NextJob(l) == [at |-> "going", now |-> l.now, todo |-> Tail(l.todo)]

\* What an acknowledged edit leaves the user expecting.
Asked(op, old) ==
    CASE op \in {"add", "resume"} -> "on" [] op = "pause" -> "off"
      [] op = "remove" -> "gone" [] op = "mark" -> old

\* A change that raises is not acknowledged, and its new id is never used; out
\* of mark_run, which is outside the tick's try, it ends the tick.
Raises(p) ==
    LET e == edit[p] IN
    /\ edit' = [edit EXCEPT ![p] = Free]
    /\ wanted' = IF e.op = "add" THEN [wanted EXCEPT ![e.job] = "gone"] ELSE wanted
    /\ loop' = IF e.by = "loop" THEN [loop EXCEPT ![p] = Asleep(clock + 2)] ELSE loop
Unmarked(p) == IF edit[p].by = "loop" THEN {edit[p].job} ELSE {}

\* os.replace, of whatever has the temporary name: another process may be in
\* the middle of writing it, ...
Replace(p) ==
    LET e == edit[p] IN
    /\ e.at = "written" /\ tmp.there
    /\ edit' = [edit EXCEPT ![p] = Free]
    /\ tmp' = NoTmp
    /\ \/ file' = tmp.jobs /\ UNCHANGED cut
       \/ /\ \E q \in Client \ {p} : edit[q].at = "changed"
          /\ file' = <<>> /\ cut' = [cut EXCEPT !.lines = @ \cup Listed(file)]
    /\ wanted' = [wanted EXCEPT ![e.job] = Asked(e.op, @)]
    /\ loop' = IF e.by = "loop" THEN [loop EXCEPT ![p] = NextJob(@)] ELSE loop
    /\ UNCHANGED <<clock, fired>>

\* ... or have renamed it already.
ReplaceFinds(p) ==
    /\ edit[p].at = "written" /\ ~tmp.there
    /\ Raises(p)
    /\ cut' = [cut EXCEPT !.marks = @ \cup Unmarked(p)]
    /\ UNCHANGED <<file, tmp, clock, fired>>

\* What a write cut short may leave, and whose lines go if that is renamed.
Leavings(p) == IF edit[p].at = "changed" THEN {tmp, Torn} ELSE {tmp}
Spoiled(p, left) ==
    IF left # tmp /\ (\E q \in Client \ {p} : edit[q].at = "written") THEN Listed(file) ELSE {}

\* A disk that is full, a directory that is not ours.
WriteFails(p) ==
    /\ cut.left > 0 /\ edit[p] # Free
    /\ Raises(p)
    /\ tmp' \in Leavings(p)
    /\ cut' = [cut EXCEPT !.left = @ - 1, !.marks = @ \cup Unmarked(p),
                         !.lines = @ \cup Spoiled(p, tmp')]
    /\ UNCHANGED <<file, clock, fired>>

-----------------------------------------------------------------------------
(* tick, and the loop around it.                                           *)

\* A dashboard starts; the command line and a chat have no loop.
Start(p) ==
    /\ cut.left > 0
    /\ loop[p] = Off
    /\ loop' = [loop EXCEPT ![p] = Asleep(clock)]
    /\ cut' = [cut EXCEPT !.left = @ - 1]
    /\ UNCHANGED <<file, tmp, edit, clock, fired, wanted>>

Ticks(p) == loop[p].at \notin {"off", "asleep"}

\* A loop that ticks while another's tick goes on may run what the other runs.
Tick(p) ==
    /\ loop[p].at = "asleep" /\ loop[p].now <= clock
    /\ edit[p] = Free
    /\ \/ /\ loop' = [loop EXCEPT ![p] = [at |-> "going", now |-> clock, todo |-> file]]
          /\ cut' = IF \E q \in Client \ {p} : Ticks(q)
                    THEN [cut EXCEPT !.marks = @ \cup Listed(file)] ELSE cut
       \/ /\ cut.left > 0 /\ cut' = [cut EXCEPT !.left = @ - 1]
          /\ loop' = [loop EXCEPT ![p] = [at |-> "going", now |-> clock, todo |-> <<>>]]
    /\ UNCHANGED <<file, tmp, edit, clock, fired, wanted>>

PassOver(p) ==
    /\ loop[p].at = "going" /\ loop[p].todo # <<>>
    /\ ~Due(Head(loop[p].todo), loop[p].now)
    /\ loop' = [loop EXCEPT ![p] = NextJob(@)]
    /\ UNCHANGED <<file, tmp, edit, clock, fired, wanted, cut>>

RunJob(p) ==
    LET l == loop[p] IN
    /\ l.at = "going" /\ l.todo # <<>>
    /\ Due(Head(l.todo), l.now)
    /\ fired' = [fired EXCEPT ![Head(l.todo).id] = Append(@, l.now)]
    /\ loop' = [loop EXCEPT ![p].at = "running"]
    /\ UNCHANGED <<file, tmp, edit, clock, wanted, cut>>

\* The run returned or raised: either way the job is marked, unless it is gone,
\* or the file cannot be read.
MarkRun(p) ==
    LET l == loop[p]
        j == Head(l.todo).id
    IN
    /\ l.at = "running"
    /\ edit[p] = Free
    /\ \/ /\ Take(p, "loop", "mark", j, l.now, ReadFor(p, "mark"))
          /\ loop' = [loop EXCEPT ![p].at = "marking"]
          /\ cut' = [cut EXCEPT !.lines = @ \cup Overlap(p, j)]
       \/ /\ ~Has(ReadFor(p, "mark"), j)
          /\ loop' = [loop EXCEPT ![p] = NextJob(@)] /\ UNCHANGED <<edit, cut>>
       \/ /\ cut.left > 0
          /\ cut' = [cut EXCEPT !.left = @ - 1, !.marks = @ \cup {j}]
          /\ loop' = [loop EXCEPT ![p] = NextJob(@)] /\ UNCHANGED edit
    /\ UNCHANGED <<file, tmp, clock, fired, wanted>>

EndTick(p) ==
    /\ loop[p].at = "going" /\ loop[p].todo = <<>>
    /\ loop' = [loop EXCEPT ![p] = Asleep(clock + 2)]
    /\ UNCHANGED <<file, tmp, edit, clock, fired, wanted, cut>>

\* The process dies; a new dashboard starts its loop at once.
Kill(p) ==
    LET e == edit[p] IN
    /\ cut.left > 0
    /\ edit' = [edit EXCEPT ![p] = Free]
    /\ tmp' \in Leavings(p)
    /\ wanted' = IF e.op = "add" THEN [wanted EXCEPT ![e.job] = "gone"] ELSE wanted
    /\ loop' = IF loop[p] = Off THEN loop ELSE [loop EXCEPT ![p] = Asleep(clock)]
    /\ cut' = [cut EXCEPT !.left = @ - 1, !.lines = @ \cup Spoiled(p, tmp'),
           !.marks = IF loop[p].at \in {"running", "marking"}
                     THEN @ \cup {Head(loop[p].todo).id} ELSE @]
    /\ UNCHANGED <<file, clock, fired>>

Pass ==
    /\ clock < MaxTime
    /\ clock' = clock + 1
    /\ UNCHANGED <<file, tmp, edit, loop, fired, wanted, cut>>

CronNext ==
    \/ \E p \in Client :
        \/ \E op \in {"add", "remove", "pause", "resume"}, j \in Job : Edit(p, op, j)
        \/ WriteTmp(p) \/ Replace(p) \/ ReplaceFinds(p) \/ WriteFails(p) \/ Kill(p)
        \/ Start(p) \/ Tick(p) \/ PassOver(p) \/ RunJob(p) \/ MarkRun(p) \/ EndTick(p)
    \/ Pass

CronSpec == CronInit /\ [][CronNext]_cronVars
-----------------------------------------------------------------------------
Entry == [id : Job, enabled : BOOLEAN, last : (0 .. MaxTime) \cup {Never}]
IsJobList(jobs) == \A i \in DOMAIN jobs : jobs[i] \in Entry

CronTypeOK ==
    /\ IsJobList(file) /\ IsJobList(tmp.jobs)
    /\ \A p \in Client : IsJobList(edit[p].jobs) /\ IsJobList(loop[p].todo)
    /\ clock \in 0 .. MaxTime

FiresOnSchedule ==
    \A j \in Job \ (cut.marks \cup cut.lines) : \A i, k \in DOMAIN fired[j] : i < k =>
        CASE Schedule[j].type = "once" -> FALSE
          [] Schedule[j].type = "interval" ->
                 fired[j][k] - fired[j][i] >= 2 * Schedule[j].value
          [] Schedule[j].type = "cron" ->
                 MinuteFloor(fired[j][k]) # MinuteFloor(fired[j][i])

EditsStand ==
    \A j \in Job \ cut.lines :
        /\ Has(file, j) <=> wanted[j] \in {"on", "off"}
        /\ \A i \in DOMAIN file : file[i].id = j => file[i].enabled = (wanted[j] = "on")

\* A "once" job runs once, an interval job no sooner than its interval, a cron
\* job once in a minute, across edits, failed runs and restarts.  Only a run that
\* a kill, an unreadable file, a failed write or the tick of a second loop
\* separates from its mark may start again; and only a job whose own change
\* overlapped one of another process, or that was on file when somebody wrote
\* over it what could not be read or was torn, may be other than the user was
\* told: the mark of a tick that read the list earlier neither brings a removed
\* job back nor undoes a pause, and a change of one job never touches another
\* (tick, is_due, mark_run, CronStore._mutate).
JobsDoAsAsked == FiresOnSchedule /\ EditsStand

=============================================================================
