----------------------------- MODULE ResumePreview -----------------------------
(***************************************************************************)
(* What a resume will replay and what it will pay for again: the cells of  *)
(* one run, the preview a resume announces, and the stretch that follows.  *)
(* workflow/cache_preview.py, cell_identity.py, cache.py, artifact.py,     *)
(* artifact_paths.py and the cache half of engine.py.                      *)
(*                                                                         *)
(* A plan is a spec as the cells it can have: a scalar node has one, a     *)
(* pipeline one for each (item, stage), a nested workflow those of its     *)
(* template under the call that made them (scope).  What a cell asks is    *)
(* its id, its version (prompt, route, schema: whatever an edit changes)   *)
(* and the outputs it reads.  A row without a recorded scope was written   *)
(* before scopes were recorded.                                            *)
(***************************************************************************)
EXTENDS Integers, Sequences, FiniteSets

CONSTANTS
    Plans,       \* the specs: cell -> [scope, id, label, node, wave, kind, reads, path]
    Root,        \* the scope of the run's own spec
    Nil,        \* no scope recorded, no path, no digest, no output
    Version, Value, Content,
    Opening,    \* the answers a checkpoint opens on
    MaxEdits, MaxStretches

Absent == 0

\* Cells come in the order of their nodes and read earlier ones.
PreviewAssumption ==
    /\ Opening \subseteq Value /\ Absent \notin Content
    /\ \A p \in Plans : \A c \in DOMAIN p : \A d \in p[c].reads :
            d < c /\ p[d].wave <= p[c].wave

VARIABLES
    plan,        \* the run's spec, as its cells
    version,     \* the spec: what each id says now
    rows,        \* workflow_node_cache, oldest first
    disk,        \* what each declared path holds
    answers,     \* the human answers this resume brought
    stretch,     \* the running stretch: its cells, its path indexes, who wrote last
    preview      \* what the resume announced of each cell

vars == <<plan, version, rows, disk, answers, stretch, preview>>

PlanCell == DOMAIN plan
Scope == {plan[c].scope : c \in PlanCell}
Id == {plan[c].id : c \in PlanCell}
Path == {plan[c].path : c \in PlanCell} \ {Nil}
-----------------------------------------------------------------------------
(* The row a cell reads. *)

Asked(c, reads) == <<plan[c].id, version[plan[c].id], reads>>

\* CellKeys.hash: only nested keys are salted with their invocation.
Key(c, asked) == <<plan[c].scope>> \o asked
LegacyKey(asked) == <<Root>> \o asked

Rows(rs) == {rs[i] : i \in DOMAIN rs}
Has(rs, k) == \E r \in Rows(rs) : r.key = k
RowAt(rs, k) == CHOOSE r \in Rows(rs) : r.key = k

\* INSERT OR REPLACE.
Put(rs, r) == Append(SelectSeq(rs, LAMBDA x : x.key # r.key), r)

Scoped(c, r) == r.node = plan[c].label /\ r.scope = plan[c].scope
LegacyOwner(c, r) == r.node = plan[c].id /\ r.path # Nil /\ r.owner = plan[c].label

\* Mutant: an invocation takes any row its content names.
Proven_Content(c, r, k) == TRUE

(* A human answer needs its recorded scope; a nested leaf that, or a legacy *)
(* manifest that names it; a root leaf keeps replaying what it always did. *)
Proven(c, r, k) ==
    \/ Scoped(c, r)
    \/ plan[c].kind = "leaf" /\ plan[c].scope = Root
    \/ plan[c].kind = "leaf" /\ r.key # k /\ LegacyOwner(c, r)

Miss == [hit |-> FALSE, unproven |-> FALSE]

\* CellKeys.read
Read(rs, c, asked) ==
    LET own == Key(c, asked)
        source == IF Has(rs, own) THEN own ELSE LegacyKey(asked)
        r == RowAt(rs, source)
    IN CASE ~Has(rs, source) -> Miss
         [] source # own /\ r.scope \notin {Nil, plan[c].scope} -> Miss
         [] OTHER -> [hit |-> Proven(c, r, own), unproven |-> ~Proven(c, r, own), row |-> r]
-----------------------------------------------------------------------------
(* The artifact a hit declared. *)

\* RunPaths.load: the digest each owner's latest row left at a path.
Index(rs) ==
    LET Latest(o, p) == CHOOSE i \in DOMAIN rs :
            /\ rs[i].owner = o /\ rs[i].path = p
            /\ \A j \in DOMAIN rs : rs[j].owner = o /\ rs[j].path = p => j <= i
    IN [x \in {<<r.owner, r.path>> : r \in {q \in Rows(rs) : q.path # Nil}} |->
            rs[Latest(x[1], x[2])].digest]

\* RunPaths.claim
Claimed(index, o, p, digest) ==
    [x \in DOMAIN index \cup {<<o, p>>} |-> IF x = <<o, p>> THEN digest ELSE index[x]]

\* RunPaths.explained_by: another cell of the run left exactly this.
ExplainedBy(index, r) ==
    {x \in DOMAIN index : x[2] = r.path /\ x[1] # r.owner /\ index[x] = disk[r.path]}

(* recheck: only a digest the harness measured is compared; a file that is *)
(* gone is stale whoever removed it.                                       *)
Stale(index, r) ==
    /\ r.path # Nil /\ r.digest # Nil
    /\ disk[r.path] # r.digest
    /\ disk[r.path] = Absent \/ ExplainedBy(index, r) = {}
-----------------------------------------------------------------------------
(* The preview: _walk, in the order of the nodes. *)

Reads(c, out) == [d \in plan[c].reads |-> out[d]]
NullRead(c, out) == \E d \in plan[c].reads : out[d] = Nil

\* A node that reads another sees nothing of it while any of its cells is open.
Roots(c) ==
    {d \in PlanCell : d < c /\ \E e \in plan[c].reads :
        d = e \/ (plan[d].node = plan[e].node /\ plan[e].node # plan[c].node)}

\* cache_hashes_for_node: a root cell's history includes what is unscoped.
Completed(rs, c) ==
    \E r \in Rows(rs) :
        /\ r.node = plan[c].label
        /\ r.scope = plan[c].scope \/ (plan[c].scope = Root /\ r.scope = Nil)

\* What is said of one cell.
Verdict(rs, c, read, index) ==
    CASE read.hit /\ ~Stale(index, read.row) -> "replay"
      [] read.unproven -> "unknown"
      [] read.hit -> "changed"
      [] Completed(rs, c) -> "identity"
      [] OTHER -> "never"

(* One cell of the walk: w.out is what its readers see, w.open the cells   *)
(* whose output cannot be known, w.says what the preview says of each.     *)
Visit(w, c) ==
    LET read == Read(rows, c, Asked(c, Reads(c, w.out)))
        says == Verdict(rows, c, read, Index(rows))
        Settled(o) == [w EXCEPT !.out[c] = o, !.says[c] = says]
    IN CASE Roots(c) \cap w.open # {} ->
                [w EXCEPT !.open = @ \cup {c}, !.says[c] = "unknown"]
         [] NullRead(c, w.out) -> w
         [] says = "replay" -> Settled(read.row.out)
         [] plan[c].kind = "checkpoint" /\ c \in DOMAIN answers' ->
                Settled(IF answers'[c] \in Opening THEN answers'[c] ELSE Nil)
         [] OTHER -> [Settled(Nil) EXCEPT !.open = @ \cup {c}]

Walk ==
    LET walk[n \in 0..Len(plan)] ==
            IF n = 0 THEN [out |-> [c \in PlanCell |-> Nil], open |-> {},
                           says |-> [c \in PlanCell |-> "none"]]
            ELSE Visit(walk[n - 1], n)
    IN walk[Len(plan)].says
-----------------------------------------------------------------------------
(* The stretch. *)

Idle == [at |-> [c \in PlanCell |-> "idle"], out |-> [c \in PlanCell |-> Nil],
         index |-> [s \in Scope |-> <<>>], writer |-> [p \in Path |-> 0],
         had |-> {}, excused |-> {}, source |-> [c \in PlanCell |-> Nil],
         live |-> FALSE, edits |-> 0, count |-> 0]

PreviewInit ==
    /\ plan \in Plans
    /\ version \in [Id -> {1}]
    /\ disk \in [Path -> Content \cup {Absent}]
    /\ answers = <<>> /\ stretch = Idle /\ preview = [c \in PlanCell |-> "none"]
    /\ \/ rows = <<>>
       \/ \E c \in PlanCell, digest \in Content \cup {Nil}, out \in Value :
            rows = <<[key |-> LegacyKey(<<plan[c].id, 1, [d \in plan[c].reads |-> 1]>>),
                      node |-> plan[c].id, scope |-> Nil, out |-> out, path |-> plan[c].path,
                      digest |-> IF plan[c].path = Nil THEN Nil ELSE digest,
                      owner |-> plan[c].label, by |-> c]>>

\* Between stretches the user edits the spec and anybody the files.
Edit(i) ==
    /\ ~stretch.live /\ stretch.edits < MaxEdits
    /\ \E v \in Version \ {version[i]} : version' = [version EXCEPT ![i] = v]
    /\ stretch' = [stretch EXCEPT !.edits = @ + 1]
    /\ UNCHANGED <<plan, rows, disk, answers, preview>>

Tamper(p) ==
    /\ ~stretch.live /\ stretch.edits < MaxEdits
    /\ \E x \in (Content \cup {Absent}) \ {disk[p]} : disk' = [disk EXCEPT ![p] = x]
    /\ stretch' = [stretch EXCEPT !.edits = @ + 1]
    /\ UNCHANGED <<plan, version, rows, answers, preview>>

Checkpoint == {c \in PlanCell : plan[c].kind = "checkpoint"}

(* A resume under its own fence: the preview, then the engine.  The path   *)
(* index of an engine is loaded once; a nested call's when it begins.      *)
Resume ==
    /\ ~stretch.live /\ stretch.count < MaxStretches
    /\ \E A \in SUBSET Checkpoint : answers' \in [A -> Value]
    /\ preview' = Walk
    /\ stretch' = [Idle EXCEPT !.live = TRUE, !.edits = stretch.edits, !.count = stretch.count + 1,
                      !.index[Root] = Index(rows),
                      !.had = {c \in PlanCell : \E r \in Rows(rows) :
                                 r.by = c /\ r.node = plan[c].label
                                          /\ (r.scope # Nil \/ plan[c].scope = Root)}]
    /\ UNCHANGED <<plan, version, rows, disk>>

Open(c) == stretch.at[c] \in {"idle", "running", "wrote"}
AtTurn(c) ==
    /\ stretch.live /\ stretch.at[c] = "idle"
    /\ \A d \in PlanCell : Open(d) => d = c \/ (plan[d].wave >= plan[c].wave /\ d \notin plan[c].reads)

\* The index this cell's engine looks at: loaded at its first cell, then its own.
Opened(c) ==
    IF \A d \in PlanCell : plan[d].scope = plan[c].scope => stretch.at[d] = "idle"
    THEN Index(rows) ELSE stretch.index[plan[c].scope]

Settle(c, at, out) == [stretch EXCEPT !.at[c] = at, !.out[c] = out,
                                      !.index[plan[c].scope] = Opened(c)]

\* strict_prompt: an upstream null fails the node before it asks the cache.
Skip(c) ==
    /\ AtTurn(c) /\ NullRead(c, stretch.out)
    /\ stretch' = Settle(c, "null", Nil)
    /\ UNCHANGED <<plan, version, rows, disk, answers, preview>>

Asking(c) == AtTurn(c) /\ ~NullRead(c, stretch.out)
Looked(c) == Read(rows, c, Asked(c, Reads(c, stretch.out)))
Refused(c) == Looked(c).hit /\ Stale(Opened(c), Looked(c).row)

Replay(c) ==
    /\ Asking(c) /\ Looked(c).hit /\ ~Refused(c)
    /\ stretch' = [Settle(c, "replayed", Looked(c).row.out) EXCEPT !.source[c] = Looked(c).row]
    /\ UNCHANGED <<plan, version, rows, disk, answers, preview>>

\* Who wrote the path last in this stretch has stored what it wrote, under
\* the engine that is looking.
Vouched(c, p) ==
    \/ stretch.writer[p] = 0
    \/ /\ plan[stretch.writer[p]].scope = plan[c].scope
       /\ stretch.at[stretch.writer[p]] = "stored"

\* Two cells of one nested pipeline ask the same and overwrite one row.
Twins(c) == {d \in PlanCell : plan[d].id = plan[c].id /\ plan[d].scope = plan[c].scope} \ {c}

Excused(c) ==
    \/ Refused(c) /\ ~Vouched(c, Looked(c).row.path)
    \/ plan[c].scope # Root /\ Twins(c) # {}
    \/ plan[c].reads \cap stretch.excused # {}

Spawn(c) ==
    /\ Asking(c) /\ plan[c].kind = "leaf" /\ (~Looked(c).hit \/ Refused(c))
    /\ stretch' = [Settle(c, "running", Nil) EXCEPT
                     !.excused = IF Excused(c) THEN @ \cup {c} ELSE @]
    /\ UNCHANGED <<plan, version, rows, disk, answers, preview>>

Row(c, asked, out, manifest) ==
    [key |-> Key(c, asked), node |-> plan[c].label, scope |-> plan[c].scope, out |-> out,
     path |-> manifest.path, digest |-> manifest.digest, owner |-> manifest.owner, by |-> c]

NoManifest(c) == [path |-> Nil, digest |-> Nil, owner |-> plan[c].label]

\* cache_answer: unstamped, unpriced, under the scope that asked.
Answered(c) ==
    Put(rows, Row(c, Asked(c, Reads(c, stretch.out)), answers[c], NoManifest(c)))

(* run_checkpoint: an accepted answer is cached, a refused one is not; no  *)
(* answer pauses the run.                                                  *)
Answer(c) ==
    /\ Asking(c) /\ plan[c].kind = "checkpoint" /\ ~Looked(c).hit
    /\ UNCHANGED <<plan, version, disk, answers, preview>>
    /\ IF c \in DOMAIN answers
       THEN IF answers[c] \in Opening
            THEN /\ rows' = Answered(c)
                 /\ stretch' = Settle(c, "stored", answers[c])
            ELSE stretch' = Settle(c, "null", Nil) /\ UNCHANGED rows
       ELSE stretch' = [Settle(c, "null", Nil) EXCEPT !.live = FALSE] /\ UNCHANGED rows

\* The leaf writes the file it will declare, or finds it as it should be.
Write(c) ==
    /\ stretch.live /\ stretch.at[c] = "running" /\ plan[c].path # Nil
    /\ \E x \in Content : disk' = [disk EXCEPT ![plan[c].path] = x]
    /\ stretch' = [stretch EXCEPT !.at[c] = "wrote", !.writer[plan[c].path] = c]
    /\ UNCHANGED <<plan, version, rows, answers, preview>>

Running(c) == stretch.live /\ stretch.at[c] \in {"running", "wrote"}

\* verify_output: a declared file that is not there has no digest.
Measured(p) == IF p = Nil THEN Nil ELSE IF disk[p] = Absent THEN Nil ELSE disk[p]

\* _measure_artifacts: what the harness found where the leaf declared a file.
Manifest(c) ==
    [path |-> plan[c].path, digest |-> Measured(plan[c].path), owner |-> plan[c].label]

\* cache_store: the files are measured, the path is claimed, the row written.
Store(c) ==
    /\ Running(c)
    /\ LET m == Manifest(c) IN
       \E out \in Value :
         /\ rows' = Put(rows, Row(c, Asked(c, Reads(c, stretch.out)), out, m))
         /\ stretch' = [stretch EXCEPT !.at[c] = "stored", !.out[c] = out,
              !.index[plan[c].scope] = IF m.path = Nil THEN @
                                       ELSE Claimed(@, m.owner, m.path, m.digest)]
    /\ UNCHANGED <<plan, version, disk, answers, preview>>

\* A dead, empty or invalid leaf leaves no row.
Die(c) ==
    /\ Running(c)
    /\ stretch' = [stretch EXCEPT !.at[c] = "null"]
    /\ UNCHANGED <<plan, version, rows, disk, answers, preview>>

\* The stretch ends, by itself, by a pause or a cancel, or with its process.
Stop ==
    /\ stretch.live
    /\ stretch' = [stretch EXCEPT !.live = FALSE]
    /\ UNCHANGED <<plan, version, rows, disk, answers, preview>>

PreviewNext ==
    \/ \E i \in Id : Edit(i)
    \/ \E p \in Path : Tamper(p)
    \/ Resume \/ Stop
    \/ \E c \in PlanCell : \/ Skip(c) \/ Replay(c) \/ Spawn(c) \/ Answer(c)
                       \/ Write(c) \/ Store(c) \/ Die(c)

PreviewSpec == PreviewInit /\ [][PreviewNext]_vars
-----------------------------------------------------------------------------
(* Each cell's state is one of these, and rows have distinct keys. *)
PreviewTypeOK ==
    /\ plan \in Plans /\ version \in [Id -> Version] /\ disk \in [Path -> Content \cup {Absent}]
    /\ preview \in [PlanCell -> {"none", "replay", "changed", "identity", "never", "unknown"}]
    /\ stretch.at \in [PlanCell -> {"idle", "null", "replayed", "running", "wrote", "stored"}]
    /\ \A i, j \in DOMAIN rows : rows[i].key = rows[j].key => i = j

\* "this never UNDER-states the invalidations": what a run already has is not
\* paid for again in a stretch whose preview did not say so, or could not know
\* (_walk, _artifact_stale), unless a leaf of the stretch rewrote the file and
\* left no cell that explains it.
Executed(c) == stretch.at[c] \in {"running", "wrote", "stored"} /\ plan[c].kind = "leaf"
NeverUnderstated ==
    \A c \in PlanCell : Executed(c) /\ c \in stretch.had =>
        preview[c] \in {"changed", "identity", "unknown"} \/ c \in stretch.excused

\* A cell replays what its own invocation was told, never what another call of
\* the template, or a human at another gate, answered.  A root leaf may still
\* take a legacy row (CellKeys.read).
ReplaysItsOwn ==
    \A c \in PlanCell : stretch.at[c] = "replayed" =>
        LET r == stretch.source[c] IN
        \/ r.by \in {c} \cup Twins(c)
        \/ plan[c].kind = "leaf" /\ plan[c].scope = Root
=============================================================================
