------------------------ MODULE OrchestrationCoreProofs ------------------------
(***************************************************************************)
(* Proofs about OrchestrationCore, for every set of sub-sessions, workers, *)
(* texts and cancellers.                                                   *)
(***************************************************************************)
EXTENDS OrchestrationCore, FiniteSetTheorems, TLAPS

(* A registry's entries can be counted. *)
LEMMA CountIsNat ==
    ASSUME NEW S, S \subseteq Sub
    PROVE  Cardinality(S) \in Nat
BY CoreAssumption, FS_Subset, FS_CardinalityType

(* Settling a batch keeps the record of outcomes. *)
LEMMA SettleType ==
    ASSUME told \in [Text -> Seq(Outcome)], NEW batch, NEW outcome \in Outcome,
           Settle(batch, outcome)
    PROVE  told' \in [Text -> Seq(Outcome)]
<1>1. \A t \in Text : Append(told[t], outcome) \in Seq(Outcome)
  OBVIOUS
<1> QED BY <1>1 DEF Settle

(* Detaching an inbox settles what was in it. *)
LEMMA DiscardType ==
    ASSUME TypeOK, NEW c \in Sub, Discard(c)
    PROVE  inbox' \in [Sub -> SUBSET Text] /\ told' \in [Text -> Seq(Outcome)]
<1>1. inbox' \in [Sub -> SUBSET Text]
  BY DEF TypeOK, Discard
<1>2. told' \in [Text -> Seq(Outcome)]
  BY SettleType DEF TypeOK, Discard, Outcome
<1> QED BY <1>1, <1>2

(* Replacing one row leaves the others alone. *)
LEMMA SubBecomesType ==
    ASSUME sub \in [Sub -> SubRow], NEW c \in Sub, NEW row \in SubRow, SubBecomes(c, row)
    PROVE  /\ sub' \in [Sub -> SubRow]
           /\ \A d \in Sub : sub'[d] = IF d = c THEN row ELSE sub[d]
BY DEF SubBecomes

(* Calling the hook changes one row. *)
LEMMA FireDoneType ==
    ASSUME sub \in [Sub -> SubRow], NEW c \in Sub, FireDone(c)
    PROVE  sub' \in [Sub -> SubRow]
<1>1. [sub[c] EXCEPT !.hook = FALSE, !.fired = TRUE] \in SubRow
  BY DEF SubRow
<1> QED BY <1>1, SubBecomesType DEF FireDone

(* So does a flag, in as many rows as are flagged. *)
LEMMA FlaggedType ==
    ASSUME sub \in [Sub -> SubRow], NEW who, sub' = Flagged(who)
    PROVE  sub' \in [Sub -> SubRow]
<1>1. \A c \in Sub : [sub[c] EXCEPT !.cancelled = TRUE, !.accepting = FALSE] \in SubRow
  BY DEF SubRow
<1> QED BY <1>1 DEF Flagged

(* A dropped turn ends in one of two ways. *)
LEMMA CancelledStatusType ==
    ASSUME NEW c
    PROVE  CancelledStatus(c) \in {"interrupted", "cancelled"}
BY DEF CancelledStatus

(* The core starts empty. *)
LEMMA TypeInit == Init => TypeOK
<1> SUFFICES ASSUME Init PROVE TypeOK
  OBVIOUS
<1>1. Unspawned \in SubRow
  BY DEF Unspawned, SubRow
<1>2. Resting \in WorkerRow
  BY DEF Resting, WorkerRow, Outcome
<1> QED BY <1>1, <1>2 DEF Init, TypeOK, AtRest

(* A rejected submission may leave a call behind, of the same kind. *)
LEMMA RejectedType ==
    ASSUME work \in Seq([sub : Sub, accepted : BOOLEAN]), NEW c \in Sub, Rejected(c)
    PROVE  work' \in Seq([sub : Sub, accepted : BOOLEAN])
<1>1. CASE UNCHANGED work
  BY <1>1
<1>2. CASE work' = Append(work, [sub |-> c, accepted |-> FALSE])
  <2>1. [sub |-> c, accepted |-> FALSE] \in [sub : Sub, accepted : BOOLEAN]
    OBVIOUS
  <2> QED BY <1>2, <2>1
<1> QED BY <1>1, <1>2 DEF Rejected

(* spawn, steer, watch_done, cancel and shutdown keep to the types. *)
LEMMA CallerType == TypeOK /\ Caller => TypeOK'
<1> SUFFICES ASSUME TypeOK, Caller PROVE TypeOK'
  OBVIOUS
<1>0. sub \in [Sub -> SubRow]
  BY DEF TypeOK
<1>1. ASSUME NEW c \in Sub, NEW hook \in BOOLEAN, Spawn(c, hook) PROVE TypeOK'
  <2>1. Cardinality(Spawned) + 1 \in Nat
    BY CountIsNat DEF Spawned
  <2>2. [sub[c] EXCEPT !.status = "running", !.future = "queued", !.accepting = TRUE,
                       !.hook = hook, !.born = Cardinality(Spawned) + 1] \in SubRow
    BY <1>0, <2>1 DEF SubRow
  <2>3. sub' \in [Sub -> SubRow]
    BY <1>1, <2>2, <1>0, SubBecomesType DEF Spawn
  <2>4. work' \in Seq([sub : Sub, accepted : BOOLEAN])
    BY <1>1 DEF TypeOK, Spawn
  <2>5. children' \subseteq Sub
    BY <1>1 DEF TypeOK, Spawn, Kept
  <2> QED BY <1>1, <2>3, <2>4, <2>5 DEF TypeOK, Spawn, texts, threads
<1>2. ASSUME NEW c \in Sub, SpawnRejected(c) PROVE TypeOK'
  <2>1. [sub[c] EXCEPT !.status = "refused"] \in SubRow
    BY <1>0 DEF SubRow
  <2>2. sub' \in [Sub -> SubRow]
    BY <1>2, <2>1, <1>0, SubBecomesType DEF SpawnRejected
  <2>3. work' \in Seq([sub : Sub, accepted : BOOLEAN])
    BY <1>2, RejectedType DEF TypeOK, SpawnRejected
  <2> QED BY <1>2, <2>2, <2>3 DEF TypeOK, SpawnRejected, texts, threads
<1>3. ASSUME NEW c \in Sub, SteerRejected(c) PROVE TypeOK'
  <2>1. work' \in Seq([sub : Sub, accepted : BOOLEAN])
    BY <1>3, RejectedType DEF TypeOK, SteerRejected
  <2> QED BY <1>3, <2>1 DEF TypeOK, SteerRejected, texts, threads
<1>4. ASSUME NEW c \in Sub, WatchDone(c) PROVE TypeOK'
  <2>1. [sub[c] EXCEPT !.hook = TRUE] \in SubRow
    BY <1>0 DEF SubRow
  <2>2. sub' \in [Sub -> SubRow]
    BY <1>4, <2>1, <1>0, SubBecomesType DEF WatchDone
  <2> QED BY <1>4, <2>2 DEF TypeOK, WatchDone, texts, threads
<1>5. ASSUME NEW c \in Sub, NEW t \in Text, Enqueue(c, t) PROVE TypeOK'
  BY <1>5 DEF TypeOK, Enqueue, threads
<1>6. ASSUME NEW c \in Sub, NEW t \in Text, SteerIdle(c, t) PROVE TypeOK'
  <2>1. [sub[c] EXCEPT !.status = "running", !.future = "queued", !.accepting = TRUE,
                       !.fired = FALSE] \in SubRow
    BY <1>0 DEF SubRow
  <2>2. sub' \in [Sub -> SubRow]
    BY <1>6, <2>1, <1>0, SubBecomesType DEF SteerIdle
  <2>3. work' \in Seq([sub : Sub, accepted : BOOLEAN])
    BY <1>6 DEF TypeOK, SteerIdle
  <2>4. sent' \in [Text -> {"no", "queued", "prompt"}]
    BY <1>6 DEF TypeOK, SteerIdle
  <2> QED BY <1>6, <2>2, <2>3, <2>4 DEF TypeOK, SteerIdle, threads
<1>7. ASSUME NEW k \in Canceller, NEW c \in Sub, Cancel(k, c) PROVE TypeOK'
  <2>1. sub' \in [Sub -> SubRow]
    BY <1>7, <1>0, FlaggedType DEF Cancel
  <2> QED BY <1>7, <2>1 DEF TypeOK, Cancel, texts
<1>8. ASSUME NEW wait \in BOOLEAN, Shutdown(wait) PROVE TypeOK'
  <2>1. sub' \in [Sub -> SubRow]
    BY <1>8, <1>0, FlaggedType DEF Shutdown, StopAll
  <2> QED BY <1>8, <2>1 DEF TypeOK, Shutdown, StopAll, texts
<1> QED BY <1>1, <1>2, <1>3, <1>4, <1>5, <1>6, <1>7, <1>8 DEF Caller, SteerLive, SteerActive
-------------------------------------------------------------------------------
(* What a row says of itself, by where its Future is. *)
Billed(row) == row.ran => row.landed

Over(row) == row.status \in Terminal /\ (row.status = "cancelled" <=> ~row.ran)

RowInv(row, open) ==
    /\ row.future = "none" <=> row.status \in {"absent", "refused"}
    /\ row.future = "none" => ~row.hook /\ ~row.ran
    /\ row.landed => row.ran
    /\ row.status \in Terminal => Over(row)
    /\ row.fired => row.status \in Terminal /\ ~row.hook
    /\ row.future = "queued" => row.status = "running" /\ Billed(row)
    /\ row.future = "done" => row.status \in Terminal /\ ~row.hook /\ Billed(row)
    /\ row.future = "dropped" => row.status \in {"running", "interrupted", "cancelled"} /\ Billed(row)
    \* Only a sub-session that will never run again is cancelled or dropped.
    /\ row.status = "cancelled" \/ row.future = "dropped" => row.cancelled \/ ~open

(* Where a worker stands, and what it knows of the row it owns. *)
AtInv(at, more, row) ==
    /\ row.future = "running"
    /\ at = "turn" => row.status = "running" /\ row.ran
    /\ at # "turn" => Billed(row)
    /\ at = "loop" => row.status = "running"
    /\ at = "settle" => row.landed /\ (more <=> row.status = "running")
    /\ at = "settle" => row.status \in Terminal \cup {"running"}
    /\ at \in {"drop", "fire", "hook"} => row.status \in Terminal
    /\ at = "hook" => ~row.hook

WorkerInv(w) ==
    worker[w].at # "idle" =>
        /\ worker[w].sub \in Sub
        /\ AtInv(worker[w].at, worker[w].more, sub[worker[w].sub])

CloserInv(k) ==
    closer[k].at # "idle" =>
        /\ closer[k].sub \in Sub
        /\ LET row == sub[closer[k].sub] IN
           /\ row.future # "none" /\ row.cancelled
           /\ closer[k].at # "flagged" => row.future = "dropped"
           /\ closer[k].at = "fire" => row.status \in Terminal

ExitInv ==
    exit.at = "firing" =>
        /\ exit.sub \in Sub
        /\ sub[exit.sub].future = "dropped" /\ sub[exit.sub].status \in Terminal

OneOwner ==
    /\ \A v, w \in Worker :
          worker[v].at # "idle" /\ worker[w].at # "idle" /\ worker[v].sub = worker[w].sub
            => v = w
    /\ \A c \in Sub : sub[c].future = "running" =>
          \E w \in Worker : worker[w].at # "idle" /\ worker[w].sub = c

CoreInv ==
    /\ \A c \in Sub : RowInv(sub[c], PoolOpen)
    /\ \A c \in children : sub[c].future # "none"
    /\ \A w \in Worker : WorkerInv(w)
    /\ \A k \in Canceller : CloserInv(k)
    /\ ExitInv
    /\ OneOwner

-------------------------------------------------------------------------------
(* What closers rely on is never taken back. *)
Keeps(old, new) ==
    /\ old.future # "none" => new.future # "none"
    /\ old.cancelled => new.cancelled
    /\ old.future = "dropped" => new.future = "dropped"
    /\ old.future = "dropped" /\ old.status \in Terminal => new.status \in Terminal

(* To the worker that owns the row, nothing happened. *)
SameTurn(old, new) ==
    /\ new.future = old.future /\ new.status = old.status
    /\ new.landed = old.landed /\ new.ran = old.ran
    /\ old.status \in Terminal /\ ~old.hook => ~new.hook

(* So a thread inside cancel that does not move keeps what it knows, *)
LEMMA ClosersKeep ==
    ASSUME TypeOK, CoreInv, \A c \in Sub : Keeps(sub[c], sub'[c]),
           NEW k \in Canceller, closer'[k] = closer[k]
    PROVE  CloserInv(k)'
BY DEF CoreInv, CloserInv, Keeps

(* shutdown, between its settling and its call, likewise, *)
LEMMA ExitKeeps ==
    ASSUME TypeOK, CoreInv, \A c \in Sub : Keeps(sub[c], sub'[c]),
           exit' = exit \/ exit'.at # "firing"
    PROVE  ExitInv'
BY DEF CoreInv, ExitInv, Keeps

(* and a worker whose row changed in nothing it looks at. *)
LEMMA WorkerKeeps ==
    ASSUME TypeOK, CoreInv, NEW w \in Worker, worker'[w] = worker[w],
           \A c \in Sub : worker[w].at # "idle" /\ worker[w].sub = c => SameTurn(sub[c], sub'[c])
    PROVE  WorkerInv(w)'
BY DEF CoreInv, WorkerInv, AtInv, SameTurn, Billed

(* One row is replaced and nobody owned it. *)
LEMMA FreeRow ==
    ASSUME TypeOK, CoreInv, UNCHANGED worker,
           NEW c \in Sub, NEW row \in SubRow, SubBecomes(c, row),
           sub[c].future # "running" \/ SameTurn(sub[c], row),
           sub[c].future # "running" => row.future # "running"
    PROVE  (\A w \in Worker : WorkerInv(w)') /\ OneOwner'
<1>1. \A d \in Sub : sub'[d] = IF d = c THEN row ELSE sub[d]
  BY SubBecomesType DEF TypeOK
<1>2. ASSUME NEW w \in Worker PROVE WorkerInv(w)'
  <2>1. WorkerInv(w)
    BY DEF CoreInv
  <2>2. worker[w].at # "idle" => sub[worker[w].sub].future = "running"
    BY <2>1 DEF WorkerInv, AtInv
  <2>3. \A d \in Sub : worker[w].at # "idle" /\ worker[w].sub = d => SameTurn(sub[d], sub'[d])
    BY <1>1, <2>2 DEF SameTurn
  <2> QED BY <2>3, WorkerKeeps
<1>3. \A d \in Sub : sub'[d].future = "running" => sub[d].future = "running"
  BY <1>1
<1>4. OneOwner'
  BY <1>3 DEF CoreInv, OneOwner
<1> QED BY <1>2, <1>4

(* One row is replaced by one that says the truth and keeps its promises. *)
LEMMA OneRow ==
    ASSUME TypeOK, CoreInv, NEW c \in Sub, NEW row \in SubRow, SubBecomes(c, row),
           RowInv(row, PoolOpen'), Keeps(sub[c], row), PoolOpen' => PoolOpen
    PROVE  /\ \A d \in Sub : RowInv(sub'[d], PoolOpen')
           /\ \A d \in Sub : Keeps(sub[d], sub'[d])
<1>1. \A d \in Sub : sub'[d] = IF d = c THEN row ELSE sub[d]
  BY SubBecomesType DEF TypeOK
<1>2. \A d \in Sub : RowInv(sub[d], PoolOpen')
  BY DEF CoreInv, RowInv
<1> QED BY <1>1, <1>2 DEF Keeps

(* The registry only grows by what was spawned. *)
LEMMA RegistryKeeps ==
    ASSUME TypeOK, CoreInv, \A d \in Sub : Keeps(sub[d], sub'[d]),
           \A d \in children' \ children : sub'[d].future # "none"
    PROVE  \A d \in children' : sub'[d].future # "none"
BY DEF CoreInv, Keeps, TypeOK

(* Flags are no news to a worker, and a closer sets them. *)
LEMMA FlaggedKeeps ==
    ASSUME TypeOK, CoreInv, NEW who, sub' = Flagged(who), UNCHANGED worker,
           PoolOpen' => PoolOpen
    PROVE  /\ \A d \in Sub : RowInv(sub'[d], PoolOpen')
           /\ \A d \in Sub : Keeps(sub[d], sub'[d])
           /\ \A d \in Sub \cap who : sub'[d].cancelled
           /\ \A w \in Worker : WorkerInv(w)'
           /\ OneOwner'
<1>0. \A d \in Sub : sub[d] \in SubRow
  BY DEF TypeOK
<1>1. \A d \in Sub : sub'[d] = sub[d] \/
          sub'[d] = [sub[d] EXCEPT !.cancelled = TRUE, !.accepting = FALSE]
  BY DEF Flagged
<1>2. \A d \in Sub : /\ sub'[d].status = sub[d].status /\ sub'[d].future = sub[d].future
                     /\ sub'[d].hook = sub[d].hook /\ sub'[d].fired = sub[d].fired
                     /\ sub'[d].landed = sub[d].landed /\ sub'[d].ran = sub[d].ran
                     /\ (sub[d].cancelled => sub'[d].cancelled)
  <2> TAKE d \in Sub
  <2>1. CASE sub'[d] = sub[d]
    BY <2>1
  <2>2. CASE sub'[d] = [sub[d] EXCEPT !.cancelled = TRUE, !.accepting = FALSE]
    BY <1>0, <2>2 DEF SubRow
  <2> QED BY <1>1, <2>1, <2>2
<1>3. \A d \in Sub \cap who : sub'[d].cancelled
  BY <1>0 DEF Flagged, SubRow
<1>4. \A d \in Sub : RowInv(sub'[d], PoolOpen')
  BY <1>2 DEF CoreInv, RowInv, Over, Billed
<1>5. \A d \in Sub : Keeps(sub[d], sub'[d]) /\ SameTurn(sub[d], sub'[d])
  BY <1>2 DEF Keeps, SameTurn
<1>6. \A w \in Worker : WorkerInv(w)'
  BY <1>5, WorkerKeeps
<1>7. OneOwner'
  BY <1>2 DEF CoreInv, OneOwner
<1> QED BY <1>3, <1>4, <1>5, <1>6, <1>7

(* A caller replaces a row no worker owns, and touches no thread. *)
LEMMA CallerRow ==
    ASSUME TypeOK, CoreInv, UNCHANGED threads,
           NEW c \in Sub, NEW row \in SubRow, SubBecomes(c, row),
           RowInv(row, PoolOpen), Keeps(sub[c], row),
           sub[c].future # "running" \/ SameTurn(sub[c], row),
           sub[c].future # "running" => row.future # "running",
           \A d \in children' \ children : d = c /\ row.future # "none"
    PROVE  CoreInv'
<1>1. PoolOpen' = PoolOpen
  BY DEF PoolOpen, threads
<1>2. (\A d \in Sub : RowInv(sub'[d], PoolOpen')) /\ \A d \in Sub : Keeps(sub[d], sub'[d])
  BY <1>1, OneRow
<1>3. (\A w \in Worker : WorkerInv(w)') /\ OneOwner'
  BY FreeRow DEF threads
<1>4. sub'[c] = row
  BY SubBecomesType DEF TypeOK
<1>5. \A d \in children' : sub'[d].future # "none"
  BY <1>2, <1>4, RegistryKeeps
<1>6. (\A k \in Canceller : CloserInv(k)') /\ ExitInv'
  BY <1>2, ClosersKeep, ExitKeeps DEF threads
<1> QED BY <1>2, <1>3, <1>5, <1>6 DEF CoreInv

(* spawn, steer, watch_done, cancel and shutdown keep the core's invariant. *)
LEMMA CallerInv == TypeOK /\ CoreInv /\ Caller => CoreInv'
<1> SUFFICES ASSUME TypeOK, CoreInv, Caller PROVE CoreInv'
  OBVIOUS
<1>0. \A c \in Sub : sub[c] \in SubRow /\ RowInv(sub[c], PoolOpen)
  BY DEF TypeOK, CoreInv
<1>1. ASSUME NEW c \in Sub, NEW hook \in BOOLEAN, Spawn(c, hook) PROVE CoreInv'
  <2> DEFINE row == [sub[c] EXCEPT !.status = "running", !.future = "queued", !.accepting = TRUE,
                       !.hook = hook, !.born = Cardinality(Spawned) + 1]
  <2>1. Cardinality(Spawned) + 1 \in Nat
    BY CountIsNat DEF Spawned
  <2>2. sub[c].status = "absent" /\ sub[c].future = "none"
    BY <1>0, <1>1 DEF Spawn, RowInv
  <2>3. row \in SubRow /\ RowInv(row, PoolOpen) /\ row.future = "queued" /\ Keeps(sub[c], row)
    BY <1>0, <2>1, <2>2 DEF SubRow, RowInv, Terminal, Billed, Over, Keeps
  <2>4. SubBecomes(c, row) /\ UNCHANGED threads /\ children' \subseteq children \cup {c}
    BY <1>1 DEF Spawn, Kept
  <2> HIDE DEF row
  <2> QED BY <2>2, <2>3, <2>4, CallerRow
<1>2. ASSUME NEW c \in Sub, SpawnRejected(c) PROVE CoreInv'
  <2> DEFINE row == [sub[c] EXCEPT !.status = "refused"]
  <2>1. sub[c].future = "none"
    BY <1>0, <1>2 DEF SpawnRejected, RowInv
  <2>2. row \in SubRow /\ RowInv(row, PoolOpen) /\ row.future = "none" /\ Keeps(sub[c], row)
    BY <1>0, <2>1 DEF SubRow, RowInv, Terminal, Billed, Over, Keeps
  <2>3. SubBecomes(c, row) /\ UNCHANGED threads /\ UNCHANGED children
    BY <1>2 DEF SpawnRejected
  <2> HIDE DEF row
  <2> QED BY <2>1, <2>2, <2>3, CallerRow
<1>3. ASSUME UNCHANGED <<sub, children, threads>> PROVE CoreInv'
  BY <1>3 DEF CoreInv, RowInv, WorkerInv, CloserInv, ExitInv, OneOwner, PoolOpen, threads
<1>4. ASSUME NEW c \in Sub, WatchDone(c) PROVE CoreInv'
  <2> DEFINE row == [sub[c] EXCEPT !.hook = TRUE]
  <2>1. sub[c].future # "none" /\ sub[c].status \notin Terminal
    BY <1>4 DEF WatchDone, Known, CoreInv
  <2>2. row \in SubRow /\ RowInv(row, PoolOpen) /\ Keeps(sub[c], row) /\ SameTurn(sub[c], row)
    BY <1>0, <2>1 DEF SubRow, RowInv, Terminal, Billed, Over, Keeps, SameTurn
  <2>3. SubBecomes(c, row) /\ UNCHANGED threads /\ UNCHANGED children
    BY <1>4 DEF WatchDone
  <2> HIDE DEF row
  <2> QED BY <2>2, <2>3, CallerRow DEF SameTurn
<1>5. ASSUME NEW c \in Sub, NEW t \in Text, SteerIdle(c, t) PROVE CoreInv'
  <2> DEFINE row == [sub[c] EXCEPT !.status = "running", !.future = "queued", !.accepting = TRUE,
                       !.fired = FALSE]
  \* A dropped sub-session of an open pool was cancelled, so this one is done.
  <2>1. sub[c].future = "done"
    BY <1>0, <1>5 DEF SteerIdle, Done, RowInv
  <2>2. row \in SubRow /\ RowInv(row, PoolOpen) /\ row.future = "queued" /\ Keeps(sub[c], row)
    BY <1>0, <2>1 DEF SubRow, RowInv, Terminal, Billed, Over, Keeps
  <2>3. SubBecomes(c, row) /\ UNCHANGED threads /\ UNCHANGED children
    BY <1>5 DEF SteerIdle
  <2> HIDE DEF row
  <2> QED BY <2>1, <2>2, <2>3, CallerRow
<1>6. ASSUME NEW k \in Canceller, NEW c \in Sub, Cancel(k, c) PROVE CoreInv'
  <2>1. UNCHANGED worker /\ PoolOpen' = PoolOpen
    BY <1>6 DEF Cancel, PoolOpen
  <2>2. /\ \A d \in Sub : RowInv(sub'[d], PoolOpen')
        /\ \A d \in Sub : Keeps(sub[d], sub'[d])
        /\ sub'[c].cancelled
        /\ \A w \in Worker : WorkerInv(w)'
        /\ OneOwner'
    BY <1>6, <2>1, FlaggedKeeps DEF Cancel
  <2>3. \A d \in children' : sub'[d].future # "none"
    BY <1>6, <2>2, RegistryKeeps DEF Cancel
  <2>4. sub'[c].future # "none"
    BY <1>6, <2>3 DEF Cancel, Known
  <2>5. ASSUME NEW j \in Canceller PROVE CloserInv(j)'
    <3>1. CASE j = k
      BY <1>6, <2>2, <2>4, <3>1 DEF Cancel, CloserInv, TypeOK
    <3>2. CASE j # k
      BY <1>6, <2>2, <3>2, ClosersKeep DEF Cancel, TypeOK
    <3> QED BY <3>1, <3>2
  <2>6. ExitInv'
    BY <1>6, <2>2, ExitKeeps DEF Cancel
  <2> QED BY <2>2, <2>3, <2>5, <2>6 DEF CoreInv
<1>7. ASSUME NEW wait \in BOOLEAN, Shutdown(wait) PROVE CoreInv'
  <2>1. UNCHANGED worker /\ PoolOpen' = PoolOpen
    BY <1>7 DEF Shutdown, StopAll, PoolOpen
  <2>2. /\ \A d \in Sub : RowInv(sub'[d], PoolOpen')
        /\ \A d \in Sub : Keeps(sub[d], sub'[d])
        /\ \A w \in Worker : WorkerInv(w)'
        /\ OneOwner'
    BY <1>7, <2>1, FlaggedKeeps DEF Shutdown, StopAll
  <2>3. \A d \in children' : sub'[d].future # "none"
    BY <1>7, <2>2, RegistryKeeps DEF Shutdown, StopAll
  <2>4. (\A k \in Canceller : CloserInv(k)') /\ ExitInv'
    BY <1>7, <2>2, ClosersKeep, ExitKeeps DEF Shutdown, StopAll
  <2> QED BY <2>2, <2>3, <2>4 DEF CoreInv
<1>8. ASSUME NEW c \in Sub, SteerRejected(c) PROVE CoreInv'
  BY <1>3, <1>8 DEF SteerRejected
<1>9. ASSUME NEW c \in Sub, NEW t \in Text, Enqueue(c, t) PROVE CoreInv'
  BY <1>3, <1>9 DEF Enqueue
<1> QED BY <1>1, <1>2, <1>4, <1>5, <1>6, <1>7, <1>8, <1>9 DEF Caller, SteerLive, SteerActive
-------------------------------------------------------------------------------
(* A worker inside _run replaces its own row, and stays on it. *)
LEMMA WorkerStep ==
    ASSUME TypeOK, CoreInv, UNCHANGED <<children, closer, exit>>,
           NEW w \in Worker, worker[w].at # "idle",
           NEW row \in SubRow, SubBecomes(worker[w].sub, row),
           NEW next \in WorkerRow, WorkerBecomes(w, next),
           next.at # "idle", next.sub = worker[w].sub,
           AtInv(next.at, next.more, row),
           RowInv(row, PoolOpen), Keeps(sub[worker[w].sub], row)
    PROVE  sub' \in [Sub -> SubRow] /\ worker' \in [Worker -> WorkerRow] /\ CoreInv'
<1> DEFINE c == worker[w].sub
<1>1. c \in Sub /\ sub[c].future = "running"
  BY DEF CoreInv, WorkerInv, AtInv
<1>2. sub' \in [Sub -> SubRow] /\ \A d \in Sub : sub'[d] = IF d = c THEN row ELSE sub[d]
  BY <1>1, SubBecomesType DEF TypeOK
<1>3. /\ worker' \in [Worker -> WorkerRow]
      /\ \A v \in Worker : worker'[v] = IF v = w THEN next ELSE worker[v]
  BY DEF WorkerBecomes, TypeOK
<1>4. PoolOpen' = PoolOpen
  BY DEF PoolOpen
<1>5. (\A d \in Sub : RowInv(sub'[d], PoolOpen')) /\ \A d \in Sub : Keeps(sub[d], sub'[d])
  BY <1>1, <1>4, OneRow
<1>6. \A d \in children' : sub'[d].future # "none"
  BY <1>5, RegistryKeeps
<1>7. (\A k \in Canceller : CloserInv(k)') /\ ExitInv'
  BY <1>5, ClosersKeep, ExitKeeps
<1>8. ASSUME NEW v \in Worker PROVE WorkerInv(v)'
  <2>1. CASE v = w
    BY <1>1, <1>2, <1>3, <2>1 DEF WorkerInv
  <2>2. CASE v # w
    <3>1. worker'[v] = worker[v]
      BY <1>3, <2>2
    <3>2. worker[v].at # "idle" => worker[v].sub # c
      BY <2>2 DEF CoreInv, OneOwner
    <3>3. \A d \in Sub : worker[v].at # "idle" /\ worker[v].sub = d => SameTurn(sub[d], sub'[d])
      BY <1>2, <3>2 DEF SameTurn
    <3> QED BY <3>1, <3>3, WorkerKeeps
  <2> QED BY <2>1, <2>2
<1>9. OneOwner'
  <2>1. \A d \in Sub : sub'[d].future = "running" => sub[d].future = "running"
    BY <1>1, <1>2
  <2>2. \A v \in Worker : /\ worker'[v].at # "idle" <=> worker[v].at # "idle"
                          /\ worker'[v].sub = worker[v].sub
    BY <1>3
  <2> QED BY <2>1, <2>2 DEF CoreInv, OneOwner
<1> QED BY <1>2, <1>3, <1>5, <1>6, <1>7, <1>8, <1>9 DEF CoreInv

(* What a worker that is not idle knows of its row. *)
LEMMA AtWork ==
    ASSUME TypeOK, CoreInv, NEW w \in Worker, worker[w].at # "idle"
    PROVE  /\ worker[w] \in WorkerRow /\ worker[w].sub \in Sub
           /\ sub[worker[w].sub] \in SubRow
           /\ RowInv(sub[worker[w].sub], PoolOpen)
           /\ AtInv(worker[w].at, worker[w].more, sub[worker[w].sub])
<1>1. worker[w].sub \in Sub
  BY DEF CoreInv, WorkerInv
<1> QED BY <1>1 DEF TypeOK, CoreInv, WorkerInv

(* One lemma per step of a worker: the top of the loop, *)
LEMMA BeginTurnSafe ==
    ASSUME TypeOK, CoreInv, NEW w \in Worker, BeginTurn(w)
    PROVE  TypeOK' /\ CoreInv'
<1> DEFINE c == worker[w].sub
<1>1. worker[w].at = "loop" /\ UNCHANGED <<children, work, texts, closer, exit>>
  BY DEF BeginTurn
<1>2. /\ worker[w] \in WorkerRow /\ c \in Sub /\ sub[c] \in SubRow
      /\ RowInv(sub[c], PoolOpen) /\ AtInv("loop", worker[w].more, sub[c])
  BY <1>1, AtWork
<1>3. CASE sub[c].cancelled
  <2> DEFINE row == [sub[c] EXCEPT !.status = CancelledStatus(c), !.accepting = FALSE]
             next == [worker[w] EXCEPT !.at = "drop"]
  <2>1. CancelledStatus(c) = IF sub[c].landed THEN "interrupted" ELSE "cancelled"
    BY DEF CancelledStatus
  <2>2. row \in SubRow /\ RowInv(row, PoolOpen) /\ Keeps(sub[c], row)
    BY <1>2, <1>3, <2>1 DEF SubRow, RowInv, AtInv, Terminal, Billed, Over, Keeps
  <2>3. AtInv("drop", worker[w].more, row)
    BY <1>2, <2>1 DEF SubRow, AtInv, Terminal, Billed
  <2>4. next \in WorkerRow /\ next.at = "drop" /\ next.sub = c /\ next.more = worker[w].more
    BY <1>2 DEF WorkerRow
  <2>5. SubBecomes(c, row) /\ WorkerBecomes(w, next)
    BY <1>3 DEF BeginTurn, WorkerGoes
  <2> HIDE DEF row, next
  <2>6. sub' \in [Sub -> SubRow] /\ worker' \in [Worker -> WorkerRow] /\ CoreInv'
    BY <1>1, <2>2, <2>3, <2>4, <2>5, WorkerStep
  <2> QED BY <1>1, <2>6 DEF TypeOK, texts
<1>4. CASE ~sub[c].cancelled
  <2> DEFINE row == [sub[c] EXCEPT !.status = "running", !.fired = FALSE, !.ran = TRUE]
             next == [worker[w] EXCEPT !.at = "turn"]
  <2>1. row \in SubRow /\ RowInv(row, PoolOpen) /\ Keeps(sub[c], row)
    BY <1>2 DEF SubRow, RowInv, AtInv, Terminal, Billed, Over, Keeps
  <2>2. AtInv("turn", worker[w].more, row)
    BY <1>2 DEF SubRow, AtInv, Terminal, Billed
  <2>3. next \in WorkerRow /\ next.at = "turn" /\ next.sub = c /\ next.more = worker[w].more
    BY <1>2 DEF WorkerRow
  <2>4. SubBecomes(c, row) /\ WorkerBecomes(w, next)
    BY <1>4 DEF BeginTurn, WorkerGoes
  <2> HIDE DEF row, next
  <2>5. sub' \in [Sub -> SubRow] /\ worker' \in [Worker -> WorkerRow] /\ CoreInv'
    BY <1>1, <2>1, <2>2, <2>3, <2>4, WorkerStep
  <2> QED BY <1>1, <2>5 DEF TypeOK, texts
<1> QED BY <1>3, <1>4

(* the end of a turn, *)
LEMMA LandSafe ==
    ASSUME TypeOK, CoreInv, NEW w \in Worker, Land(w)
    PROVE  TypeOK' /\ CoreInv'
<1> DEFINE c == worker[w].sub
           more == inbox[c] # {} /\ ~sub[c].cancelled
           next == [worker[w] EXCEPT !.at = "settle", !.batch = inbox[c], !.more = more,
                           !.outcome = IF sub[c].cancelled THEN "discarded" ELSE "read"]
<1>1. worker[w].at = "turn" /\ UNCHANGED <<children, work, sent, told, closer, exit>>
  BY DEF Land
<1>2. /\ worker[w] \in WorkerRow /\ c \in Sub /\ sub[c] \in SubRow
      /\ RowInv(sub[c], PoolOpen) /\ AtInv("turn", worker[w].more, sub[c])
  BY <1>1, AtWork
<1>3. PICK end \in Terminal \ {"cancelled"} :
          SubBecomes(c, IF more
               THEN [sub[c] EXCEPT !.landed = TRUE, !.status = "running", !.fired = FALSE]
               ELSE [sub[c] EXCEPT !.landed = TRUE, !.status = end, !.accepting = FALSE])
  BY DEF Land
<1>4. inbox[c] \subseteq Text /\ more \in BOOLEAN
  BY <1>2 DEF TypeOK
<1>5. next \in WorkerRow /\ next.at = "settle" /\ next.sub = c /\ next.more = more
  BY <1>2, <1>4 DEF WorkerRow, Outcome
<1>6. WorkerBecomes(w, next) /\ inbox' \in [Sub -> SUBSET Text]
  BY <1>2 DEF Land, TypeOK
<1> HIDE DEF next
<1>7. CASE more
  <2> DEFINE row == [sub[c] EXCEPT !.landed = TRUE, !.status = "running", !.fired = FALSE]
  <2>1. row \in SubRow /\ RowInv(row, PoolOpen) /\ Keeps(sub[c], row)
    BY <1>2 DEF SubRow, RowInv, AtInv, Terminal, Billed, Over, Keeps
  <2>2. AtInv("settle", TRUE, row)
    BY <1>2 DEF SubRow, AtInv, Terminal, Billed
  <2>3. SubBecomes(c, row) /\ next.more = TRUE
    BY <1>3, <1>5, <1>7
  <2> HIDE DEF row, more
  <2>4. sub' \in [Sub -> SubRow] /\ worker' \in [Worker -> WorkerRow] /\ CoreInv'
    BY <1>1, <1>5, <1>6, <2>1, <2>2, <2>3, WorkerStep
  <2> QED BY <1>1, <1>6, <2>4 DEF TypeOK
<1>8. CASE ~more
  <2> DEFINE row == [sub[c] EXCEPT !.landed = TRUE, !.status = end, !.accepting = FALSE]
  <2>1. row \in SubRow /\ RowInv(row, PoolOpen) /\ Keeps(sub[c], row)
    BY <1>2 DEF SubRow, RowInv, AtInv, Terminal, Billed, Over, Keeps
  <2>2. AtInv("settle", FALSE, row)
    BY <1>2 DEF SubRow, AtInv, Terminal, Billed
  <2>3. SubBecomes(c, row) /\ next.more = FALSE
    BY <1>3, <1>5, <1>8
  <2> HIDE DEF row, more
  <2>4. sub' \in [Sub -> SubRow] /\ worker' \in [Worker -> WorkerRow] /\ CoreInv'
    BY <1>1, <1>5, <1>6, <2>1, <2>2, <2>3, WorkerStep
  <2> QED BY <1>1, <1>6, <2>4 DEF TypeOK
<1> QED BY <1>7, <1>8

(* its failure, *)
LEMMA TurnRaisesSafe ==
    ASSUME TypeOK, CoreInv, NEW w \in Worker, TurnRaises(w)
    PROVE  TypeOK' /\ CoreInv'
<1> DEFINE c == worker[w].sub
           row == [sub[c] EXCEPT !.status = "error", !.accepting = FALSE, !.landed = TRUE]
           next == [worker[w] EXCEPT !.at = "drop"]
<1>1. worker[w].at = "turn" /\ UNCHANGED <<children, work, texts, closer, exit>>
  BY DEF TurnRaises
<1>2. /\ worker[w] \in WorkerRow /\ c \in Sub /\ sub[c] \in SubRow
      /\ RowInv(sub[c], PoolOpen) /\ AtInv("turn", worker[w].more, sub[c])
  BY <1>1, AtWork
<1>3. row \in SubRow /\ RowInv(row, PoolOpen) /\ Keeps(sub[c], row)
  BY <1>2 DEF SubRow, RowInv, AtInv, Terminal, Billed, Over, Keeps
<1>4. AtInv("drop", worker[w].more, row)
  BY <1>2 DEF SubRow, AtInv, Terminal, Billed
<1>5. next \in WorkerRow /\ next.at = "drop" /\ next.sub = c /\ next.more = worker[w].more
  BY <1>2 DEF WorkerRow
<1>6. SubBecomes(c, row) /\ WorkerBecomes(w, next)
  BY DEF TurnRaises, WorkerGoes
<1> HIDE DEF row, next
<1>7. sub' \in [Sub -> SubRow] /\ worker' \in [Worker -> WorkerRow] /\ CoreInv'
  BY <1>1, <1>3, <1>4, <1>5, <1>6, WorkerStep
<1> QED BY <1>1, <1>7 DEF TypeOK, texts

(* A worker moves on and leaves its row as it is. *)
LEMMA WorkerMoves ==
    ASSUME TypeOK, CoreInv, UNCHANGED <<sub, children, closer, exit>>,
           NEW w \in Worker, worker[w].at # "idle",
           NEW next \in WorkerRow, WorkerBecomes(w, next),
           next.at # "idle", next.sub = worker[w].sub,
           AtInv(next.at, next.more, sub[worker[w].sub])
    PROVE  worker' \in [Worker -> WorkerRow] /\ CoreInv'
<1> DEFINE row == sub[worker[w].sub]
<1>1. row \in SubRow /\ RowInv(row, PoolOpen) /\ worker[w].sub \in Sub
  BY AtWork
<1>2. SubBecomes(worker[w].sub, row) /\ Keeps(row, row)
  BY <1>1 DEF SubBecomes, TypeOK, Keeps
<1> HIDE DEF row
<1>3. AtInv(next.at, next.more, row) /\ row = sub[worker[w].sub]
  BY DEF row
<1> QED BY <1>1, <1>2, <1>3, WorkerStep

(* the batch it captured, *)
LEMMA SettleBatchSafe ==
    ASSUME TypeOK, CoreInv, NEW w \in Worker, SettleBatch(w)
    PROVE  TypeOK' /\ CoreInv'
<1> DEFINE next == [worker[w] EXCEPT !.at = IF worker[w].more THEN "loop" ELSE "fire",
                           !.batch = {}, !.more = FALSE, !.outcome = "read"]
<1>1. worker[w].at = "settle" /\ UNCHANGED <<sub, children, work, inbox, sent, closer, exit>>
  BY DEF SettleBatch
<1>2. /\ worker[w] \in WorkerRow
      /\ AtInv("settle", worker[w].more, sub[worker[w].sub])
  BY <1>1, AtWork
<1>3. /\ next \in WorkerRow /\ next.sub = worker[w].sub /\ next.more = FALSE
      /\ next.at = IF worker[w].more THEN "loop" ELSE "fire"
  BY <1>2 DEF WorkerRow, Outcome
<1>4. AtInv(next.at, next.more, sub[worker[w].sub])
  BY <1>2, <1>3 DEF AtInv, Billed, Terminal
<1>5. WorkerBecomes(w, next)
  BY DEF SettleBatch
<1> HIDE DEF next
<1>6. worker' \in [Worker -> WorkerRow] /\ CoreInv'
  BY <1>1, <1>3, <1>4, <1>5, WorkerMoves
<1>7. told' \in [Text -> Seq(Outcome)]
  BY <1>2, SettleType DEF SettleBatch, TypeOK, WorkerRow
<1> QED BY <1>1, <1>6, <1>7 DEF TypeOK

(* the inbox it drops, *)
LEMMA DropInboxSafe ==
    ASSUME TypeOK, CoreInv, NEW w \in Worker, DropInbox(w)
    PROVE  TypeOK' /\ CoreInv'
<1> DEFINE next == [worker[w] EXCEPT !.at = "fire"]
<1>1. worker[w].at = "drop" /\ UNCHANGED <<sub, children, work, sent, closer, exit>>
  BY DEF DropInbox
<1>2. /\ worker[w] \in WorkerRow /\ worker[w].sub \in Sub
      /\ AtInv("drop", worker[w].more, sub[worker[w].sub])
  BY <1>1, AtWork
<1>3. next \in WorkerRow /\ next.sub = worker[w].sub /\ next.more = worker[w].more /\ next.at = "fire"
  BY <1>2 DEF WorkerRow
<1>4. AtInv("fire", worker[w].more, sub[worker[w].sub])
  BY <1>2 DEF AtInv
<1>5. WorkerBecomes(w, next)
  BY DEF DropInbox, WorkerGoes
<1> HIDE DEF next
<1>6. worker' \in [Worker -> WorkerRow] /\ CoreInv'
  BY <1>1, <1>3, <1>4, <1>5, WorkerMoves
<1>7. inbox' \in [Sub -> SUBSET Text] /\ told' \in [Text -> Seq(Outcome)]
  BY <1>2, DiscardType DEF DropInbox
<1> QED BY <1>1, <1>6, <1>7 DEF TypeOK

(* and the one it reads while it runs. *)
LEMMA ReadMidTurnSafe ==
    ASSUME TypeOK, CoreInv, NEW w \in Worker, ReadMidTurn(w)
    PROVE  TypeOK' /\ CoreInv'
<1>1. UNCHANGED <<sub, children, work, sent, threads>>
  BY DEF ReadMidTurn
<1>2. inbox' \in [Sub -> SUBSET Text]
  BY DEF ReadMidTurn, TypeOK
<1>3. told' \in [Text -> Seq(Outcome)]
  BY SettleType DEF ReadMidTurn, TypeOK, Outcome
<1>4. TypeOK'
  BY <1>1, <1>2, <1>3 DEF TypeOK, threads
<1>5. CoreInv'
  BY <1>1 DEF CoreInv, RowInv, WorkerInv, CloserInv, ExitInv, OneOwner, PoolOpen, threads
<1> QED BY <1>4, <1>5

(* The call of the hook: over a settled status, and only the hook is consumed. *)
LEMMA FireDoneRow ==
    ASSUME TypeOK, CoreInv, NEW c \in Sub, sub[c].status \in Terminal, FireDone(c)
    PROVE  \E row \in SubRow :
              /\ SubBecomes(c, row) /\ RowInv(row, PoolOpen)
              /\ Keeps(sub[c], row) /\ SameTurn(sub[c], row)
              /\ ~row.hook /\ row.status = sub[c].status
<1>0. sub[c] \in SubRow /\ RowInv(sub[c], PoolOpen)
  BY DEF TypeOK, CoreInv
<1>1. CASE sub[c].hook /\ ~sub[c].fired
  <2> DEFINE row == [sub[c] EXCEPT !.hook = FALSE, !.fired = TRUE]
  <2>1. row \in SubRow /\ RowInv(row, PoolOpen) /\ ~row.hook /\ row.status = sub[c].status
    BY <1>0 DEF SubRow, RowInv, Terminal, Billed, Over
  <2>2. Keeps(sub[c], row) /\ SameTurn(sub[c], row)
    BY <1>0 DEF SubRow, Keeps, SameTurn
  <2>3. SubBecomes(c, row)
    BY <1>1 DEF FireDone
  <2> HIDE DEF row
  <2> QED BY <2>1, <2>2, <2>3
<1>2. CASE ~(sub[c].hook /\ ~sub[c].fired)
  <2>1. SubBecomes(c, sub[c])
    BY <1>2 DEF FireDone, SubBecomes, TypeOK
  <2>2. ~sub[c].hook
    BY <1>0, <1>2 DEF RowInv, SubRow
  <2>3. Keeps(sub[c], sub[c]) /\ SameTurn(sub[c], sub[c])
    BY <2>2 DEF Keeps, SameTurn
  <2> QED BY <1>0, <2>1, <2>2, <2>3
<1> QED BY <1>1, <1>2

(* The worker calls the hook of a series that is over. *)
LEMMA WorkerFiresSafe ==
    ASSUME TypeOK, CoreInv, NEW w \in Worker, WorkerFires(w)
    PROVE  TypeOK' /\ CoreInv'
<1> DEFINE c == worker[w].sub
           next == [worker[w] EXCEPT !.at = "hook"]
<1>1. worker[w].at = "fire" /\ UNCHANGED <<children, work, texts, closer, exit>>
  BY DEF WorkerFires
<1>2. /\ worker[w] \in WorkerRow /\ c \in Sub /\ AtInv("fire", worker[w].more, sub[c])
  BY <1>1, AtWork
<1>3. PICK row \in SubRow :
              /\ SubBecomes(c, row) /\ RowInv(row, PoolOpen)
              /\ Keeps(sub[c], row) /\ SameTurn(sub[c], row)
              /\ ~row.hook /\ row.status = sub[c].status
  BY <1>2, FireDoneRow DEF WorkerFires, AtInv
<1>4. AtInv("hook", worker[w].more, row)
  BY <1>2, <1>3 DEF AtInv, SameTurn, Billed
<1>5. next \in WorkerRow /\ next.at = "hook" /\ next.sub = c /\ next.more = worker[w].more
  BY <1>2 DEF WorkerRow
<1>6. WorkerBecomes(w, next)
  BY DEF WorkerFires, WorkerGoes
<1> HIDE DEF next
<1>7. sub' \in [Sub -> SubRow] /\ worker' \in [Worker -> WorkerRow] /\ CoreInv'
  BY <1>1, <1>3, <1>4, <1>5, <1>6, WorkerStep
<1> QED BY <1>1, <1>7 DEF TypeOK, texts

(* The worker lets go of a row that is over. *)
LEMMA WorkerReturnsSafe ==
    ASSUME TypeOK, CoreInv, NEW w \in Worker, WorkerReturns(w)
    PROVE  TypeOK' /\ CoreInv'
<1> DEFINE c == worker[w].sub
           row == [sub[c] EXCEPT !.future = "done"]
<1>1. worker[w].at = "hook" /\ UNCHANGED <<children, work, texts, closer, exit>>
  BY DEF WorkerReturns
<1>2. /\ worker[w] \in WorkerRow /\ c \in Sub /\ sub[c] \in SubRow
      /\ RowInv(sub[c], PoolOpen) /\ AtInv("hook", worker[w].more, sub[c])
  BY <1>1, AtWork
<1>3. row \in SubRow /\ RowInv(row, PoolOpen) /\ Keeps(sub[c], row) /\ row.future = "done"
  BY <1>2 DEF SubRow, RowInv, AtInv, Terminal, Billed, Over, Keeps
<1>4. SubBecomes(c, row) /\ worker' = [worker EXCEPT ![w] = Resting] /\ PoolOpen' = PoolOpen
  BY <1>1 DEF WorkerReturns, WorkerBecomes, PoolOpen
<1> HIDE DEF row
<1>5. sub' \in [Sub -> SubRow] /\ \A d \in Sub : sub'[d] = IF d = c THEN row ELSE sub[d]
  BY <1>2, <1>3, <1>4, SubBecomesType DEF TypeOK
<1>6. Resting \in WorkerRow /\ Resting.at = "idle"
  BY DEF Resting, WorkerRow, Outcome
<1>7. /\ worker' \in [Worker -> WorkerRow]
      /\ \A v \in Worker : worker'[v] = IF v = w THEN Resting ELSE worker[v]
  BY <1>4, <1>6 DEF TypeOK
<1>8. (\A d \in Sub : RowInv(sub'[d], PoolOpen')) /\ \A d \in Sub : Keeps(sub[d], sub'[d])
  BY <1>2, <1>3, <1>4, OneRow
<1>9. \A d \in children' : sub'[d].future # "none"
  BY <1>1, <1>8, RegistryKeeps
<1>10. (\A k \in Canceller : CloserInv(k)') /\ ExitInv'
  BY <1>1, <1>8, ClosersKeep, ExitKeeps
<1>11. ASSUME NEW v \in Worker PROVE WorkerInv(v)'
  <2>1. CASE v = w
    BY <1>6, <1>7, <2>1 DEF WorkerInv
  <2>2. CASE v # w
    <3>1. worker'[v] = worker[v]
      BY <1>7, <2>2
    <3>2. worker[v].at # "idle" => worker[v].sub # c
      BY <1>1, <2>2 DEF CoreInv, OneOwner
    <3>3. \A d \in Sub : worker[v].at # "idle" /\ worker[v].sub = d => SameTurn(sub[d], sub'[d])
      BY <1>5, <3>2 DEF SameTurn
    <3> QED BY <3>1, <3>3, WorkerKeeps
  <2> QED BY <2>1, <2>2
<1>12. OneOwner'
  <2>1. \A d \in Sub : sub'[d].future = "running" => d # c /\ sub[d].future = "running"
    BY <1>3, <1>5
  <2>2. \A v \in Worker : /\ worker'[v].at # "idle" => v # w /\ worker'[v] = worker[v]
                          /\ v # w => worker'[v] = worker[v]
    BY <1>6, <1>7
  <2> QED BY <2>1, <2>2 DEF CoreInv, OneOwner
<1>13. CoreInv'
  BY <1>8, <1>9, <1>10, <1>11, <1>12 DEF CoreInv
<1> QED BY <1>1, <1>5, <1>7, <1>13 DEF TypeOK, texts

(* A queue that is not empty has a first call and the rest. *)
LEMMA HeadAndTail ==
    ASSUME NEW S, NEW s \in Seq(S), s # <<>>
    PROVE  Head(s) \in S /\ Tail(s) \in Seq(S)
OBVIOUS

(* A worker takes the only call whose Future is still queued: nobody owns it. *)
LEMMA TakeWorkSafe ==
    ASSUME TypeOK, CoreInv, NEW w \in Worker, TakeWork(w)
    PROVE  TypeOK' /\ CoreInv'
<1> DEFINE item == Head(work)
           c == item.sub
           row == [sub[c] EXCEPT !.future = "running"]
           next == [worker[w] EXCEPT !.at = "loop", !.sub = c]
<1>1. worker[w].at = "idle" /\ work # <<>> /\ UNCHANGED <<children, texts, closer, exit>>
  BY DEF TakeWork
<1>2. work' \in Seq([sub : Sub, accepted : BOOLEAN]) /\ item \in [sub : Sub, accepted : BOOLEAN]
  BY <1>1, HeadAndTail DEF TakeWork, TypeOK
<1>3. c \in Sub
  BY <1>2
<1>4. CASE ~MayRun(item)
  <2>1. UNCHANGED <<sub, worker>>
    BY <1>4 DEF TakeWork
  <2>2. CoreInv'
    BY <1>1, <2>1 DEF CoreInv, RowInv, WorkerInv, CloserInv, ExitInv, OneOwner, PoolOpen
  <2> QED BY <1>1, <1>2, <2>1, <2>2 DEF TypeOK, texts
<1>5. CASE MayRun(item)
  <2>1. /\ sub[c] \in SubRow /\ RowInv(sub[c], PoolOpen) /\ sub[c].future = "queued"
        /\ worker[w] \in WorkerRow
    BY <1>3, <1>5 DEF MayRun, TypeOK, CoreInv
  <2>2. /\ row \in SubRow /\ RowInv(row, PoolOpen) /\ Keeps(sub[c], row)
        /\ AtInv("loop", worker[w].more, row)
    BY <2>1 DEF SubRow, RowInv, AtInv, Terminal, Billed, Over, Keeps
  <2>3. next \in WorkerRow /\ next.at = "loop" /\ next.sub = c /\ next.more = worker[w].more
    BY <1>3, <2>1 DEF WorkerRow
  <2>4. SubBecomes(c, row) /\ WorkerBecomes(w, next) /\ PoolOpen' = PoolOpen
    BY <1>1, <1>5 DEF TakeWork, PoolOpen
  <2>5. sub[c].future = "queued"
    BY <2>1
  <2> HIDE DEF row, next, item
  <2>6. sub' \in [Sub -> SubRow] /\ \A d \in Sub : sub'[d] = IF d = c THEN row ELSE sub[d]
    BY <1>3, <2>2, <2>4, SubBecomesType DEF TypeOK
  <2>7. /\ worker' \in [Worker -> WorkerRow]
        /\ \A v \in Worker : worker'[v] = IF v = w THEN next ELSE worker[v]
    BY <2>3, <2>4 DEF TypeOK, WorkerBecomes
  <2>8. (\A d \in Sub : RowInv(sub'[d], PoolOpen')) /\ \A d \in Sub : Keeps(sub[d], sub'[d])
    BY <1>3, <2>2, <2>4, OneRow
  <2>9. \A d \in children' : sub'[d].future # "none"
    BY <1>1, <2>8, RegistryKeeps
  <2>10. (\A k \in Canceller : CloserInv(k)') /\ ExitInv'
    BY <1>1, <2>8, ClosersKeep, ExitKeeps
  <2>11. \A v \in Worker : worker[v].at # "idle" => worker[v].sub # c
    BY <2>5, AtWork DEF AtInv
  <2>12. ASSUME NEW v \in Worker PROVE WorkerInv(v)'
    <3>1. CASE v = w
      BY <1>3, <2>2, <2>3, <2>6, <2>7, <3>1 DEF WorkerInv
    <3>2. CASE v # w
      <4>1. worker'[v] = worker[v]
        BY <2>7, <3>2
      <4>2. \A d \in Sub : worker[v].at # "idle" /\ worker[v].sub = d => SameTurn(sub[d], sub'[d])
        BY <2>6, <2>11 DEF SameTurn
      <4> QED BY <4>1, <4>2, WorkerKeeps
    <3> QED BY <3>1, <3>2
  <2>13. OneOwner'
    <3>1. \A d \in Sub : sub'[d].future = "running" => d = c \/ sub[d].future = "running"
      BY <2>6
    <3>2. \A v \in Worker : v # w => worker'[v] = worker[v]
      BY <2>7
    <3>3. worker'[w].at = "loop" /\ worker'[w].sub = c
      BY <2>3, <2>7
    <3>4. \A v, u \in Worker : worker'[v].at # "idle" /\ worker'[u].at # "idle"
                               /\ worker'[v].sub = worker'[u].sub => v = u
      BY <2>11, <3>2, <3>3 DEF CoreInv, OneOwner
    <3>5. \A d \in Sub : sub'[d].future = "running" =>
              \E v \in Worker : worker'[v].at # "idle" /\ worker'[v].sub = d
      BY <1>1, <3>1, <3>2, <3>3 DEF CoreInv, OneOwner
    <3> QED BY <3>4, <3>5 DEF OneOwner
  <2>14. CoreInv'
    BY <2>8, <2>9, <2>10, <2>12, <2>13 DEF CoreInv
  <2> QED BY <1>1, <1>2, <2>6, <2>7, <2>14 DEF TypeOK, texts
<1> QED BY <1>4, <1>5
-------------------------------------------------------------------------------
(* A closer replaces a row no worker owns, or says no news of it. *)
LEMMA CloserRow ==
    ASSUME TypeOK, CoreInv, UNCHANGED <<children, worker>>, PoolOpen' => PoolOpen,
           NEW c \in Sub, NEW row \in SubRow, SubBecomes(c, row),
           RowInv(row, PoolOpen'), Keeps(sub[c], row),
           sub[c].future # "running" \/ SameTurn(sub[c], row),
           sub[c].future # "running" => row.future # "running"
    PROVE  /\ sub' \in [Sub -> SubRow] /\ sub'[c] = row
           /\ \A d \in Sub : RowInv(sub'[d], PoolOpen')
           /\ \A d \in Sub : Keeps(sub[d], sub'[d])
           /\ \A d \in children' : sub'[d].future # "none"
           /\ \A w \in Worker : WorkerInv(w)'
           /\ OneOwner'
<1>1. sub' \in [Sub -> SubRow] /\ sub'[c] = row
  BY SubBecomesType DEF TypeOK
<1>2. (\A d \in Sub : RowInv(sub'[d], PoolOpen')) /\ \A d \in Sub : Keeps(sub[d], sub'[d])
  BY OneRow
<1>3. (\A w \in Worker : WorkerInv(w)') /\ OneOwner'
  BY FreeRow
<1>4. \A d \in children' : sub'[d].future # "none"
  BY <1>2, RegistryKeeps
<1> QED BY <1>1, <1>2, <1>3, <1>4

CloserRows == [at : {"idle", "flagged", "discard", "settle", "fire"}, sub : Sub \cup {"none"}]

(* cancel moves one of its threads on, over the row it dropped. *)
LEMMA CancelStep ==
    ASSUME TypeOK, CoreInv, UNCHANGED <<children, worker, exit>>,
           NEW k \in Canceller,
           NEW row \in SubRow, closer[k].at # "idle", SubBecomes(closer[k].sub, row),
           RowInv(row, PoolOpen), Keeps(sub[closer[k].sub], row),
           sub[closer[k].sub].future # "running" \/ SameTurn(sub[closer[k].sub], row),
           sub[closer[k].sub].future # "running" => row.future # "running",
           NEW next \in CloserRows, closer' = [closer EXCEPT ![k] = next],
           next.at # "idle" => next.sub = closer[k].sub /\ row.future = "dropped",
           next.at = "fire" => row.status \in Terminal
    PROVE  sub' \in [Sub -> SubRow] /\ closer' \in [Canceller -> CloserRows] /\ CoreInv'
<1> DEFINE c == closer[k].sub
<1>1. /\ c \in Sub /\ sub[c].future # "none" /\ sub[c].cancelled /\ PoolOpen' = PoolOpen
  BY DEF CoreInv, CloserInv, PoolOpen
<1>2. /\ sub' \in [Sub -> SubRow] /\ sub'[c] = row
      /\ \A d \in Sub : RowInv(sub'[d], PoolOpen')
      /\ \A d \in Sub : Keeps(sub[d], sub'[d])
      /\ \A d \in children' : sub'[d].future # "none"
      /\ \A w \in Worker : WorkerInv(w)'
      /\ OneOwner'
  BY <1>1, CloserRow
<1>3. ExitInv'
  BY <1>2, ExitKeeps
<1>4. ASSUME NEW j \in Canceller PROVE CloserInv(j)'
  <2>1. CASE j = k
    <3>1. closer'[k] = next
      BY DEF TypeOK
    <3>2. row.future # "none" /\ row.cancelled
      BY <1>1 DEF Keeps
    <3> QED BY <1>1, <1>2, <2>1, <3>1, <3>2 DEF CloserInv
  <2>2. CASE j # k
    BY <1>2, <2>2, ClosersKeep DEF TypeOK
  <2> QED BY <2>1, <2>2
<1>5. closer' \in [Canceller -> CloserRows]
  BY DEF TypeOK, CloserRows
<1> QED BY <1>2, <1>3, <1>4, <1>5 DEF CoreInv

(* What a thread inside cancel knows of its row. *)
LEMMA AtCancel ==
    ASSUME TypeOK, CoreInv, NEW k \in Canceller, closer[k].at # "idle"
    PROVE  /\ closer[k] \in CloserRows /\ closer[k].sub \in Sub
           /\ sub[closer[k].sub] \in SubRow /\ sub[closer[k].sub].cancelled
           /\ RowInv(sub[closer[k].sub], PoolOpen)
           /\ closer[k].at # "flagged" => sub[closer[k].sub].future = "dropped"
           /\ closer[k].at = "fire" => sub[closer[k].sub].status \in Terminal
<1>1. closer[k].sub \in Sub
  BY DEF CoreInv, CloserInv
<1> QED BY <1>1 DEF TypeOK, CoreInv, CloserInv, CloserRows

(* A thread outside cancel. *)
LEMMA AtRestRow == AtRest \in CloserRows /\ AtRest.at = "idle"
BY DEF AtRest, CloserRows

(* The steps of cancel: the Future, *)
LEMMA CancelFutureSafe ==
    ASSUME TypeOK, CoreInv, NEW k \in Canceller, CancelFuture(k)
    PROVE  TypeOK' /\ CoreInv'
<1> DEFINE c == closer[k].sub
<1>1. closer[k].at = "flagged" /\ UNCHANGED <<children, work, texts, worker, exit>>
  BY DEF CancelFuture
<1>2. /\ closer[k] \in CloserRows /\ c \in Sub /\ sub[c] \in SubRow /\ sub[c].cancelled
      /\ RowInv(sub[c], PoolOpen)
  BY <1>1, AtCancel
<1>3. CASE sub[c].future \in {"queued", "dropped"}
  <2> DEFINE row == [sub[c] EXCEPT !.future = "dropped"]
             next == [closer[k] EXCEPT !.at = "discard"]
  <2>1. row \in SubRow /\ RowInv(row, PoolOpen) /\ Keeps(sub[c], row) /\ row.future = "dropped"
    BY <1>2, <1>3 DEF SubRow, RowInv, Terminal, Billed, Over, Keeps
  <2>2. next \in CloserRows /\ next.at = "discard" /\ next.sub = c
    BY <1>2 DEF CloserRows
  <2>3. SubBecomes(c, row) /\ closer' = [closer EXCEPT ![k] = next]
    BY <1>3 DEF CancelFuture, CloserGoes
  <2>4. sub[c].future # "running"
    BY <1>3
  <2> HIDE DEF row, next
  <2>5. sub' \in [Sub -> SubRow] /\ closer' \in [Canceller -> CloserRows] /\ CoreInv'
    BY <1>1, <2>1, <2>2, <2>3, <2>4, CancelStep
  <2> QED BY <1>1, <2>5 DEF TypeOK, texts, CloserRows
<1>4. CASE sub[c].future \notin {"queued", "dropped"}
  <2> DEFINE row == sub[c]
  <2>1. row \in SubRow /\ RowInv(row, PoolOpen) /\ Keeps(sub[c], row)
    BY <1>2 DEF Keeps
  <2>2. SubBecomes(c, row) /\ SameTurn(sub[c], row)
    BY <1>2, <1>4 DEF CancelFuture, SubBecomes, SameTurn, TypeOK
  <2>3. closer' = [closer EXCEPT ![k] = AtRest] /\ row = sub[c]
    BY <1>4 DEF CancelFuture
  <2> HIDE DEF row
  <2>4. sub' \in [Sub -> SubRow] /\ closer' \in [Canceller -> CloserRows] /\ CoreInv'
    BY <1>1, <2>1, <2>2, <2>3, AtRestRow, CancelStep
  <2> QED BY <1>1, <2>4 DEF TypeOK, texts, CloserRows
<1> QED BY <1>3, <1>4

(* the inbox, *)
LEMMA CancelDiscardsSafe ==
    ASSUME TypeOK, CoreInv, NEW k \in Canceller, CancelDiscards(k)
    PROVE  TypeOK' /\ CoreInv'
<1> DEFINE c == closer[k].sub
           row == sub[c]
           next == [closer[k] EXCEPT !.at = "settle"]
<1>1. closer[k].at = "discard" /\ UNCHANGED <<sub, children, work, sent, worker, exit>>
  BY DEF CancelDiscards
<1>2. /\ closer[k] \in CloserRows /\ c \in Sub /\ row \in SubRow
      /\ RowInv(row, PoolOpen) /\ row.future = "dropped"
  BY <1>1, AtCancel
<1>3. SubBecomes(c, row) /\ Keeps(sub[c], row) /\ row = sub[c]
  BY <1>1, <1>2 DEF SubBecomes, Keeps, TypeOK
<1>4. next \in CloserRows /\ next.at = "settle" /\ next.sub = c
  BY <1>2 DEF CloserRows
<1>5. closer' = [closer EXCEPT ![k] = next]
  BY DEF CancelDiscards, CloserGoes
<1>6. inbox' \in [Sub -> SUBSET Text] /\ told' \in [Text -> Seq(Outcome)]
  BY <1>2, DiscardType DEF CancelDiscards
<1> HIDE DEF row, next
<1>7. sub' \in [Sub -> SubRow] /\ closer' \in [Canceller -> CloserRows] /\ CoreInv'
  BY <1>1, <1>2, <1>3, <1>4, <1>5, CancelStep
<1> QED BY <1>1, <1>6, <1>7 DEF TypeOK, CloserRows

(* What a dropped row becomes when it is settled, the second time included. *)
LEMMA SettledRow ==
    ASSUME TypeOK, CoreInv, NEW c \in Sub, sub[c].future = "dropped"
    PROVE  LET row == [sub[c] EXCEPT !.status = CancelledStatus(c)] IN
           /\ row \in SubRow /\ RowInv(row, PoolOpen) /\ Keeps(sub[c], row)
           /\ row.future = "dropped" /\ row.status \in Terminal
<1>0. sub[c] \in SubRow /\ RowInv(sub[c], PoolOpen)
  BY DEF TypeOK, CoreInv
<1>1. CancelledStatus(c) = IF sub[c].landed THEN "interrupted" ELSE "cancelled"
  BY DEF CancelledStatus
<1> QED BY <1>0, <1>1 DEF SubRow, RowInv, Terminal, Billed, Over, Keeps

(* the status, *)
LEMMA CancelSettlesSafe ==
    ASSUME TypeOK, CoreInv, NEW k \in Canceller, CancelSettles(k)
    PROVE  TypeOK' /\ CoreInv'
<1> DEFINE c == closer[k].sub
           row == [sub[c] EXCEPT !.status = CancelledStatus(c)]
           next == [closer[k] EXCEPT !.at = "fire"]
<1>1. closer[k].at = "settle" /\ UNCHANGED <<children, work, texts, worker, exit>>
  BY DEF CancelSettles
<1>2. /\ closer[k] \in CloserRows /\ c \in Sub /\ sub[c] \in SubRow
      /\ RowInv(sub[c], PoolOpen) /\ sub[c].future = "dropped"
  BY <1>1, AtCancel
<1>3. /\ row \in SubRow /\ RowInv(row, PoolOpen) /\ Keeps(sub[c], row)
      /\ row.future = "dropped" /\ row.status \in Terminal
  BY <1>2, SettledRow
<1>4. next \in CloserRows /\ next.at = "fire" /\ next.sub = c
  BY <1>2 DEF CloserRows
<1>5. SubBecomes(c, row) /\ closer' = [closer EXCEPT ![k] = next]
  BY DEF CancelSettles, CloserGoes
<1> HIDE DEF row, next
<1>6. sub' \in [Sub -> SubRow] /\ closer' \in [Canceller -> CloserRows] /\ CoreInv'
  BY <1>1, <1>2, <1>3, <1>4, <1>5, CancelStep
<1> QED BY <1>1, <1>6 DEF TypeOK, texts, CloserRows

(* and the hook. *)
LEMMA CancelFiresSafe ==
    ASSUME TypeOK, CoreInv, NEW k \in Canceller, CancelFires(k)
    PROVE  TypeOK' /\ CoreInv'
<1> DEFINE c == closer[k].sub
<1>1. closer[k].at = "fire" /\ UNCHANGED <<children, work, texts, worker, exit>>
  BY DEF CancelFires
<1>2. c \in Sub /\ sub[c].future = "dropped" /\ sub[c].status \in Terminal
  BY <1>1, AtCancel
<1>3. PICK row \in SubRow :
              /\ SubBecomes(c, row) /\ RowInv(row, PoolOpen)
              /\ Keeps(sub[c], row) /\ SameTurn(sub[c], row)
              /\ ~row.hook /\ row.status = sub[c].status
  BY <1>2, FireDoneRow DEF CancelFires
<1>4. closer' = [closer EXCEPT ![k] = AtRest]
  BY DEF CancelFires
<1>5. sub' \in [Sub -> SubRow] /\ closer' \in [Canceller -> CloserRows] /\ CoreInv'
  BY <1>1, <1>2, <1>3, <1>4, AtRestRow, CancelStep DEF SameTurn
<1> QED BY <1>1, <1>5 DEF TypeOK, texts, CloserRows
-------------------------------------------------------------------------------
(* shutdown moves on, and every row is the one it was. *)
LEMMA ExitMoves ==
    ASSUME TypeOK, CoreInv, UNCHANGED <<sub, children, worker, closer>>,
           exit'.at # "firing", PoolOpen' => PoolOpen
    PROVE  CoreInv'
<1>1. \A d \in Sub : RowInv(sub'[d], PoolOpen')
  BY DEF CoreInv, RowInv
<1>2. (\A w \in Worker : WorkerInv(w)') /\ (\A k \in Canceller : CloserInv(k)') /\ OneOwner'
  BY DEF CoreInv, WorkerInv, CloserInv, OneOwner
<1> QED BY <1>1, <1>2 DEF CoreInv, ExitInv

(* The sweep drops one inbox. *)
LEMMA StopOneSafe ==
    ASSUME TypeOK, CoreInv, StopOne
    PROVE  TypeOK' /\ CoreInv'
<1>1. /\ exit.at \in {"stopping", "sweeping"}
      /\ UNCHANGED <<sub, children, work, sent, worker, closer>>
  BY DEF StopOne
<1>2. PICK c \in exit.todo : Discard(c) /\ exit' = [exit EXCEPT !.todo = @ \ {c}]
  BY DEF StopOne
<1>3. c \in Sub
  BY <1>2 DEF TypeOK
<1>4. inbox' \in [Sub -> SUBSET Text] /\ told' \in [Text -> Seq(Outcome)]
  BY <1>2, <1>3, DiscardType
<1>5. TypeOK' /\ exit'.at = exit.at
  BY <1>1, <1>2, <1>4 DEF TypeOK
<1>6. CoreInv'
  BY <1>1, <1>5, ExitMoves DEF PoolOpen
<1> QED BY <1>5, <1>6

(* Every queued call is dropped as the pool closes: no worker owned one. *)
LEMMA ClosePoolSafe ==
    ASSUME TypeOK, CoreInv, ClosePool
    PROVE  TypeOK' /\ CoreInv'
<1>1. exit.at = "stopping" /\ UNCHANGED <<children, texts, worker, closer>>
  BY DEF ClosePool
<1>2. CASE exit.wait
  <2>1. exit' = [exit EXCEPT !.at = "joining"] /\ UNCHANGED <<sub, work>>
    BY <1>2 DEF ClosePool
  <2>2. TypeOK' /\ exit'.at = "joining"
    BY <1>1, <2>1 DEF TypeOK, texts
  <2> QED BY <1>1, <2>1, <2>2, ExitMoves DEF PoolOpen
<1>3. CASE ~exit.wait
  <2> DEFINE dropped(d) == [sub[d] EXCEPT !.future = "dropped"]
  <2>1. /\ exit' = [exit EXCEPT !.at = "closed"] /\ work' = <<>>
        /\ sub' = [d \in Sub |-> IF sub[d].future = "queued" THEN dropped(d) ELSE sub[d]]
    BY <1>3 DEF ClosePool
  <2>2. \A d \in Sub : sub[d] \in SubRow /\ RowInv(sub[d], PoolOpen)
    BY DEF TypeOK, CoreInv
  <2>3. exit'.at = "closed"
    BY <2>1 DEF TypeOK
  <2>4. ~PoolOpen'
    BY <2>3 DEF PoolOpen
  <2>5. ASSUME NEW d \in Sub
        PROVE  sub'[d] \in SubRow /\ RowInv(sub'[d], PoolOpen') /\ Keeps(sub[d], sub'[d])
    <3>1. CASE sub[d].future = "queued"
      <4>1. dropped(d) \in SubRow /\ RowInv(dropped(d), PoolOpen') /\ Keeps(sub[d], dropped(d))
        BY <2>2, <2>4, <3>1 DEF SubRow, RowInv, Terminal, Billed, Over, Keeps
      <4>2. sub'[d] = dropped(d)
        BY <2>1, <3>1
      <4> HIDE DEF dropped
      <4> QED BY <4>1, <4>2
    <3>2. CASE sub[d].future # "queued"
      <4>1. sub'[d] = sub[d]
        BY <2>1, <3>2
      <4> QED BY <2>2, <2>4, <4>1 DEF RowInv, Keeps
    <3> QED BY <3>1, <3>2
  <2>6. sub' \in [Sub -> SubRow]
    BY <2>1, <2>5
  <2>7. \A d \in Sub : sub[d].future = "running" <=> sub'[d].future = "running"
    BY <2>1, <2>2 DEF SubRow
  <2>8. \A w \in Worker : WorkerInv(w)'
    <3> TAKE w \in Worker
    <3>1. \A d \in Sub : worker[w].at # "idle" /\ worker[w].sub = d => SameTurn(sub[d], sub'[d])
      <4> TAKE d \in Sub
      <4> HAVE worker[w].at # "idle" /\ worker[w].sub = d
      <4>1. sub[d].future = "running"
        BY AtWork DEF AtInv
      <4> QED BY <2>1, <4>1 DEF SameTurn
    <3> QED BY <1>1, <3>1, WorkerKeeps
  <2>9. OneOwner'
    BY <1>1, <2>7 DEF CoreInv, OneOwner
  <2>10. \A d \in children' : sub'[d].future # "none"
    BY <1>1, <2>5, RegistryKeeps
  <2>11. (\A k \in Canceller : CloserInv(k)') /\ ExitInv'
    BY <1>1, <2>3, <2>5, ClosersKeep, ExitKeeps
  <2>12. CoreInv'
    BY <2>5, <2>8, <2>9, <2>10, <2>11 DEF CoreInv
  <2>13. work' \in Seq([sub : Sub, accepted : BOOLEAN])
    BY <2>1
  <2> QED BY <1>1, <2>1, <2>6, <2>12, <2>13 DEF TypeOK, texts
<1> QED BY <1>2, <1>3

(* The second sweep flags the registry as it is now. *)
LEMMA SweepAgainSafe ==
    ASSUME TypeOK, CoreInv, SweepAgain
    PROVE  TypeOK' /\ CoreInv'
<1>1. /\ sub' = Flagged(children)
      /\ exit' = [at |-> "sweeping", wait |-> exit.wait, todo |-> children, sub |-> "none"]
      /\ UNCHANGED <<children, work, texts, worker, closer>>
  BY DEF SweepAgain, StopAll
<1>2. ~PoolOpen' /\ exit'.at = "sweeping"
  BY <1>1 DEF PoolOpen
<1>3. /\ \A d \in Sub : RowInv(sub'[d], PoolOpen')
      /\ \A d \in Sub : Keeps(sub[d], sub'[d])
      /\ \A w \in Worker : WorkerInv(w)'
      /\ OneOwner'
  BY <1>1, <1>2, FlaggedKeeps
<1>4. \A d \in children' : sub'[d].future # "none"
  BY <1>1, <1>3, RegistryKeeps
<1>5. (\A k \in Canceller : CloserInv(k)') /\ ExitInv'
  BY <1>1, <1>2, <1>3, ClosersKeep, ExitKeeps
<1>6. sub' \in [Sub -> SubRow]
  BY <1>1, FlaggedType DEF TypeOK
<1>7. TypeOK'
  BY <1>1, <1>6 DEF TypeOK, texts
<1> QED BY <1>3, <1>4, <1>5, <1>7 DEF CoreInv

(* shutdown settles a dropped row, *)
LEMMA SettleOneSafe ==
    ASSUME TypeOK, CoreInv, SettleOne
    PROVE  TypeOK' /\ CoreInv'
<1>1. exit.at = "settling" /\ UNCHANGED <<children, work, texts, worker, closer>>
  BY DEF SettleOne
<1>2. PICK c \in exit.todo :
          IF sub[c].future = "dropped"
            THEN /\ SubBecomes(c, [sub[c] EXCEPT !.status = CancelledStatus(c)])
                 /\ exit' = [exit EXCEPT !.at = "firing", !.todo = @ \ {c}, !.sub = c]
            ELSE UNCHANGED sub /\ exit' = [exit EXCEPT !.todo = @ \ {c}]
  BY DEF SettleOne
<1>3. c \in Sub /\ ~PoolOpen
  BY <1>1, <1>2 DEF TypeOK, PoolOpen
<1>4. CASE sub[c].future = "dropped"
  <2> DEFINE row == [sub[c] EXCEPT !.status = CancelledStatus(c)]
  <2>1. /\ row \in SubRow /\ RowInv(row, PoolOpen) /\ Keeps(sub[c], row)
        /\ row.future = "dropped" /\ row.status \in Terminal
    BY <1>3, <1>4, SettledRow
  <2>2. SubBecomes(c, row) /\ exit' = [exit EXCEPT !.at = "firing", !.todo = @ \ {c}, !.sub = c]
    BY <1>2, <1>4
  <2>3. exit'.at = "firing" /\ exit'.sub = c
    BY <2>2 DEF TypeOK
  <2>4. PoolOpen' = PoolOpen
    BY <1>3, <2>3 DEF PoolOpen
  <2> HIDE DEF row
  <2>5. /\ sub' \in [Sub -> SubRow] /\ sub'[c] = row
        /\ \A d \in Sub : RowInv(sub'[d], PoolOpen')
        /\ \A d \in Sub : Keeps(sub[d], sub'[d])
        /\ \A d \in children' : sub'[d].future # "none"
        /\ \A w \in Worker : WorkerInv(w)'
        /\ OneOwner'
    BY <1>1, <1>3, <1>4, <2>1, <2>2, <2>4, CloserRow
  <2>6. \A k \in Canceller : CloserInv(k)'
    BY <1>1, <2>5, ClosersKeep
  <2>7. ExitInv'
    BY <1>3, <2>1, <2>3, <2>5 DEF ExitInv
  <2>8. CoreInv'
    BY <2>5, <2>6, <2>7 DEF CoreInv
  <2> QED BY <1>1, <1>3, <2>2, <2>5, <2>8 DEF TypeOK, texts
<1>5. CASE sub[c].future # "dropped"
  <2>1. UNCHANGED sub /\ exit' = [exit EXCEPT !.todo = @ \ {c}]
    BY <1>2, <1>5
  <2>2. TypeOK' /\ exit'.at = "settling"
    BY <1>1, <2>1 DEF TypeOK, texts
  <2> QED BY <1>1, <2>1, <2>2, ExitMoves DEF PoolOpen
<1> QED BY <1>4, <1>5

(* and calls its hook. *)
LEMMA FireOneSafe ==
    ASSUME TypeOK, CoreInv, FireOne
    PROVE  TypeOK' /\ CoreInv'
<1> DEFINE c == exit.sub
<1>1. exit.at = "firing" /\ UNCHANGED <<children, work, texts, worker, closer>>
  BY DEF FireOne
<1>2. c \in Sub /\ sub[c].future = "dropped" /\ sub[c].status \in Terminal
  BY <1>1 DEF CoreInv, ExitInv
<1>3. PICK row \in SubRow :
              /\ SubBecomes(c, row) /\ RowInv(row, PoolOpen)
              /\ Keeps(sub[c], row) /\ SameTurn(sub[c], row)
              /\ ~row.hook /\ row.status = sub[c].status
  BY <1>2, FireDoneRow DEF FireOne
<1>4. exit' = [exit EXCEPT !.at = "settling", !.sub = "none"]
  BY DEF FireOne
<1>5. exit'.at = "settling" /\ PoolOpen' = PoolOpen
  BY <1>1, <1>4 DEF TypeOK, PoolOpen
<1>6. /\ sub' \in [Sub -> SubRow]
      /\ \A d \in Sub : RowInv(sub'[d], PoolOpen')
      /\ \A d \in Sub : Keeps(sub[d], sub'[d])
      /\ \A d \in children' : sub'[d].future # "none"
      /\ \A w \in Worker : WorkerInv(w)'
      /\ OneOwner'
  BY <1>1, <1>2, <1>3, <1>5, CloserRow DEF SameTurn
<1>7. (\A k \in Canceller : CloserInv(k)') /\ ExitInv'
  BY <1>1, <1>5, <1>6, ClosersKeep, ExitKeeps
<1>8. CoreInv'
  BY <1>6, <1>7 DEF CoreInv
<1> QED BY <1>1, <1>4, <1>6, <1>8 DEF TypeOK, texts
-------------------------------------------------------------------------------
(* Together: every step of a worker, *)
LEMMA WorkSafe ==
    ASSUME TypeOK, CoreInv, NEW w \in Worker, Work(w) \/ ReadMidTurn(w)
    PROVE  TypeOK' /\ CoreInv'
BY TakeWorkSafe, BeginTurnSafe, LandSafe, TurnRaisesSafe, SettleBatchSafe, DropInboxSafe,
   WorkerFiresSafe, WorkerReturnsSafe, ReadMidTurnSafe DEF Work

(* of cancel, *)
LEMMA CancellingSafe ==
    ASSUME TypeOK, CoreInv, NEW k \in Canceller, Cancelling(k)
    PROVE  TypeOK' /\ CoreInv'
BY CancelFutureSafe, CancelDiscardsSafe, CancelSettlesSafe, CancelFiresSafe DEF Cancelling

(* and of shutdown is safe. *)
LEMMA ExitingSafe ==
    ASSUME TypeOK, CoreInv, Exiting
    PROVE  TypeOK' /\ CoreInv'
<1>1. CASE StartSettling
  <2>1. /\ exit.at = "sweeping" /\ exit' = [exit EXCEPT !.at = "settling", !.todo = children]
        /\ UNCHANGED <<sub, children, work, texts, worker, closer>>
    BY <1>1 DEF StartSettling
  <2>2. TypeOK' /\ exit'.at = "settling"
    BY <2>1 DEF TypeOK, texts
  <2> QED BY <2>1, <2>2, ExitMoves DEF PoolOpen
<1>2. CASE ShutdownReturns
  <2>1. /\ exit' = [exit EXCEPT !.at = "down"]
        /\ UNCHANGED <<sub, children, work, texts, worker, closer>>
    BY <1>2 DEF ShutdownReturns
  <2>2. TypeOK' /\ exit'.at = "down"
    BY <2>1 DEF TypeOK, texts
  <2> QED BY <2>1, <2>2, ExitMoves DEF PoolOpen
<1> QED BY <1>1, <1>2, StopOneSafe, ClosePoolSafe, SweepAgainSafe, SettleOneSafe, FireOneSafe
        DEF Exiting

(* The invariant holds of the empty core, *)
LEMMA CoreInvInit == Init => CoreInv
<1> SUFFICES ASSUME Init PROVE CoreInv
  OBVIOUS
<1>1. \A c \in Sub : RowInv(sub[c], PoolOpen)
  BY DEF Init, Unspawned, RowInv, Terminal, Billed
<1>2. \A w \in Worker : worker[w].at = "idle"
  BY DEF Init, Resting
<1>3. \A k \in Canceller : closer[k].at = "idle"
  BY DEF Init, AtRest
<1>4. \A c \in Sub : sub[c].future = "none"
  BY DEF Init, Unspawned
<1>5. exit.at = "up" /\ children = {}
  BY DEF Init
<1> QED BY <1>1, <1>2, <1>3, <1>4, <1>5 DEF CoreInv, WorkerInv, CloserInv, ExitInv, OneOwner

(* and every step keeps it. *)
LEMMA CoreStep == TypeOK /\ CoreInv /\ [Next]_vars => TypeOK' /\ CoreInv'
<1> SUFFICES ASSUME TypeOK, CoreInv, [Next]_vars PROVE TypeOK' /\ CoreInv'
  OBVIOUS
<1>1. CASE UNCHANGED vars
  <2>1. TypeOK'
    BY <1>1 DEF TypeOK, vars
  <2>2. CoreInv'
    BY <1>1 DEF CoreInv, RowInv, WorkerInv, CloserInv, ExitInv, OneOwner, PoolOpen, vars
  <2> QED BY <2>1, <2>2
<1> QED BY <1>1, CallerType, CallerInv, WorkSafe, CancellingSafe, ExitingSafe DEF Next

(* Every variable keeps to its type, and the core's invariant holds for ever: *)
(* each row tells where its Future is, and each thread stands on a row that   *)
(* still is what the thread left it.                                          *)
THEOREM CoreSafe == Spec => [](TypeOK /\ CoreInv)
<1>1. Init => TypeOK /\ CoreInv
  BY TypeInit, CoreInvInit
<1>2. TypeOK /\ CoreInv /\ [Next]_vars => (TypeOK /\ CoreInv)'
  BY CoreStep
<1> QED BY <1>1, <1>2, PTL DEF Spec

(* The registry, the pool and the threads that close keep to their types. *)
THEOREM CoreTypeCorrect == Spec => []TypeOK
BY CoreSafe, PTL

(* What the rows and the threads say makes each status true. *)
LEMMA StatusIsTrue == TypeOK /\ CoreInv => StatusTellsWork
<1> SUFFICES ASSUME TypeOK, CoreInv, NEW c \in Sub
             PROVE  /\ sub[c].status \in Terminal =>
                          /\ sub[c].future # "queued"
                          /\ \A w \in Owners(c) : worker[w].at \notin {"loop", "turn"}
                    /\ (Owners(c) # {}) <=> (sub[c].future = "running")
                    /\ \A v, w \in Owners(c) : v = w
  BY DEF StatusTellsWork
<1>1. \A w \in Owners(c) :
          /\ w \in Worker /\ worker[w].at # "idle" /\ worker[w].sub = c
          /\ AtInv(worker[w].at, worker[w].more, sub[c])
  BY AtWork DEF Owners
<1>2. RowInv(sub[c], PoolOpen)
  BY DEF CoreInv
<1>3. sub[c].status \in Terminal => sub[c].future # "queued"
  BY <1>2 DEF RowInv, Terminal
<1>4. sub[c].status \in Terminal => \A w \in Owners(c) : worker[w].at \notin {"loop", "turn"}
  BY <1>1 DEF AtInv, Terminal
<1>5. (Owners(c) # {}) <=> (sub[c].future = "running")
  BY <1>1 DEF AtInv, CoreInv, OneOwner, Owners
<1>6. \A v, w \in Owners(c) : v = w
  BY <1>1 DEF CoreInv, OneOwner
<1> QED BY <1>3, <1>4, <1>5, <1>6

(* _run, cancel and shutdown: a terminal status is said only of idle work,    *)
(* and no sub-session has two workers.                                        *)
THEOREM StatusIsTruth == Spec => []StatusTellsWork
BY CoreSafe, StatusIsTrue, PTL
-------------------------------------------------------------------------------
(* The core keeps SubSession's promise: what a step does to the one row it    *)
(* touches is a step of SubSession, or nothing it can see.                    *)
Unseen(old, new) ==
    new.status = old.status /\ new.hook = old.hook /\ new.ran = old.ran

(* What SubSession sees of one replaced row, *)
LEMMA RowSeen ==
    ASSUME sub \in [Sub -> SubRow], NEW c \in Sub, NEW row \in SubRow, SubBecomes(c, row)
    PROVE  /\ statusOf' = [statusOf EXCEPT ![c] = row.status]
           /\ hookOf' = [hookOf EXCEPT ![c] = row.hook]
           /\ ranOf' = [ranOf EXCEPT ![c] = row.ran]
           /\ statusOf[c] = sub[c].status /\ hookOf[c] = sub[c].hook /\ ranOf[c] = sub[c].ran
           /\ row.status = sub[c].status => UNCHANGED statusOf
           /\ row.hook = sub[c].hook => UNCHANGED hookOf
           /\ row.ran = sub[c].ran => UNCHANGED ranOf
<1>1. \A d \in Sub : sub'[d] = IF d = c THEN row ELSE sub[d]
  BY SubBecomesType
<1> QED BY <1>1 DEF statusOf, hookOf, ranOf

(* which may be nothing, *)
LEMMA RowUnseen ==
    ASSUME sub \in [Sub -> SubRow], NEW c \in Sub, NEW row \in SubRow, SubBecomes(c, row),
           Unseen(sub[c], row)
    PROVE  UNCHANGED Promise!vars
BY RowSeen DEF Unseen, Promise!vars

(* nothing of any row, *)
LEMMA AllUnseen ==
    ASSUME \A c \in Sub : Unseen(sub[c], sub'[c])
    PROVE  UNCHANGED Promise!vars
BY DEF Unseen, Promise!vars, statusOf, hookOf, ranOf

(* or the end of its series. *)
LEMMA RowFinishes ==
    ASSUME sub \in [Sub -> SubRow], NEW c \in Sub, NEW row \in SubRow, SubBecomes(c, row),
           sub[c].status = "running", row.status \in Terminal,
           row.status = "cancelled" <=> ~row.ran,
           row.hook = sub[c].hook, row.ran = sub[c].ran
    PROVE  Promise!Next
<1>1. /\ statusOf' = [statusOf EXCEPT ![c] = row.status]
      /\ UNCHANGED <<hookOf, ranOf>> /\ statusOf[c] = "running" /\ ranOf[c] = row.ran
  BY RowSeen
<1>2. Promise!Finish(c)
  BY <1>1 DEF Promise!Finish, Promise!Terminal, Terminal
<1> QED BY <1>2 DEF Promise!Next

(* Flags are not seen. *)
LEMMA FlagsUnseen ==
    ASSUME TypeOK, NEW who, sub' = Flagged(who)
    PROVE  UNCHANGED Promise!vars
<1>1. \A c \in Sub : sub[c] \in SubRow
  BY DEF TypeOK
<1>2. ASSUME NEW c \in Sub PROVE Unseen(sub[c], sub'[c])
  <2>1. CASE c \in who
    <3>1. sub'[c] = [sub[c] EXCEPT !.cancelled = TRUE, !.accepting = FALSE]
      BY <2>1 DEF Flagged
    <3> QED BY <1>1, <3>1 DEF SubRow, Unseen
  <2>2. CASE c \notin who
    BY <2>2 DEF Flagged, Unseen
  <2> QED BY <2>1, <2>2
<1> QED BY <1>2, AllUnseen

(* Settling a dropped row ends its series; settling it again is not seen. *)
LEMMA SettledKept ==
    ASSUME TypeOK, CoreInv, NEW c \in Sub, sub[c].future = "dropped",
           SubBecomes(c, [sub[c] EXCEPT !.status = CancelledStatus(c)])
    PROVE  [Promise!Next]_Promise!vars
<1> DEFINE row == [sub[c] EXCEPT !.status = CancelledStatus(c)]
<1>1. sub[c] \in SubRow /\ RowInv(sub[c], PoolOpen) /\ row \in SubRow
  BY SettledRow DEF TypeOK, CoreInv
<1>2. CancelledStatus(c) = IF sub[c].ran THEN "interrupted" ELSE "cancelled"
  BY <1>1 DEF CancelledStatus, RowInv, Billed
<1>3. row.hook = sub[c].hook /\ row.ran = sub[c].ran /\ row.status = CancelledStatus(c)
  BY <1>1 DEF SubRow
<1>4. sub[c].status = "running" \/ sub[c].status = CancelledStatus(c)
  BY <1>1, <1>2 DEF RowInv, Over, Terminal
<1> SUFFICES SubBecomes(c, row) => [Promise!Next]_Promise!vars
  OBVIOUS
<1> HIDE DEF row
<1> HAVE SubBecomes(c, row)
<1>5. CASE sub[c].status = "running"
  BY <1>1, <1>2, <1>3, <1>5, RowFinishes DEF TypeOK, Terminal
<1>6. CASE sub[c].status = CancelledStatus(c)
  BY <1>1, <1>3, <1>6, RowUnseen DEF TypeOK, Unseen
<1> QED BY <1>4, <1>5, <1>6

(* The call of the hook is SubSession's, or there was none to call. *)
LEMMA FiredKept ==
    ASSUME TypeOK, CoreInv, NEW c \in Sub, sub[c].status \in Terminal, FireDone(c)
    PROVE  [Promise!Next]_Promise!vars
<1>1. CASE sub[c].hook /\ ~sub[c].fired
  <2> DEFINE row == [sub[c] EXCEPT !.hook = FALSE, !.fired = TRUE]
  <2>1. sub[c] \in SubRow
    BY DEF TypeOK
  <2>2. /\ row \in SubRow /\ ~row.hook /\ row.hook = FALSE
        /\ row.status = sub[c].status /\ row.ran = sub[c].ran
    BY <2>1 DEF SubRow
  <2>3. SubBecomes(c, row)
    BY <1>1 DEF FireDone
  <2> HIDE DEF row
  <2>4. /\ hookOf' = [hookOf EXCEPT ![c] = FALSE] /\ UNCHANGED <<statusOf, ranOf>>
        /\ statusOf[c] \in Terminal /\ hookOf[c]
    BY <1>1, <2>2, <2>3, RowSeen DEF TypeOK
  <2>5. Promise!Notify(c)
    BY <2>4 DEF Promise!Notify, Promise!Terminal, Terminal
  <2> QED BY <2>5 DEF Promise!Next
<1>2. CASE ~(sub[c].hook /\ ~sub[c].fired)
  BY <1>2 DEF FireDone, Promise!vars, statusOf, hookOf, ranOf
<1> QED BY <1>1, <1>2

(* What callers do is a step of SubSession, or not seen; *)
LEMMA CallerKeeps ==
    ASSUME TypeOK, CoreInv, Caller
    PROVE  [Promise!Next]_Promise!vars
<1>0. \A c \in Sub : sub[c] \in SubRow /\ RowInv(sub[c], PoolOpen)
  BY DEF TypeOK, CoreInv
<1>1. ASSUME NEW c \in Sub, NEW hook \in BOOLEAN, Spawn(c, hook) PROVE Promise!Next
  <2> DEFINE row == [sub[c] EXCEPT !.status = "running", !.future = "queued", !.accepting = TRUE,
                       !.hook = hook, !.born = Cardinality(Spawned) + 1]
  <2>1. Cardinality(Spawned) + 1 \in Nat
    BY CountIsNat DEF Spawned
  <2>2. sub[c].status = "absent" /\ ~sub[c].hook
    BY <1>0, <1>1 DEF Spawn, RowInv
  <2>3. row \in SubRow /\ row.status = "running" /\ row.hook = hook /\ row.ran = sub[c].ran
    BY <1>0, <2>1 DEF SubRow
  <2>4. SubBecomes(c, row)
    BY <1>1 DEF Spawn
  <2>5. sub[c].hook = FALSE
    BY <1>0, <2>2 DEF SubRow
  <2> HIDE DEF row
  <2>6. /\ statusOf' = [statusOf EXCEPT ![c] = "running"] /\ UNCHANGED ranOf
        /\ hookOf' = [hookOf EXCEPT ![c] = hook] /\ statusOf[c] = "absent"
        /\ row.hook = sub[c].hook => UNCHANGED hookOf
    BY <2>2, <2>3, <2>4, RowSeen DEF TypeOK
  <2>7. CASE hook = TRUE
    <3>1. hookOf' = [hookOf EXCEPT ![c] = TRUE]
      BY <2>6, <2>7
    <3> QED BY <2>6, <3>1 DEF Promise!Open, Promise!Next
  <2>8. CASE hook = FALSE
    <3>1. UNCHANGED hookOf
      BY <2>3, <2>5, <2>6, <2>8
    <3> QED BY <2>6, <3>1 DEF Promise!Open, Promise!Next
  <2> QED BY <2>7, <2>8
<1>2. ASSUME NEW c \in Sub, SpawnRejected(c) PROVE Promise!Next
  <2> DEFINE row == [sub[c] EXCEPT !.status = "refused"]
  <2>1. row \in SubRow /\ row.status = "refused" /\ row.hook = sub[c].hook /\ row.ran = sub[c].ran
    BY <1>0 DEF SubRow
  <2>2. SubBecomes(c, row) /\ sub[c].status = "absent"
    BY <1>2 DEF SpawnRejected
  <2> HIDE DEF row
  <2>3. /\ statusOf' = [statusOf EXCEPT ![c] = "refused"] /\ UNCHANGED <<hookOf, ranOf>>
        /\ statusOf[c] = "absent"
    BY <2>1, <2>2, RowSeen DEF TypeOK
  <2>4. Promise!Open(c)
    BY <2>3 DEF Promise!Open
  <2> QED BY <2>4 DEF Promise!Next
<1>3. ASSUME UNCHANGED sub PROVE UNCHANGED Promise!vars
  BY <1>3 DEF Promise!vars, statusOf, hookOf, ranOf
<1>4. ASSUME NEW c \in Sub, WatchDone(c) PROVE Promise!Next
  <2> DEFINE row == [sub[c] EXCEPT !.hook = TRUE]
  <2>1. sub[c].future # "none" /\ sub[c].status \notin Terminal /\ ~sub[c].hook
    BY <1>4 DEF WatchDone, Known, CoreInv
  <2>2. sub[c].status = "running"
    BY <1>0, <2>1 DEF RowInv, SubRow
  <2>3. row \in SubRow /\ row.hook = TRUE /\ row.status = sub[c].status /\ row.ran = sub[c].ran
    BY <1>0 DEF SubRow
  <2>4. SubBecomes(c, row)
    BY <1>4 DEF WatchDone
  <2> HIDE DEF row
  <2>5. /\ hookOf' = [hookOf EXCEPT ![c] = TRUE] /\ UNCHANGED <<statusOf, ranOf>>
        /\ statusOf[c] = "running" /\ ~hookOf[c]
    BY <2>1, <2>2, <2>3, <2>4, RowSeen DEF TypeOK
  <2>6. Promise!Arm(c)
    BY <2>5 DEF Promise!Arm
  <2> QED BY <2>6 DEF Promise!Next
<1>5. ASSUME NEW c \in Sub, NEW t \in Text, SteerIdle(c, t) PROVE Promise!Next
  <2> DEFINE row == [sub[c] EXCEPT !.status = "running", !.future = "queued", !.accepting = TRUE,
                       !.fired = FALSE]
  <2>1. sub[c].future = "done" /\ ~sub[c].cancelled /\ PoolOpen
    BY <1>0, <1>5 DEF SteerIdle, Done, RowInv
  <2>2. sub[c].status \in Terminal \ {"cancelled"} /\ ~sub[c].hook
    BY <1>0, <2>1 DEF RowInv
  <2>3. /\ row \in SubRow /\ row.status = "running" /\ row.hook = sub[c].hook
        /\ row.ran = sub[c].ran
    BY <1>0 DEF SubRow
  <2>4. SubBecomes(c, row)
    BY <1>5 DEF SteerIdle
  <2> HIDE DEF row
  <2>5. /\ statusOf' = [statusOf EXCEPT ![c] = "running"] /\ UNCHANGED <<hookOf, ranOf>>
        /\ statusOf[c] \in Terminal \ {"cancelled"} /\ ~hookOf[c]
    BY <2>2, <2>3, <2>4, RowSeen DEF TypeOK
  <2>6. Promise!Reopen(c)
    BY <2>5 DEF Promise!Reopen, Promise!Terminal, Terminal
  <2> QED BY <2>6 DEF Promise!Next
<1>6. ASSUME NEW k \in Canceller, NEW c \in Sub, Cancel(k, c) PROVE UNCHANGED Promise!vars
  BY <1>6, FlagsUnseen DEF Cancel
<1>7. ASSUME NEW wait \in BOOLEAN, Shutdown(wait) PROVE UNCHANGED Promise!vars
  BY <1>7, FlagsUnseen DEF Shutdown, StopAll
<1>8. ASSUME NEW c \in Sub, SteerRejected(c) PROVE UNCHANGED sub
  BY <1>8 DEF SteerRejected
<1>9. ASSUME NEW c \in Sub, NEW t \in Text, SteerLive(c, t) \/ SteerActive(c, t)
      PROVE  UNCHANGED sub
  BY <1>9 DEF SteerLive, SteerActive, Enqueue
<1> QED BY <1>1, <1>2, <1>3, <1>4, <1>5, <1>6, <1>7, <1>8, <1>9 DEF Caller

(* so is what workers do, *)
LEMMA WorkKeeps ==
    ASSUME TypeOK, CoreInv, NEW w \in Worker, Work(w) \/ ReadMidTurn(w)
    PROVE  [Promise!Next]_Promise!vars
<1> DEFINE c == worker[w].sub
<1>0. worker[w].at # "idle" =>
          /\ c \in Sub /\ sub[c] \in SubRow
          /\ RowInv(sub[c], PoolOpen) /\ AtInv(worker[w].at, worker[w].more, sub[c])
  BY AtWork
<1>1. ASSUME UNCHANGED sub PROVE UNCHANGED Promise!vars
  BY <1>1 DEF Promise!vars, statusOf, hookOf, ranOf
<1>2. ASSUME TakeWork(w) PROVE UNCHANGED Promise!vars
  <2> DEFINE d == Head(work).sub
             row == [sub[d] EXCEPT !.future = "running"]
  <2>1. d \in Sub
    <3>1. Head(work) \in [sub : Sub, accepted : BOOLEAN]
      BY <1>2, HeadAndTail DEF TakeWork, TypeOK
    <3> QED BY <3>1
  <2>2. row \in SubRow /\ Unseen(sub[d], row)
    <3>1. sub[d] \in SubRow
      BY <2>1 DEF TypeOK
    <3> QED BY <3>1 DEF SubRow, Unseen
  <2>3. UNCHANGED sub \/ SubBecomes(d, row)
    BY <1>2 DEF TakeWork
  <2> HIDE DEF row, d
  <2> QED BY <1>1, <2>1, <2>2, <2>3, RowUnseen DEF TypeOK
<1>3. ASSUME BeginTurn(w) PROVE [Promise!Next]_Promise!vars
  <2>1. worker[w].at = "loop" /\ sub[c].status = "running" /\ Billed(sub[c])
    BY <1>0, <1>3 DEF BeginTurn, AtInv
  <2>2. CASE sub[c].cancelled
    <3> DEFINE row == [sub[c] EXCEPT !.status = CancelledStatus(c), !.accepting = FALSE]
    <3>1. CancelledStatus(c) = IF sub[c].ran THEN "interrupted" ELSE "cancelled"
      BY <1>0, <2>1 DEF CancelledStatus, RowInv, Billed
    <3>2. /\ row \in SubRow /\ row.status = CancelledStatus(c)
          /\ row.hook = sub[c].hook /\ row.ran = sub[c].ran
      BY <1>0, <2>1, <3>1 DEF SubRow, Terminal
    <3>3. SubBecomes(c, row)
      BY <1>3, <2>2 DEF BeginTurn
    <3> HIDE DEF row
    <3>4. row.status \in Terminal /\ (row.status = "cancelled" <=> ~row.ran)
      BY <3>1, <3>2 DEF Terminal
    <3> QED BY <1>0, <2>1, <3>2, <3>3, <3>4, RowFinishes DEF TypeOK
  <2>3. CASE ~sub[c].cancelled
    <3> DEFINE row == [sub[c] EXCEPT !.status = "running", !.fired = FALSE, !.ran = TRUE]
    <3>1. /\ row \in SubRow /\ row.status = sub[c].status /\ row.hook = sub[c].hook
          /\ row.ran = TRUE
      BY <1>0, <2>1 DEF SubRow
    <3>2. SubBecomes(c, row)
      BY <1>3, <2>3 DEF BeginTurn
    <3> HIDE DEF row
    <3>3. CASE sub[c].ran
      <4>1. sub[c].ran = TRUE
        BY <1>0, <2>1, <3>3 DEF SubRow
      <4> QED BY <1>0, <2>1, <3>1, <3>2, <4>1, RowUnseen DEF TypeOK, Unseen
    <3>4. CASE ~sub[c].ran
      <4>1. /\ ranOf' = [ranOf EXCEPT ![c] = TRUE] /\ UNCHANGED <<statusOf, hookOf>>
            /\ statusOf[c] = "running" /\ ~ranOf[c]
        BY <1>0, <2>1, <3>1, <3>2, <3>4, RowSeen DEF TypeOK
      <4>2. Promise!Work(c)
        BY <4>1 DEF Promise!Work
      <4> QED BY <1>0, <2>1, <4>2 DEF Promise!Next
    <3> QED BY <3>3, <3>4
  <2> QED BY <2>2, <2>3
<1>4. ASSUME Land(w) PROVE [Promise!Next]_Promise!vars
  <2>1. worker[w].at = "turn" /\ sub[c].status = "running" /\ sub[c].ran
    BY <1>0, <1>4 DEF Land, AtInv
  <2>2. PICK end \in Terminal \ {"cancelled"} :
          \/ SubBecomes(c, [sub[c] EXCEPT !.landed = TRUE, !.status = "running", !.fired = FALSE])
          \/ SubBecomes(c, [sub[c] EXCEPT !.landed = TRUE, !.status = end, !.accepting = FALSE])
    BY <1>4 DEF Land
  <2> DEFINE on == [sub[c] EXCEPT !.landed = TRUE, !.status = "running", !.fired = FALSE]
             over == [sub[c] EXCEPT !.landed = TRUE, !.status = end, !.accepting = FALSE]
  <2>3. on \in SubRow /\ Unseen(sub[c], on)
    BY <1>0, <2>1 DEF SubRow, Unseen
  <2>4. /\ over \in SubRow /\ over.status = end /\ over.hook = sub[c].hook
        /\ over.ran = sub[c].ran
    BY <1>0, <2>1 DEF SubRow
  <2>5. SubBecomes(c, on) \/ SubBecomes(c, over)
    BY <2>2
  <2> HIDE DEF on, over
  <2>6. CASE SubBecomes(c, on)
    BY <1>0, <2>1, <2>3, <2>6, RowUnseen DEF TypeOK
  <2>7. CASE SubBecomes(c, over)
    BY <1>0, <2>1, <2>4, <2>7, RowFinishes DEF TypeOK
  <2> QED BY <2>5, <2>6, <2>7
<1>5. ASSUME TurnRaises(w) PROVE [Promise!Next]_Promise!vars
  <2> DEFINE row == [sub[c] EXCEPT !.status = "error", !.accepting = FALSE, !.landed = TRUE]
  <2>1. worker[w].at = "turn" /\ sub[c].status = "running" /\ sub[c].ran
    BY <1>0, <1>5 DEF TurnRaises, AtInv
  <2>2. /\ row \in SubRow /\ row.status = "error" /\ row.hook = sub[c].hook
        /\ row.ran = sub[c].ran
    BY <1>0, <2>1 DEF SubRow, Terminal
  <2>3. SubBecomes(c, row)
    BY <1>5 DEF TurnRaises
  <2> HIDE DEF row
  <2> QED BY <1>0, <2>1, <2>2, <2>3, RowFinishes DEF TypeOK, Terminal
<1>6. ASSUME WorkerFires(w) PROVE [Promise!Next]_Promise!vars
  <2>1. worker[w].at = "fire" /\ FireDone(c)
    BY <1>6 DEF WorkerFires
  <2>2. c \in Sub /\ sub[c].status \in Terminal
    BY <1>0, <2>1 DEF AtInv
  <2> QED BY <2>1, <2>2, FiredKept
<1>7. ASSUME WorkerReturns(w) PROVE UNCHANGED Promise!vars
  <2> DEFINE row == [sub[c] EXCEPT !.future = "done"]
  <2>1. worker[w].at = "hook" /\ SubBecomes(c, row)
    BY <1>7 DEF WorkerReturns
  <2>2. row \in SubRow /\ Unseen(sub[c], row)
    BY <1>0, <2>1 DEF SubRow, Unseen
  <2> HIDE DEF row
  <2> QED BY <1>0, <2>1, <2>2, RowUnseen DEF TypeOK
<1>8. ASSUME SettleBatch(w) \/ DropInbox(w) \/ ReadMidTurn(w) PROVE UNCHANGED sub
  BY <1>8 DEF SettleBatch, DropInbox, ReadMidTurn
<1> QED BY <1>1, <1>2, <1>3, <1>4, <1>5, <1>6, <1>7, <1>8 DEF Work

(* what cancel does *)
LEMMA CancellingKeeps ==
    ASSUME TypeOK, CoreInv, NEW k \in Canceller, Cancelling(k)
    PROVE  [Promise!Next]_Promise!vars
<1> DEFINE c == closer[k].sub
<1>1. ASSUME CancelFuture(k) PROVE UNCHANGED Promise!vars
  <2> DEFINE row == [sub[c] EXCEPT !.future = "dropped"]
  <2>1. c \in Sub /\ sub[c] \in SubRow
    BY <1>1, AtCancel DEF CancelFuture
  <2>2. row \in SubRow /\ Unseen(sub[c], row)
    BY <2>1 DEF SubRow, Unseen
  <2>3. UNCHANGED sub \/ SubBecomes(c, row)
    BY <1>1 DEF CancelFuture
  <2> HIDE DEF row
  <2>4. CASE UNCHANGED sub
    BY <2>4 DEF Promise!vars, statusOf, hookOf, ranOf
  <2> QED BY <2>1, <2>2, <2>3, <2>4, RowUnseen DEF TypeOK
<1>2. ASSUME CancelDiscards(k) PROVE UNCHANGED Promise!vars
  BY <1>2 DEF CancelDiscards, Promise!vars, statusOf, hookOf, ranOf
<1>3. ASSUME CancelSettles(k) PROVE [Promise!Next]_Promise!vars
  BY <1>3, AtCancel, SettledKept DEF CancelSettles
<1>4. ASSUME CancelFires(k) PROVE [Promise!Next]_Promise!vars
  BY <1>4, AtCancel, FiredKept DEF CancelFires
<1> QED BY <1>1, <1>2, <1>3, <1>4 DEF Cancelling

(* and what shutdown does. *)
LEMMA ExitingKeeps ==
    ASSUME TypeOK, CoreInv, Exiting
    PROVE  [Promise!Next]_Promise!vars
<1>1. ASSUME UNCHANGED sub PROVE UNCHANGED Promise!vars
  BY <1>1 DEF Promise!vars, statusOf, hookOf, ranOf
<1>2. ASSUME ClosePool PROVE UNCHANGED Promise!vars
  <2>1. \A d \in Sub : sub[d] \in SubRow
    BY DEF TypeOK
  <2>2. CASE UNCHANGED sub
    BY <1>1, <2>2
  <2>3. CASE sub' = [d \in Sub |-> IF sub[d].future = "queued"
                                   THEN [sub[d] EXCEPT !.future = "dropped"] ELSE sub[d]]
    <3>1. ASSUME NEW d \in Sub PROVE Unseen(sub[d], sub'[d])
      <4>1. sub'[d] = sub[d] \/ sub'[d] = [sub[d] EXCEPT !.future = "dropped"]
        BY <2>3
      <4>2. CASE sub'[d] = sub[d]
        BY <4>2 DEF Unseen
      <4>3. CASE sub'[d] = [sub[d] EXCEPT !.future = "dropped"]
        BY <2>1, <4>3 DEF SubRow, Unseen
      <4> QED BY <4>1, <4>2, <4>3
    <3> QED BY <3>1, AllUnseen
  <2> QED BY <1>2, <2>2, <2>3 DEF ClosePool
<1>3. ASSUME SweepAgain PROVE UNCHANGED Promise!vars
  BY <1>3, FlagsUnseen DEF SweepAgain, StopAll
<1>4. ASSUME SettleOne PROVE [Promise!Next]_Promise!vars
  <2>1. PICK c \in exit.todo :
          IF sub[c].future = "dropped"
            THEN SubBecomes(c, [sub[c] EXCEPT !.status = CancelledStatus(c)])
            ELSE UNCHANGED sub
    BY <1>4 DEF SettleOne
  <2>2. c \in Sub
    BY <2>1 DEF TypeOK
  <2> QED BY <1>1, <2>1, <2>2, SettledKept
<1>5. ASSUME FireOne PROVE [Promise!Next]_Promise!vars
  <2>1. exit.sub \in Sub /\ sub[exit.sub].status \in Terminal
    BY <1>5 DEF FireOne, CoreInv, ExitInv
  <2> QED BY <1>5, <2>1, FiredKept DEF FireOne
<1>6. ASSUME StopOne \/ StartSettling \/ ShutdownReturns PROVE UNCHANGED sub
  BY <1>6 DEF StopOne, StartSettling, ShutdownReturns
<1> QED BY <1>1, <1>2, <1>3, <1>4, <1>5, <1>6 DEF Exiting

(* So is every step. *)
LEMMA StepKeeps == TypeOK /\ CoreInv /\ [Next]_vars => [Promise!Next]_Promise!vars
<1> SUFFICES ASSUME TypeOK, CoreInv, [Next]_vars PROVE [Promise!Next]_Promise!vars
  OBVIOUS
<1>1. CASE UNCHANGED vars
  BY <1>1 DEF vars, Promise!vars, statusOf, hookOf, ranOf
<1> QED BY <1>1, CallerKeeps, WorkKeeps, CancellingKeeps, ExitingKeeps DEF Next

(* The core implements SubSession: a spawned sub-session ends once per series, *)
(* its hook is called once and only after that, and "cancelled" (the slot of   *)
(* the run is refunded) is said only of what never started a turn.             *)
THEOREM KeepsThePromise == Spec => ImplementsSubSession
<1>1. Init => Promise!Init
  BY DEF Init, Promise!Init, Unspawned, statusOf, hookOf, ranOf
<1>2. TypeOK /\ CoreInv /\ [Next]_vars => [Promise!Next]_Promise!vars
  BY StepKeeps
<1>3. Spec => [](TypeOK /\ CoreInv)
  BY CoreSafe
<1> QED BY <1>1, <1>2, <1>3, PTL DEF Spec, ImplementsSubSession, Promise!Spec
-------------------------------------------------------------------------------
(* What is still owed to a sub-session: its hook, and the texts of its inbox. *)
Cancelled(c) == \E k \in Canceller : closer[k].at # "idle" /\ closer[k].sub = c

(* shutdown still has this entry of the registry before it. *)
Swept(c) ==
    /\ Known(c)
    /\ \/ exit.at \in {"closed", "sweeping"}
       \/ exit.at \in {"settling", "firing"} /\ c \in exit.todo
       \/ exit.at = "firing" /\ c = exit.sub

(* Who may still be sent a text, and who will empty the inbox: an inbox is     *)
(* added to only while its sub-session accepts, and it accepts only while a    *)
(* worker will come, or the second sweep.                                      *)
SubDebt(c) ==
    /\ sub[c].future = "none" => ~sub[c].cancelled /\ ~sub[c].accepting /\ inbox[c] = {}
    /\ sub[c].cancelled => ~sub[c].accepting
    /\ sub[c].future = "done" => ~sub[c].accepting /\ inbox[c] = {}
    /\ sub[c].future = "dropped" /\ sub[c].accepting => exit.at = "closed"
    /\ sub[c].future = "dropped" /\ sub[c].status \in Terminal =>
          ~sub[c].accepting /\ inbox[c] = {}
    /\ sub[c].future = "dropped" /\ ~(sub[c].status \in Terminal /\ ~sub[c].hook) =>
          Cancelled(c) \/ Swept(c)
    /\ ~Known(c) /\ sub[c].future # "none" => Done(c) /\ sub[c].status \in Terminal
    /\ exit.at = "sweeping" /\ sub[c].future = "dropped" /\ c \notin exit.todo => inbox[c] = {}
    /\ exit.at \in {"settling", "firing"} /\ sub[c].future = "dropped" => inbox[c] = {}
    /\ exit.at \in {"closed", "sweeping", "settling", "firing"} => sub[c].future # "queued"

(* What the worker has already emptied, and what it still carries. *)
WorkerDebt(w) ==
    LET c == worker[w].sub IN
    /\ worker[w].at \in {"fire", "hook"} \/ (worker[w].at = "settle" /\ ~worker[w].more) =>
          ~sub[c].accepting /\ inbox[c] = {}
    /\ worker[w].at = "drop" => ~sub[c].accepting
    /\ worker[w].at # "settle" => worker[w].batch = {}

CloserDebt(k) == closer[k].at \in {"settle", "fire"} => inbox[closer[k].sub] = {}

DebtInv ==
    /\ \A c \in Sub : SubDebt(c)
    /\ \A w \in Worker : WorkerDebt(w)
    /\ \A k \in Canceller : CloserDebt(k)

(* A step leaves this sub-session's inbox closed where it was closed. *)
Quiet(c) ==
    (sub[c].future = "running" \/ sub[c].cancelled) /\ ~sub[c].accepting =>
        ~sub'[c].accepting /\ inbox'[c] \subseteq inbox[c]

(* Nothing is asked of a sub-session that a step does not touch, *)
LEMMA OthersOwe ==
    ASSUME NEW d \in Sub, SubDebt(d), sub'[d] = sub[d], inbox'[d] \subseteq inbox[d],
           UNCHANGED <<children, exit>>, Cancelled(d) => Cancelled(d)'
    PROVE  SubDebt(d)'
BY DEF SubDebt, Swept, Known, Done

(* nor of one whose worker goes on, *)
LEMMA RunningOwes ==
    ASSUME NEW d \in Sub, SubDebt(d), sub[d].future = "running", sub'[d].future = "running",
           sub'[d].cancelled => ~sub'[d].accepting, UNCHANGED children
    PROVE  SubDebt(d)'
BY DEF SubDebt, Known, Done

(* nor of a worker, *)
LEMMA WorkersStill ==
    ASSUME TypeOK, CoreInv, NEW w \in Worker, WorkerDebt(w), worker'[w] = worker[w],
           \A c \in Sub : Quiet(c)
    PROVE  WorkerDebt(w)'
<1>1. CASE worker[w].at = "idle"
  BY <1>1 DEF WorkerDebt
<1>2. CASE worker[w].at # "idle"
  <2>1. worker[w].sub \in Sub /\ sub[worker[w].sub].future = "running"
    BY <1>2, AtWork DEF AtInv
  <2> QED BY <2>1 DEF WorkerDebt, Quiet
<1> QED BY <1>1, <1>2

(* nor of a thread inside cancel. *)
LEMMA ClosersStill ==
    ASSUME TypeOK, CoreInv, DebtInv, NEW k \in Canceller, closer'[k] = closer[k],
           \A c \in Sub : Quiet(c)
    PROVE  CloserDebt(k)'
<1>1. SUFFICES ASSUME closer[k].at \in {"settle", "fire"}
               PROVE  inbox'[closer[k].sub] = {}
  BY DEF CloserDebt
<1>2. closer[k].sub \in Sub /\ sub[closer[k].sub].cancelled
  BY <1>1, AtCancel
<1>3. ~sub[closer[k].sub].accepting /\ inbox[closer[k].sub] = {}
  BY <1>1, <1>2 DEF DebtInv, SubDebt, CloserDebt
<1> QED BY <1>2, <1>3 DEF Quiet

(* Threads that stay where they are still cancel what they cancel. *)
LEMMA StillCancelled ==
    ASSUME UNCHANGED closer
    PROVE  \A c \in Sub : Cancelled(c)' <=> Cancelled(c)
BY DEF Cancelled

(* spawn, steer, watch_done, cancel and shutdown open no inbox that nobody    *)
(* will empty.                                                                *)
LEMMA CallerDebt ==
    ASSUME TypeOK, CoreInv, DebtInv, Caller
    PROVE  DebtInv'
<1>0. \A d \in Sub : sub[d] \in SubRow /\ RowInv(sub[d], PoolOpen) /\ SubDebt(d)
  BY DEF TypeOK, CoreInv, DebtInv
<1>1. ASSUME NEW c \in Sub, NEW hook \in BOOLEAN, Spawn(c, hook) PROVE DebtInv'
  <2> DEFINE row == [sub[c] EXCEPT !.status = "running", !.future = "queued", !.accepting = TRUE,
                       !.hook = hook, !.born = Cardinality(Spawned) + 1]
  <2>1. sub[c].future = "none" /\ PoolOpen /\ UNCHANGED <<inbox, worker, closer, exit>>
    BY <1>0, <1>1 DEF Spawn, RowInv, texts, threads
  <2>2. Cardinality(Spawned) + 1 \in Nat
    BY CountIsNat DEF Spawned
  <2>3. /\ row \in SubRow /\ row.future = "queued" /\ row.status = "running"
        /\ row.cancelled = sub[c].cancelled
    BY <1>0, <2>2 DEF SubRow
  <2>4. SubBecomes(c, row)
    BY <1>1 DEF Spawn
  <2> HIDE DEF row
  <2>5. \A d \in Sub : sub'[d] = IF d = c THEN row ELSE sub[d]
    BY <2>3, <2>4, SubBecomesType DEF TypeOK
  <2>6. \A d \in children : d \in children' \/ Evictable(d)
    BY <1>1 DEF Spawn, Kept
  <2>7. c \in children' /\ children' \subseteq children \cup {c}
    BY <1>1 DEF Spawn, Kept
  <2>8. ASSUME NEW d \in Sub PROVE SubDebt(d)'
    <3>1. CASE d = c
      BY <1>0, <2>1, <2>3, <2>5, <2>7, <3>1 DEF SubDebt, Known, PoolOpen
    <3>2. CASE d # c
      <4>1. sub'[d] = sub[d] /\ inbox'[d] = inbox[d] /\ exit' = exit
            /\ (Cancelled(d)' <=> Cancelled(d))
        BY <2>1, <2>5, <3>2, StillCancelled
      <4>2. SubDebt(d) /\ ~Swept(d)
        BY <1>0, <2>1 DEF Swept, PoolOpen
      <4>3. d \notin children' => d \notin children \/ Evictable(d)
        BY <2>6
      <4> QED BY <2>1, <2>7, <3>2, <4>1, <4>2, <4>3 DEF SubDebt, Known, Done, Evictable, PoolOpen
    <3> QED BY <3>1, <3>2
  <2>9. \A d \in Sub : Quiet(d)
    BY <1>0, <2>1, <2>5 DEF Quiet, SubDebt
  <2> QED BY <2>1, <2>8, <2>9, WorkersStill, ClosersStill DEF DebtInv
<1>2. ASSUME NEW c \in Sub, SpawnRejected(c) PROVE DebtInv'
  <2> DEFINE row == [sub[c] EXCEPT !.status = "refused"]
  <2>1. sub[c].future = "none" /\ UNCHANGED <<inbox, children, worker, closer, exit>>
    BY <1>0, <1>2 DEF SpawnRejected, RowInv, texts, threads
  <2>2. /\ row \in SubRow /\ row.future = "none" /\ row.cancelled = sub[c].cancelled
        /\ row.accepting = sub[c].accepting
    BY <1>0, <2>1 DEF SubRow
  <2>3. SubBecomes(c, row)
    BY <1>2 DEF SpawnRejected
  <2> HIDE DEF row
  <2>4. \A d \in Sub : sub'[d] = IF d = c THEN row ELSE sub[d]
    BY <2>2, <2>3, SubBecomesType DEF TypeOK
  <2>5. ASSUME NEW d \in Sub PROVE SubDebt(d)'
    <3>1. CASE d = c
      BY <1>0, <2>1, <2>2, <2>4, <3>1 DEF SubDebt
    <3>2. CASE d # c
      BY <1>0, <2>1, <2>4, <3>2, StillCancelled, OthersOwe
    <3> QED BY <3>1, <3>2
  <2>6. \A d \in Sub : Quiet(d)
    BY <1>0, <2>1, <2>2, <2>4 DEF Quiet
  <2> QED BY <2>1, <2>5, <2>6, WorkersStill, ClosersStill DEF DebtInv
<1>3. ASSUME NEW c \in Sub, SteerRejected(c) PROVE DebtInv'
  <2>1. UNCHANGED <<sub, inbox, children, worker, closer, exit>>
    BY <1>3 DEF SteerRejected, texts, threads
  <2>2. \A d \in Sub : SubDebt(d)'
    BY <1>0, <2>1, StillCancelled, OthersOwe
  <2>3. \A d \in Sub : Quiet(d)
    BY <2>1 DEF Quiet
  <2> QED BY <2>1, <2>2, <2>3, WorkersStill, ClosersStill DEF DebtInv
<1>4. ASSUME NEW c \in Sub, WatchDone(c) PROVE DebtInv'
  <2> DEFINE row == [sub[c] EXCEPT !.hook = TRUE]
  <2>1. sub[c].status \notin Terminal /\ UNCHANGED <<inbox, children, worker, closer, exit>>
    BY <1>4 DEF WatchDone, texts, threads
  <2>2. /\ row \in SubRow /\ row.future = sub[c].future /\ row.cancelled = sub[c].cancelled
        /\ row.accepting = sub[c].accepting /\ row.status = sub[c].status
    BY <1>0 DEF SubRow
  <2>3. SubBecomes(c, row)
    BY <1>4 DEF WatchDone
  <2> HIDE DEF row
  <2>4. \A d \in Sub : sub'[d] = IF d = c THEN row ELSE sub[d]
    BY <2>2, <2>3, SubBecomesType DEF TypeOK
  <2>5. ASSUME NEW d \in Sub PROVE SubDebt(d)'
    <3>1. CASE d = c
      <4>1. (Cancelled(d)' <=> Cancelled(d)) /\ (Swept(d)' <=> Swept(d))
        BY <2>1, StillCancelled DEF Swept, Known
      <4>2. sub'[d] = row /\ SubDebt(d)
        BY <1>0, <2>4, <3>1
      <4> QED BY <2>1, <2>2, <3>1, <4>1, <4>2 DEF SubDebt, Known, Done
    <3>2. CASE d # c
      BY <1>0, <2>1, <2>4, <3>2, StillCancelled, OthersOwe
    <3> QED BY <3>1, <3>2
  <2>6. \A d \in Sub : Quiet(d)
    BY <1>0, <2>1, <2>2, <2>4 DEF Quiet
  <2> QED BY <2>1, <2>5, <2>6, WorkersStill, ClosersStill DEF DebtInv
<1>5. ASSUME NEW c \in Sub, NEW t \in Text, SteerLive(c, t) \/ SteerActive(c, t) PROVE DebtInv'
  <2>1. /\ Known(c) /\ sub[c].accepting /\ ~sub[c].cancelled
        /\ UNCHANGED <<sub, children, worker, closer, exit>>
        /\ inbox' = [inbox EXCEPT ![c] = @ \cup {t}]
    BY <1>5 DEF SteerLive, SteerActive, Enqueue, threads
  <2>2. \A d \in Sub : d # c => inbox'[d] = inbox[d]
    BY <2>1 DEF TypeOK
  <2>3. ASSUME NEW d \in Sub PROVE SubDebt(d)'
    <3>1. CASE d = c
      <4>1. (Cancelled(d)' <=> Cancelled(d)) /\ (Swept(d)' <=> Swept(d))
        BY <2>1, StillCancelled DEF Swept, Known
      <4> QED BY <1>0, <2>1, <3>1, <4>1 DEF SubDebt, Known, Done
    <3>2. CASE d # c
      BY <1>0, <2>1, <2>2, <3>2, StillCancelled, OthersOwe
    <3> QED BY <3>1, <3>2
  <2>4. \A d \in Sub : Quiet(d)
    BY <2>1, <2>2 DEF Quiet
  <2> QED BY <2>1, <2>3, <2>4, WorkersStill, ClosersStill DEF DebtInv
<1>6. ASSUME NEW c \in Sub, NEW t \in Text, SteerIdle(c, t) PROVE DebtInv'
  <2> DEFINE row == [sub[c] EXCEPT !.status = "running", !.future = "queued", !.accepting = TRUE,
                       !.fired = FALSE]
  <2>1. /\ Done(c) /\ ~sub[c].cancelled /\ PoolOpen /\ Known(c)
        /\ UNCHANGED <<inbox, children, worker, closer, exit>>
    BY <1>6 DEF SteerIdle, threads
  <2>2. /\ row \in SubRow /\ row.future = "queued" /\ row.cancelled = sub[c].cancelled
        /\ row.status = "running"
    BY <1>0 DEF SubRow
  <2>3. SubBecomes(c, row)
    BY <1>6 DEF SteerIdle
  <2> HIDE DEF row
  <2>4. \A d \in Sub : sub'[d] = IF d = c THEN row ELSE sub[d]
    BY <2>2, <2>3, SubBecomesType DEF TypeOK
  <2>5. ASSUME NEW d \in Sub PROVE SubDebt(d)'
    <3>1. CASE d = c
      BY <1>0, <2>1, <2>2, <2>4, <3>1 DEF SubDebt, Known, PoolOpen
    <3>2. CASE d # c
      BY <1>0, <2>1, <2>4, <3>2, StillCancelled, OthersOwe
    <3> QED BY <3>1, <3>2
  <2>6. \A d \in Sub : Quiet(d)
    BY <1>0, <2>1, <2>4 DEF Quiet, Done
  <2> QED BY <2>1, <2>5, <2>6, WorkersStill, ClosersStill DEF DebtInv
<1>7. ASSUME NEW who, sub' = Flagged(who) PROVE \A d \in Sub :
          /\ sub'[d].future = sub[d].future /\ sub'[d].status = sub[d].status
          /\ sub'[d].hook = sub[d].hook
          /\ d \notin who => sub'[d] = sub[d]
          /\ d \in who => sub'[d].cancelled /\ ~sub'[d].accepting
  BY <1>0, <1>7 DEF Flagged, SubRow
<1>8. ASSUME NEW k \in Canceller, NEW c \in Sub, Cancel(k, c) PROVE DebtInv'
  <2>1. /\ closer[k].at = "idle" /\ Known(c) /\ sub' = Flagged({c})
        /\ UNCHANGED <<inbox, children, worker, exit>>
    BY <1>8 DEF Cancel, texts
  <2>2. closer'[k].at = "flagged" /\ \A j \in Canceller : j # k => closer'[j] = closer[j]
    BY <1>8 DEF Cancel, TypeOK
  <2>3. \A d \in Sub : Cancelled(d) => Cancelled(d)'
    BY <2>1, <2>2 DEF Cancelled
  <2>4. ASSUME NEW d \in Sub PROVE SubDebt(d)'
    <3>1. CASE d = c
      <4>1. sub[d].future # "none"
        BY <2>1, <3>1 DEF Known, CoreInv
      <4>2. Swept(d)' <=> Swept(d)
        BY <2>1 DEF Swept, Known
      <4>3. /\ sub'[d].future = sub[d].future /\ sub'[d].status = sub[d].status
            /\ sub'[d].hook = sub[d].hook /\ sub'[d].cancelled /\ ~sub'[d].accepting
        BY <1>7, <2>1, <3>1
      <4>4. SubDebt(d) /\ (Cancelled(d) => Cancelled(d)') /\ inbox'[d] = inbox[d]
            /\ (d \in children' <=> d \in children) /\ exit' = exit
        BY <1>0, <2>1, <2>3
      <4> QED BY <4>1, <4>2, <4>3, <4>4 DEF SubDebt, Known, Done
    <3>2. CASE d # c
      BY <1>0, <1>7, <2>1, <2>3, <3>2, OthersOwe
    <3> QED BY <3>1, <3>2
  <2>5. \A d \in Sub : Quiet(d)
    BY <1>7, <2>1 DEF Quiet
  <2>6. ASSUME NEW j \in Canceller PROVE CloserDebt(j)'
    <3>1. CASE j = k
      BY <2>2, <3>1 DEF CloserDebt
    <3>2. CASE j # k
      BY <2>2, <2>5, <3>2, ClosersStill
    <3> QED BY <3>1, <3>2
  <2> QED BY <2>1, <2>4, <2>5, <2>6, WorkersStill DEF DebtInv
<1>9. ASSUME NEW wait \in BOOLEAN, Shutdown(wait) PROVE DebtInv'
  <2>1. /\ exit.at = "up" /\ exit'.at = "stopping" /\ sub' = Flagged(children)
        /\ UNCHANGED <<inbox, children, worker, closer>>
    BY <1>9 DEF Shutdown, StopAll, texts
  <2>2. ASSUME NEW d \in Sub PROVE SubDebt(d)'
    <3>1. /\ sub'[d].future = sub[d].future /\ sub'[d].status = sub[d].status
          /\ sub'[d].hook = sub[d].hook
          /\ d \notin children => sub'[d] = sub[d]
          /\ d \in children => sub'[d].cancelled /\ ~sub'[d].accepting
      BY <1>7, <2>1
    <3>2. SubDebt(d) /\ ~Swept(d) /\ (Cancelled(d)' <=> Cancelled(d))
      BY <1>0, <2>1, StillCancelled DEF Swept
    <3>3. d \in children => sub[d].future # "none"
      BY DEF CoreInv
    <3> QED BY <2>1, <3>1, <3>2, <3>3 DEF SubDebt, Known, Done
  <2>3. \A d \in Sub : Quiet(d)
    BY <1>7, <2>1 DEF Quiet
  <2> QED BY <2>1, <2>2, <2>3, WorkersStill, ClosersStill DEF DebtInv
<1> QED BY <1>1, <1>2, <1>3, <1>4, <1>5, <1>6, <1>8, <1>9 DEF Caller

(* A worker replaces the row it owns, and may empty its inbox. *)
LEMMA WorkerPays ==
    ASSUME TypeOK, CoreInv, DebtInv, UNCHANGED <<children, closer, exit>>,
           NEW w \in Worker, NEW next \in WorkerRow, WorkerBecomes(w, next),
           NEW c \in Sub, NEW row \in SubRow, SubBecomes(c, row),
           \A d \in Sub : inbox'[d] \subseteq inbox[d],
           SubDebt(c)', sub[c].accepting \/ ~row.accepting,
           next.at \in {"fire", "hook"} \/ (next.at = "settle" /\ ~next.more) =>
             next.sub = c /\ ~row.accepting /\ inbox'[c] = {},
           next.at = "drop" => next.sub = c /\ ~row.accepting,
           next.at # "settle" => next.batch = {}
    PROVE  DebtInv'
<1>1. \A d \in Sub : sub'[d] = IF d = c THEN row ELSE sub[d]
  BY SubBecomesType DEF TypeOK
<1>2. \A v \in Worker : worker'[v] = IF v = w THEN next ELSE worker[v]
  BY DEF WorkerBecomes, TypeOK
<1>3. ASSUME NEW d \in Sub PROVE SubDebt(d)'
  <2>1. CASE d = c
    BY <2>1
  <2>2. CASE d # c
    <3>1. SubDebt(d) /\ sub'[d] = sub[d]
      BY <1>1, <2>2 DEF DebtInv
    <3> QED BY <3>1, StillCancelled, OthersOwe
  <2> QED BY <2>1, <2>2
<1>4. \A d \in Sub : Quiet(d)
  BY <1>1 DEF Quiet
<1>5. ASSUME NEW v \in Worker PROVE WorkerDebt(v)'
  <2>1. CASE v = w
    BY <1>1, <1>2, <2>1 DEF WorkerDebt
  <2>2. CASE v # w
    BY <1>2, <1>4, <2>2, WorkersStill DEF DebtInv
  <2> QED BY <2>1, <2>2
<1> QED BY <1>3, <1>4, <1>5, ClosersStill DEF DebtInv

(* _run ends only with an empty inbox that nobody may add to. *)
LEMMA WorkDebt ==
    ASSUME TypeOK, CoreInv, DebtInv, NEW w \in Worker, Work(w) \/ ReadMidTurn(w)
    PROVE  DebtInv'
<1>c. PICK c : c = worker[w].sub
  OBVIOUS
<1> USE <1>c
<1>0. \A d \in Sub : sub[d] \in SubRow /\ RowInv(sub[d], PoolOpen) /\ SubDebt(d)
  BY DEF TypeOK, CoreInv, DebtInv
<1>1. worker[w] \in WorkerRow /\ WorkerDebt(w)
  BY DEF TypeOK, DebtInv
<1>2. worker[w].at # "idle" => c \in Sub /\ sub[c].future = "running"
  BY AtWork DEF AtInv
<1>3. CASE TakeWork(w)
  <2>e. PICK e : e = Head(work).sub
    OBVIOUS
  <2> USE <2>e
  <2> DEFINE item == Head(work)
             row == [sub[e] EXCEPT !.future = "running"]
             next == [worker[w] EXCEPT !.at = "loop", !.sub = e]
  <2>1. UNCHANGED <<inbox, children, closer, exit>> /\ worker[w].at = "idle" /\ e \in Sub
    <3>1. /\ UNCHANGED <<inbox, children, closer, exit>>
          /\ worker[w].at = "idle" /\ work # <<>>
      BY <1>3 DEF TakeWork, texts
    <3>2. Head(work) \in [sub : Sub, accepted : BOOLEAN]
      BY <3>1, HeadAndTail DEF TypeOK
    <3> QED BY <3>1, <3>2
  <2>2. CASE ~MayRun(item)
    <3>1. UNCHANGED <<sub, worker>>
      BY <1>3, <2>2 DEF TakeWork
    <3>2. \A d \in Sub : SubDebt(d)'
      BY <1>0, <2>1, <3>1, StillCancelled, OthersOwe
    <3>3. \A d \in Sub : Quiet(d)
      BY <2>1, <3>1 DEF Quiet
    <3> QED BY <2>1, <3>1, <3>2, <3>3, WorkersStill, ClosersStill DEF DebtInv
  <2>3. CASE MayRun(item)
    <3>1. sub[e].future = "queued" /\ e \in children
      BY <2>3 DEF MayRun, Known
    <3>2. /\ row \in SubRow /\ row.future = "running" /\ row.accepting = sub[e].accepting
          /\ row.cancelled = sub[e].cancelled
      BY <1>0, <2>1 DEF SubRow, Terminal
    <3>3. next \in WorkerRow /\ next.at = "loop" /\ next.batch = {}
      BY <1>1, <2>1 DEF WorkerRow, WorkerDebt
    <3>4. SubBecomes(e, row) /\ WorkerBecomes(w, next)
      BY <1>3, <2>3 DEF TakeWork
    <3>5. /\ \A d \in Sub : inbox'[d] \subseteq inbox[d]
          /\ sub[e].accepting \/ ~row.accepting
      BY <2>1, <3>2 DEF SubRow
    <3> HIDE DEF row, next, item
    <3>6. sub'[e] = row
      BY <2>1, <3>2, <3>4, SubBecomesType DEF TypeOK
    <3>7. SubDebt(e)'
      BY <1>0, <2>1, <3>1, <3>2, <3>6 DEF SubDebt, Known
    <3> QED BY <2>1, <3>2, <3>3, <3>4, <3>5, <3>7, WorkerPays
  <2> QED BY <2>2, <2>3
<1>4. CASE BeginTurn(w)
  <2>1. /\ UNCHANGED <<inbox, children, closer, exit>> /\ worker[w].at = "loop" /\ c \in Sub
        /\ sub[c].future = "running"
    BY <1>2, <1>4 DEF BeginTurn, texts
  <2>2. PICK row \in SubRow, next \in WorkerRow :
          /\ SubBecomes(c, row) /\ WorkerBecomes(w, next)
          /\ row.future = "running" /\ row.cancelled = sub[c].cancelled
          /\ row.accepting = (sub[c].accepting /\ ~sub[c].cancelled)
          /\ next.at = IF sub[c].cancelled THEN "drop" ELSE "turn"
          /\ next.sub = c /\ next.batch = {}
    <3>1. CASE sub[c].cancelled
      <4> DEFINE row == [sub[c] EXCEPT !.status = CancelledStatus(c), !.accepting = FALSE]
                 next == [worker[w] EXCEPT !.at = "drop"]
      <4>1. SubBecomes(c, row) /\ WorkerBecomes(w, next)
        BY <1>4, <3>1 DEF BeginTurn, WorkerGoes
      <4>2. row \in SubRow /\ row.future = "running" /\ row.cancelled = sub[c].cancelled
            /\ ~row.accepting
        BY <1>0, <2>1, CancelledStatusType, ZenonT(60) DEF SubRow, Terminal
      <4>3. next \in WorkerRow /\ next.at = "drop" /\ next.sub = c /\ next.batch = {}
        BY <1>1, <2>1 DEF WorkerRow, WorkerDebt
      <4> QED BY <3>1, <4>1, <4>2, <4>3, ZenonT(60) DEF SubRow
    <3>2. CASE ~sub[c].cancelled
      <4> DEFINE row == [sub[c] EXCEPT !.status = "running", !.fired = FALSE, !.ran = TRUE]
                 next == [worker[w] EXCEPT !.at = "turn"]
      <4>1. SubBecomes(c, row) /\ WorkerBecomes(w, next)
        BY <1>4, <3>2 DEF BeginTurn, WorkerGoes
      <4>2. row \in SubRow /\ row.future = "running" /\ row.cancelled = sub[c].cancelled
            /\ row.accepting = sub[c].accepting
        BY <1>0, <2>1, ZenonT(60) DEF SubRow, Terminal
      <4>3. next \in WorkerRow /\ next.at = "turn" /\ next.sub = c /\ next.batch = {}
        BY <1>1, <2>1 DEF WorkerRow, WorkerDebt
      <4>4. row.accepting = (sub[c].accepting /\ ~sub[c].cancelled)
        BY <1>0, <2>1, <3>2, <4>2 DEF SubRow
      <4> QED BY <3>2, <4>1, <4>2, <4>3, <4>4
    <3> QED BY <3>1, <3>2
  <2>3. sub'[c] = row
    BY <2>1, <2>2, SubBecomesType DEF TypeOK
  <2>4. SubDebt(c)'
    BY <1>0, <2>1, <2>2, <2>3, RunningOwes
  <2>5. /\ \A d \in Sub : inbox'[d] \subseteq inbox[d]
        /\ sub[c].accepting \/ ~row.accepting
        /\ next.at \in {"turn", "drop"} /\ (next.at = "drop" => ~row.accepting)
    BY <2>1, <2>2
  <2> QED BY <2>1, <2>2, <2>4, <2>5, WorkerPays
<1>5. CASE Land(w)
  <2> DEFINE more == inbox[c] # {} /\ ~sub[c].cancelled
             next == [worker[w] EXCEPT !.at = "settle", !.batch = inbox[c], !.more = more,
                           !.outcome = IF sub[c].cancelled THEN "discarded" ELSE "read"]
  <2>1. /\ UNCHANGED <<children, closer, exit>> /\ worker[w].at = "turn" /\ c \in Sub
        /\ sub[c].future = "running"
    BY <1>2, <1>5 DEF Land
  <2>2. PICK row \in SubRow :
          /\ SubBecomes(c, row) /\ row.future = "running" /\ row.cancelled = sub[c].cancelled
          /\ row.accepting => sub[c].accepting /\ more
    <3>1. PICK end \in Terminal \ {"cancelled"} :
            SubBecomes(c, IF more
               THEN [sub[c] EXCEPT !.landed = TRUE, !.status = "running", !.fired = FALSE]
               ELSE [sub[c] EXCEPT !.landed = TRUE, !.status = end, !.accepting = FALSE])
      BY <1>5 DEF Land
    <3>2. CASE more
      <4> DEFINE row == [sub[c] EXCEPT !.landed = TRUE, !.status = "running", !.fired = FALSE]
      <4>1. row \in SubRow /\ row.future = "running" /\ row.cancelled = sub[c].cancelled
            /\ row.accepting = sub[c].accepting
        BY <1>0, <2>1, ZenonT(60) DEF SubRow, Terminal
      <4>2. SubBecomes(c, row)
        BY <3>1, <3>2
      <4> QED BY <3>2, <4>1, <4>2
    <3>3. CASE ~more
      <4> DEFINE row == [sub[c] EXCEPT !.landed = TRUE, !.status = end, !.accepting = FALSE]
      <4>1. row \in SubRow /\ row.future = "running" /\ row.cancelled = sub[c].cancelled
            /\ ~row.accepting
        BY <1>0, <2>1 DEF SubRow, Terminal
      <4>2. SubBecomes(c, row)
        BY <3>1, <3>3
      <4> QED BY <4>1, <4>2
    <3> QED BY <3>2, <3>3
  <2>3. inbox' = [inbox EXCEPT ![c] = {}] /\ WorkerBecomes(w, next)
    BY <1>5 DEF Land
  <2>4. inbox[c] \subseteq Text /\ more \in BOOLEAN
    BY <2>1 DEF TypeOK
  <2>5. next \in WorkerRow /\ next.at = "settle" /\ next.sub = c /\ next.more = more
    BY <1>1, <2>4 DEF WorkerRow, Outcome
  <2>6. inbox'[c] = {} /\ \A d \in Sub : inbox'[d] \subseteq inbox[d]
    BY <2>1, <2>3 DEF TypeOK
  <2> HIDE DEF more, next
  <2>7. sub'[c] = row
    BY <2>1, <2>2, SubBecomesType DEF TypeOK
  <2>8. row.cancelled => ~row.accepting
    BY <1>0, <2>1, <2>2 DEF SubDebt
  <2>9. SubDebt(c)'
    BY <1>0, <2>1, <2>2, <2>7, <2>8, RunningOwes
  <2> QED BY <2>1, <2>2, <2>3, <2>5, <2>6, <2>9, WorkerPays
<1>6. CASE TurnRaises(w)
  <2> DEFINE row == [sub[c] EXCEPT !.status = "error", !.accepting = FALSE, !.landed = TRUE]
             next == [worker[w] EXCEPT !.at = "drop"]
  <2>1. /\ UNCHANGED <<inbox, children, closer, exit>> /\ worker[w].at = "turn" /\ c \in Sub
        /\ sub[c].future = "running"
    BY <1>2, <1>6 DEF TurnRaises, texts
  <2>2. row \in SubRow /\ row.future = "running" /\ ~row.accepting
    BY <1>0, <2>1, ZenonT(60) DEF SubRow, Terminal
  <2>3. next \in WorkerRow /\ next.at = "drop" /\ next.sub = c /\ next.batch = {}
    BY <1>1, <2>1 DEF WorkerRow, WorkerDebt
  <2>4. SubBecomes(c, row) /\ WorkerBecomes(w, next)
    BY <1>6 DEF TurnRaises, WorkerGoes
  <2> HIDE DEF row, next
  <2>5. sub'[c] = row
    BY <2>1, <2>2, <2>4, SubBecomesType DEF TypeOK
  <2>6. SubDebt(c)'
    BY <1>0, <2>1, <2>2, <2>5, RunningOwes
  <2> QED BY <2>1, <2>2, <2>3, <2>4, <2>6, WorkerPays
<1>7. ASSUME worker[w].at # "idle", UNCHANGED <<sub, children, closer, exit>>,
             \A d \in Sub : inbox'[d] \subseteq inbox[d],
             NEW next \in WorkerRow, WorkerBecomes(w, next), next.sub = c,
             next.at \in {"fire", "hook"} \/ (next.at = "settle" /\ ~next.more) =>
               ~sub[c].accepting /\ inbox'[c] = {},
             next.at # "drop", next.at # "settle" => next.batch = {}
      PROVE  DebtInv'
  <2>1. c \in Sub /\ sub[c].future = "running" /\ sub[c] \in SubRow /\ SubDebt(c)
    BY <1>0, <1>2, <1>7
  <2>2. SubBecomes(c, sub[c])
    BY <1>7, <2>1 DEF SubBecomes, TypeOK
  <2>3. SubDebt(c)'
    BY <1>7, <2>1, RunningOwes DEF SubDebt
  <2>4. sub[c].accepting \/ ~sub[c].accepting
    OBVIOUS
  <2> QED BY <1>7, <2>1, <2>2, <2>3, <2>4, WorkerPays
<1>8. CASE SettleBatch(w)
  <2> DEFINE next == [worker[w] EXCEPT !.at = IF worker[w].more THEN "loop" ELSE "fire",
                           !.batch = {}, !.more = FALSE, !.outcome = "read"]
  <2>1. UNCHANGED <<sub, inbox, children, closer, exit>> /\ worker[w].at = "settle"
    BY <1>8 DEF SettleBatch
  <2>2. /\ next \in WorkerRow /\ next.sub = c /\ next.batch = {}
        /\ next.at = IF worker[w].more THEN "loop" ELSE "fire"
    BY <1>1 DEF WorkerRow, Outcome
  <2>3. WorkerBecomes(w, next)
    BY <1>8 DEF SettleBatch
  <2> HIDE DEF next
  <2>4. ~worker[w].more => ~sub[c].accepting /\ inbox[c] = {}
    BY <1>1, <2>1 DEF WorkerDebt
  <2> QED BY <1>7, <2>1, <2>2, <2>3, <2>4
<1>9. CASE DropInbox(w)
  <2> DEFINE next == [worker[w] EXCEPT !.at = "fire"]
  <2>1. UNCHANGED <<sub, children, closer, exit>> /\ worker[w].at = "drop"
        /\ inbox' = [inbox EXCEPT ![c] = {}]
    BY <1>9 DEF DropInbox, Discard
  <2>2. next \in WorkerRow /\ next.sub = c /\ next.batch = {} /\ next.at = "fire"
    BY <1>1, <2>1 DEF WorkerRow, WorkerDebt
  <2>3. WorkerBecomes(w, next)
    BY <1>9 DEF DropInbox, WorkerGoes
  <2> HIDE DEF next
  <2>4. ~sub[c].accepting /\ inbox'[c] = {} /\ \A d \in Sub : inbox'[d] \subseteq inbox[d]
    BY <1>1, <1>2, <2>1 DEF WorkerDebt, TypeOK
  <2> QED BY <1>7, <2>1, <2>2, <2>3, <2>4
<1>10. CASE WorkerFires(w)
  <2> DEFINE next == [worker[w] EXCEPT !.at = "hook"]
  <2>1. /\ UNCHANGED <<inbox, children, closer, exit>> /\ worker[w].at = "fire" /\ c \in Sub
        /\ sub[c].future = "running" /\ ~sub[c].accepting /\ inbox[c] = {}
    BY <1>1, <1>2, <1>10 DEF WorkerFires, texts, WorkerDebt
  <2>2. PICK row \in SubRow :
          SubBecomes(c, row) /\ row.future = "running" /\ ~row.accepting
    <3>1. CASE sub[c].hook /\ ~sub[c].fired
      <4> DEFINE row == [sub[c] EXCEPT !.hook = FALSE, !.fired = TRUE]
      <4>1. SubBecomes(c, row)
        BY <1>10, <3>1 DEF WorkerFires, FireDone
      <4>2. row \in SubRow /\ row.future = "running" /\ ~row.accepting
        BY <1>0, <2>1, ZenonT(60) DEF SubRow, Terminal
      <4> QED BY <4>1, <4>2
    <3>2. CASE ~(sub[c].hook /\ ~sub[c].fired)
      <4>1. SubBecomes(c, sub[c])
        BY <1>10, <2>1, <3>2 DEF WorkerFires, FireDone, SubBecomes, TypeOK
      <4> QED BY <1>0, <2>1, <4>1
    <3> QED BY <3>1, <3>2
  <2>3. next \in WorkerRow /\ next.sub = c /\ next.batch = {} /\ next.at = "hook"
    BY <1>1, <2>1 DEF WorkerRow, WorkerDebt
  <2>4. WorkerBecomes(w, next)
    BY <1>10 DEF WorkerFires, WorkerGoes
  <2> HIDE DEF next
  <2>5. sub'[c] = row
    BY <2>1, <2>2, SubBecomesType DEF TypeOK
  <2>6. SubDebt(c)'
    BY <1>0, <2>1, <2>2, <2>5, RunningOwes
  <2> QED BY <2>1, <2>2, <2>3, <2>4, <2>6, WorkerPays
<1>11. CASE WorkerReturns(w)
  <2> DEFINE row == [sub[c] EXCEPT !.future = "done"]
  <2>1. /\ UNCHANGED <<inbox, children, closer, exit>> /\ worker[w].at = "hook" /\ c \in Sub
        /\ ~sub[c].accepting /\ inbox[c] = {} /\ AtInv("hook", worker[w].more, sub[c])
    BY <1>1, <1>2, <1>11, AtWork DEF WorkerReturns, texts, WorkerDebt
  <2>2. /\ row \in SubRow /\ row.future = "done" /\ ~row.accepting
        /\ row.cancelled = sub[c].cancelled /\ row.status = sub[c].status
        /\ sub[c].status \in Terminal
    BY <1>0, <2>1 DEF SubRow, AtInv
  <2>3. SubBecomes(c, row) /\ WorkerBecomes(w, Resting)
    BY <1>11 DEF WorkerReturns
  <2>4. Resting \in WorkerRow /\ Resting.at = "idle" /\ Resting.batch = {}
    BY DEF Resting, WorkerRow, Outcome
  <2> HIDE DEF row
  <2>5. sub'[c] = row
    BY <2>1, <2>2, <2>3, SubBecomesType DEF TypeOK
  <2>6. SubDebt(c)'
    BY <2>1, <2>2, <2>5 DEF SubDebt, Known, Done
  <2> QED BY <2>1, <2>2, <2>3, <2>4, <2>6, WorkerPays
<1>12. CASE ReadMidTurn(w)
  <2>1. /\ UNCHANGED <<sub, children, worker, closer, exit>> /\ c \in Sub
        /\ inbox' = [inbox EXCEPT ![c] = {}]
    BY <1>2, <1>12 DEF ReadMidTurn, threads
  <2>2. \A d \in Sub : inbox'[d] \subseteq inbox[d]
    BY <2>1 DEF TypeOK
  <2>3. \A d \in Sub : SubDebt(d)'
    BY <1>0, <2>1, <2>2, StillCancelled, OthersOwe
  <2>4. \A d \in Sub : Quiet(d)
    BY <2>1, <2>2 DEF Quiet
  <2> QED BY <2>1, <2>3, <2>4, WorkersStill, ClosersStill DEF DebtInv
<1> QED BY <1>3, <1>4, <1>5, <1>6, <1>8, <1>9, <1>10, <1>11, <1>12 DEF Work

(* A thread inside cancel moves on, over a row it may have replaced. *)
LEMMA CloserPays ==
    ASSUME TypeOK, CoreInv, DebtInv, UNCHANGED <<children, worker, exit>>,
           NEW k \in Canceller, NEW next \in CloserRows, closer' = [closer EXCEPT ![k] = next],
           NEW c \in Sub, closer[k].sub = c, NEW row \in SubRow, SubBecomes(c, row),
           \A d \in Sub : inbox'[d] \subseteq inbox[d],
           SubDebt(c)', sub[c].accepting \/ ~row.accepting,
           next.at \in {"settle", "fire"} => next.sub = c /\ inbox'[c] = {}
    PROVE  DebtInv'
<1>1. \A d \in Sub : sub'[d] = IF d = c THEN row ELSE sub[d]
  BY SubBecomesType DEF TypeOK
<1>2. closer'[k] = next /\ \A j \in Canceller : j # k => closer'[j] = closer[j]
  BY DEF TypeOK
<1>3. ASSUME NEW d \in Sub PROVE SubDebt(d)'
  <2>1. CASE d = c
    BY <2>1
  <2>2. CASE d # c
    <3>1. SubDebt(d) /\ sub'[d] = sub[d]
      BY <1>1, <2>2 DEF DebtInv
    <3>2. Cancelled(d) => Cancelled(d)'
      BY <1>2, <2>2 DEF Cancelled
    <3> QED BY <3>1, <3>2, OthersOwe
  <2> QED BY <2>1, <2>2
<1>4. \A d \in Sub : Quiet(d)
  BY <1>1 DEF Quiet
<1>5. ASSUME NEW j \in Canceller PROVE CloserDebt(j)'
  <2>1. CASE j = k
    BY <1>2, <2>1 DEF CloserDebt
  <2>2. CASE j # k
    BY <1>2, <1>4, <2>2, ClosersStill
  <2> QED BY <2>1, <2>2
<1> QED BY <1>3, <1>4, <1>5, WorkersStill DEF DebtInv

(* cancel leaves what it dropped settled, called and empty. *)
LEMMA CancellingDebt ==
    ASSUME TypeOK, CoreInv, DebtInv, NEW k \in Canceller, Cancelling(k)
    PROVE  DebtInv'
<1>c. PICK c : c = closer[k].sub
  OBVIOUS
<1> USE <1>c
<1>0. /\ closer[k] \in CloserRows /\ c \in Sub /\ closer[k].at # "idle"
      /\ sub[c] \in SubRow /\ sub[c].cancelled /\ ~sub[c].accepting
      /\ RowInv(sub[c], PoolOpen) /\ SubDebt(c) /\ CloserDebt(k)
      /\ closer[k].at # "flagged" => sub[c].future = "dropped"
      /\ closer[k].at = "fire" => sub[c].status \in Terminal
  <2>1. closer[k].at # "idle"
    BY DEF Cancelling, CancelFuture, CancelDiscards, CancelSettles, CancelFires
  <2> QED BY <2>1, AtCancel DEF DebtInv, SubDebt
<1>1. CASE CancelFuture(k)
  <2>1. closer[k].at = "flagged" /\ UNCHANGED <<inbox, children, worker, exit>>
    BY <1>1 DEF CancelFuture, texts
  <2>2. CASE sub[c].future \in {"queued", "dropped"}
    <3> DEFINE row == [sub[c] EXCEPT !.future = "dropped"]
               next == [closer[k] EXCEPT !.at = "discard"]
    <3>1. /\ row \in SubRow /\ row.future = "dropped" /\ row.status = sub[c].status
          /\ row.cancelled /\ ~row.accepting
      BY <1>0 DEF SubRow
    <3>2. next \in CloserRows /\ next.at = "discard" /\ next.sub = c
      BY <1>0 DEF CloserRows
    <3>3. SubBecomes(c, row) /\ closer' = [closer EXCEPT ![k] = next]
      BY <1>1, <2>2 DEF CancelFuture, CloserGoes
    <3> HIDE DEF row, next
    <3>4. sub'[c] = row /\ Cancelled(c)'
      BY <1>0, <3>1, <3>2, <3>3, SubBecomesType DEF TypeOK, Cancelled
    <3>5. sub[c].future = "queued" => sub[c].status \notin Terminal
      BY <1>0 DEF RowInv, Terminal
    <3>6. SubDebt(c)'
      BY <1>0, <2>1, <2>2, <3>1, <3>4, <3>5 DEF SubDebt, Known, Done
    <3> QED BY <1>0, <2>1, <3>1, <3>2, <3>3, <3>6, CloserPays
  <2>3. CASE sub[c].future \notin {"queued", "dropped"}
    <3>1. UNCHANGED sub /\ closer' = [closer EXCEPT ![k] = AtRest]
      BY <1>1, <2>3 DEF CancelFuture
    <3>2. SubBecomes(c, sub[c])
      BY <1>0, <3>1 DEF SubBecomes, TypeOK
    <3>3. SubDebt(c)'
      BY <1>0, <2>1, <2>3, <3>1 DEF SubDebt, Known, Done
    <3> QED BY <1>0, <2>1, <3>1, <3>2, <3>3, AtRestRow, CloserPays
  <2> QED BY <2>2, <2>3
<1>2. CASE CancelDiscards(k)
  <2> DEFINE next == [closer[k] EXCEPT !.at = "settle"]
  <2>1. /\ closer[k].at = "discard" /\ UNCHANGED <<sub, children, worker, exit>>
        /\ inbox' = [inbox EXCEPT ![c] = {}] /\ closer' = [closer EXCEPT ![k] = next]
    BY <1>2 DEF CancelDiscards, Discard, CloserGoes
  <2>2. next \in CloserRows /\ next.at = "settle" /\ next.sub = c
    BY <1>0 DEF CloserRows
  <2> HIDE DEF next
  <2>3. inbox'[c] = {} /\ \A d \in Sub : inbox'[d] \subseteq inbox[d]
    BY <1>0, <2>1 DEF TypeOK
  <2>4. SubBecomes(c, sub[c])
    BY <1>0, <2>1 DEF SubBecomes, TypeOK
  <2>5. Cancelled(c)'
    BY <1>0, <2>1, <2>2 DEF Cancelled, TypeOK
  <2>6. SubDebt(c)'
    BY <1>0, <2>1, <2>3, <2>5 DEF SubDebt, Known, Done
  <2> QED BY <1>0, <2>1, <2>2, <2>3, <2>4, <2>6, CloserPays
<1>3. CASE CancelSettles(k)
  <2> DEFINE row == [sub[c] EXCEPT !.status = CancelledStatus(c)]
             next == [closer[k] EXCEPT !.at = "fire"]
  <2>1. closer[k].at = "settle" /\ UNCHANGED <<inbox, children, worker, exit>>
    BY <1>3 DEF CancelSettles, texts
  <2>2. /\ row \in SubRow /\ row.future = "dropped" /\ row.status \in Terminal
        /\ row.cancelled /\ ~row.accepting
    BY <1>0, <2>1, CancelledStatusType DEF SubRow, Terminal
  <2>3. next \in CloserRows /\ next.at = "fire" /\ next.sub = c
    BY <1>0 DEF CloserRows
  <2>4. SubBecomes(c, row) /\ closer' = [closer EXCEPT ![k] = next]
    BY <1>3 DEF CancelSettles, CloserGoes
  <2> HIDE DEF row, next
  <2>5. sub'[c] = row /\ Cancelled(c)' /\ inbox[c] = {} /\ inbox' = inbox
    BY <1>0, <2>1, <2>2, <2>3, <2>4, SubBecomesType DEF TypeOK, Cancelled, CloserDebt
  <2>6. SubDebt(c)'
    BY <1>0, <2>1, <2>2, <2>5 DEF SubDebt, Known, Done
  <2> QED BY <1>0, <2>1, <2>2, <2>3, <2>4, <2>5, <2>6, CloserPays
<1>4. CASE CancelFires(k)
  <2>1. /\ closer[k].at = "fire" /\ UNCHANGED <<inbox, children, worker, exit>>
        /\ closer' = [closer EXCEPT ![k] = AtRest]
    BY <1>4 DEF CancelFires, texts
  <2>2. sub[c].future = "dropped" /\ sub[c].status \in Terminal /\ inbox[c] = {}
    BY <1>0, <2>1 DEF CloserDebt
  <2>3. PICK row \in SubRow :
          /\ SubBecomes(c, row) /\ RowInv(row, PoolOpen) /\ row.future = "dropped"
          /\ row.status = sub[c].status /\ ~row.hook /\ ~row.accepting /\ row.cancelled
    <3>1. CASE sub[c].hook /\ ~sub[c].fired
      <4> DEFINE row == [sub[c] EXCEPT !.hook = FALSE, !.fired = TRUE]
      <4>1. SubBecomes(c, row)
        BY <1>4, <3>1 DEF CancelFires, FireDone
      <4>2. /\ row \in SubRow /\ row.future = "dropped" /\ row.status = sub[c].status
            /\ ~row.hook /\ ~row.accepting /\ row.cancelled
        BY <1>0, <2>2 DEF SubRow
      <4>3. RowInv(row, PoolOpen)
        BY <1>0, <2>2 DEF SubRow, RowInv, Terminal, Billed, Over
      <4> QED BY <4>1, <4>2, <4>3
    <3>2. CASE ~(sub[c].hook /\ ~sub[c].fired)
      <4>1. SubBecomes(c, sub[c])
        BY <1>0, <1>4, <3>2 DEF CancelFires, FireDone, SubBecomes, TypeOK
      <4>2. ~sub[c].hook
        BY <1>0, <3>2 DEF RowInv
      <4> QED BY <1>0, <2>2, <4>1, <4>2
    <3> QED BY <3>1, <3>2
  <2>4. sub'[c] = row
    BY <1>0, <2>3, SubBecomesType DEF TypeOK
  <2>5. SubDebt(c)'
    BY <1>0, <2>1, <2>2, <2>3, <2>4 DEF SubDebt, Known, Done
  <2> QED BY <1>0, <2>1, <2>3, <2>5, AtRestRow, CloserPays
<1> QED BY <1>1, <1>2, <1>3, <1>4 DEF Cancelling

(* The rest of the invariant, for a step of shutdown: it only closes inboxes. *)
LEMMA ExitFrame ==
    ASSUME TypeOK, CoreInv, DebtInv, UNCHANGED <<worker, closer>>,
           \A d \in Sub : SubDebt(d)',
           \A d \in Sub : inbox'[d] \subseteq inbox[d],
           \A d \in Sub : sub[d].accepting \/ ~sub'[d].accepting
    PROVE  DebtInv'
<1>1. \A d \in Sub : Quiet(d)
  BY DEF Quiet
<1> QED BY <1>1, WorkersStill, ClosersStill DEF DebtInv

(* shutdown closes what is still open, and settles what nobody else will. *)
LEMMA ExitingDebt ==
    ASSUME TypeOK, CoreInv, DebtInv, Exiting
    PROVE  DebtInv'
<1>0. \A d \in Sub : sub[d] \in SubRow /\ RowInv(sub[d], PoolOpen) /\ SubDebt(d)
  BY DEF TypeOK, CoreInv, DebtInv
<1>1. UNCHANGED closer => \A d \in Sub : Cancelled(d)' <=> Cancelled(d)
  BY StillCancelled
<1>2. CASE StopOne
  <2>1. exit.at \in {"stopping", "sweeping"} /\ UNCHANGED <<sub, children, worker, closer>>
    BY <1>2 DEF StopOne
  <2>2. PICK c \in exit.todo : Discard(c) /\ exit' = [exit EXCEPT !.todo = @ \ {c}]
    BY <1>2 DEF StopOne
  <2>3. /\ exit'.at = exit.at /\ exit'.todo = exit.todo \ {c} /\ exit'.sub = exit.sub
        /\ c \in Sub /\ inbox' = [inbox EXCEPT ![c] = {}]
    BY <2>2 DEF TypeOK, Discard
  <2>4. inbox'[c] = {} /\ \A d \in Sub : d # c => inbox'[d] = inbox[d]
    BY <2>3 DEF TypeOK
  <2>5. ASSUME NEW d \in Sub PROVE SubDebt(d)'
    <3>1. SubDebt(d) /\ (Cancelled(d)' <=> Cancelled(d)) /\ (Swept(d) => Swept(d)')
      BY <1>0, <1>1, <2>1, <2>3 DEF Swept, Known
    <3>2. inbox'[d] = inbox[d] \/ inbox'[d] = {}
      BY <2>4
    <3>3. d = c => inbox'[d] = {}
      BY <2>4
    <3> QED BY <2>1, <2>3, <3>1, <3>2, <3>3 DEF SubDebt, Known, Done
  <2>6. \A d \in Sub : inbox'[d] \subseteq inbox[d]
    BY <2>4
  <2> QED BY <2>1, <2>5, <2>6, ExitFrame
<1>3. CASE ClosePool
  <2>1. exit.at = "stopping" /\ UNCHANGED <<inbox, children, worker, closer>>
    BY <1>3 DEF ClosePool, texts
  <2>2. CASE exit.wait
    <3>1. exit'.at = "joining" /\ UNCHANGED sub
      BY <1>3, <2>2 DEF ClosePool, TypeOK
    <3>2. ASSUME NEW d \in Sub PROVE SubDebt(d)'
      <4>1. SubDebt(d) /\ (Cancelled(d)' <=> Cancelled(d)) /\ ~Swept(d)
        BY <1>0, <1>1, <2>1 DEF Swept
      <4> QED BY <2>1, <3>1, <4>1 DEF SubDebt, Known, Done
    <3> QED BY <2>1, <3>1, <3>2, ExitFrame
  <2>3. CASE ~exit.wait
    <3>1. /\ exit'.at = "closed"
          /\ sub' = [d \in Sub |-> IF sub[d].future = "queued"
                                   THEN [sub[d] EXCEPT !.future = "dropped"] ELSE sub[d]]
      BY <1>3, <2>3 DEF ClosePool, TypeOK
    <3>2. ASSUME NEW d \in Sub
          PROVE  /\ sub'[d].status = sub[d].status /\ sub'[d].accepting = sub[d].accepting
                 /\ sub'[d].cancelled = sub[d].cancelled /\ sub'[d].hook = sub[d].hook
                 /\ sub'[d].future = IF sub[d].future = "queued" THEN "dropped" ELSE sub[d].future
      BY <1>0, <3>1 DEF SubRow
    <3>3. ASSUME NEW d \in Sub PROVE SubDebt(d)'
      <4>1. /\ SubDebt(d) /\ (Cancelled(d)' <=> Cancelled(d)) /\ ~Swept(d)
            /\ (d \in children => Swept(d)')
        BY <1>0, <1>1, <2>1, <3>1 DEF Swept, Known
      <4>2. sub[d].future = "queued" => d \in children /\ sub[d].status \notin Terminal
        BY <1>0 DEF SubDebt, Known, Done, RowInv, Terminal
      <4> QED BY <2>1, <3>1, <3>2, <4>1, <4>2 DEF SubDebt, Known, Done
    <3> QED BY <2>1, <3>2, <3>3, ExitFrame
  <2> QED BY <2>2, <2>3
<1>4. CASE SweepAgain
  <2>1. /\ exit.at = "closed" /\ sub' = Flagged(children)
        /\ exit' = [at |-> "sweeping", wait |-> exit.wait, todo |-> children, sub |-> "none"]
        /\ UNCHANGED <<inbox, children, worker, closer>>
    BY <1>4 DEF SweepAgain, StopAll, texts
  <2>2. exit'.at = "sweeping" /\ exit'.todo = children
    BY <2>1
  <2>3. ASSUME NEW d \in Sub
        PROVE  /\ sub'[d].future = sub[d].future /\ sub'[d].status = sub[d].status
               /\ sub'[d].hook = sub[d].hook
               /\ d \notin children => sub'[d] = sub[d]
               /\ d \in children => sub'[d].cancelled /\ ~sub'[d].accepting
    BY <1>0, <2>1 DEF Flagged, SubRow
  <2>4. ASSUME NEW d \in Sub PROVE SubDebt(d)'
    <3>1. /\ SubDebt(d) /\ (Cancelled(d)' <=> Cancelled(d)) /\ (Swept(d) => Swept(d)')
      BY <1>0, <1>1, <2>1, <2>2 DEF Swept, Known
    <3>2. d \in children => sub[d].future # "none"
      BY DEF CoreInv
    <3> QED BY <2>1, <2>2, <2>3, <3>1, <3>2 DEF SubDebt, Known, Done
  <2>5. \A d \in Sub : sub[d].accepting \/ ~sub'[d].accepting
    BY <2>3
  <2> QED BY <2>1, <2>4, <2>5, ExitFrame
<1>5. CASE StartSettling
  <2>1. /\ exit.at = "sweeping" /\ exit.todo = {} /\ exit'.at = "settling"
        /\ exit'.todo = children /\ UNCHANGED <<sub, inbox, children, worker, closer>>
    BY <1>5 DEF StartSettling, TypeOK, texts
  <2>2. ASSUME NEW d \in Sub PROVE SubDebt(d)'
    <3>1. /\ SubDebt(d) /\ (Cancelled(d)' <=> Cancelled(d)) /\ (Swept(d) => Swept(d)')
      BY <1>0, <1>1, <2>1 DEF Swept, Known
    <3> QED BY <2>1, <3>1 DEF SubDebt, Known, Done
  <2> QED BY <2>1, <2>2, ExitFrame
<1>6. CASE SettleOne
  <2>1. exit.at = "settling" /\ UNCHANGED <<inbox, children, worker, closer>>
    BY <1>6 DEF SettleOne, texts
  <2>2. PICK c \in exit.todo :
          IF sub[c].future = "dropped"
            THEN /\ SubBecomes(c, [sub[c] EXCEPT !.status = CancelledStatus(c)])
                 /\ exit' = [exit EXCEPT !.at = "firing", !.todo = @ \ {c}, !.sub = c]
            ELSE UNCHANGED sub /\ exit' = [exit EXCEPT !.todo = @ \ {c}]
    BY <1>6 DEF SettleOne
  <2>3. c \in Sub
    BY <2>2 DEF TypeOK
  <2>4. CASE sub[c].future = "dropped"
    <3> DEFINE row == [sub[c] EXCEPT !.status = CancelledStatus(c)]
    <3>1. /\ row \in SubRow /\ row.future = "dropped" /\ row.status \in Terminal
          /\ row.hook = sub[c].hook
          /\ row.cancelled = sub[c].cancelled /\ row.accepting = sub[c].accepting
      BY <1>0, <2>3, <2>4, CancelledStatusType DEF SubRow, Terminal
    <3>2. SubBecomes(c, row) /\ exit'.at = "firing" /\ exit'.todo = exit.todo \ {c} /\ exit'.sub = c
      BY <2>2, <2>4 DEF TypeOK
    <3> HIDE DEF row
    <3>3. \A d \in Sub : sub'[d] = IF d = c THEN row ELSE sub[d]
      BY <2>3, <3>1, <3>2, SubBecomesType DEF TypeOK
    <3>4. ASSUME NEW d \in Sub PROVE SubDebt(d)'
      <4>1. /\ SubDebt(d) /\ (Cancelled(d)' <=> Cancelled(d)) /\ (Swept(d) => Swept(d)')
        BY <1>0, <1>1, <2>1, <3>2 DEF Swept, Known
      <4>2. CASE d = c
        BY <2>1, <2>4, <3>1, <3>2, <3>3, <4>1, <4>2 DEF SubDebt, Known, Done
      <4>3. CASE d # c
        BY <2>1, <3>2, <3>3, <4>1, <4>3 DEF SubDebt, Known, Done
      <4> QED BY <4>2, <4>3
    <3>5. \A d \in Sub : sub[d].accepting \/ ~sub'[d].accepting
      BY <3>1, <3>3
    <3> QED BY <2>1, <3>4, <3>5, ExitFrame
  <2>5. CASE sub[c].future # "dropped"
    <3>1. UNCHANGED sub /\ exit'.at = "settling" /\ exit'.todo = exit.todo \ {c}
      BY <2>1, <2>2, <2>5 DEF TypeOK
    <3>2. ASSUME NEW d \in Sub PROVE SubDebt(d)'
      <4>1. /\ SubDebt(d) /\ (Cancelled(d)' <=> Cancelled(d)) /\ (d # c /\ Swept(d) => Swept(d)')
        BY <1>0, <1>1, <2>1, <3>1 DEF Swept, Known
      <4> QED BY <2>1, <2>5, <3>1, <4>1 DEF SubDebt, Known, Done
    <3> QED BY <2>1, <3>1, <3>2, ExitFrame
  <2> QED BY <2>4, <2>5
<1>7. CASE FireOne
  <2>c. PICK c : c = exit.sub
    OBVIOUS
  <2>1. /\ exit.at = "firing" /\ UNCHANGED <<inbox, children, worker, closer>>
        /\ exit'.at = "settling" /\ exit'.todo = exit.todo
        /\ c \in Sub /\ sub[c].future = "dropped" /\ sub[c].status \in Terminal
    BY <1>7, <2>c DEF FireOne, texts, TypeOK, CoreInv, ExitInv
  <2>2. PICK row \in SubRow :
          /\ SubBecomes(c, row) /\ row.future = "dropped"
          /\ row.status = sub[c].status /\ ~row.hook
          /\ row.cancelled = sub[c].cancelled /\ row.accepting = sub[c].accepting
    <3>1. CASE sub[c].hook /\ ~sub[c].fired
      <4> DEFINE row == [sub[c] EXCEPT !.hook = FALSE, !.fired = TRUE]
      <4>1. SubBecomes(c, row)
        BY <1>7, <2>c, <3>1 DEF FireOne, FireDone
      <4>2. /\ row \in SubRow /\ row.future = "dropped" /\ row.status = sub[c].status
            /\ ~row.hook /\ row.cancelled = sub[c].cancelled
            /\ row.accepting = sub[c].accepting
        BY <1>0, <2>1 DEF SubRow
      <4> QED BY <4>1, <4>2
    <3>2. CASE ~(sub[c].hook /\ ~sub[c].fired)
      <4>1. SubBecomes(c, sub[c])
        BY <1>7, <2>c, <2>1, <3>2 DEF FireOne, FireDone, SubBecomes, TypeOK
      <4>2. ~sub[c].hook
        BY <1>0, <2>1, <3>2 DEF RowInv
      <4> QED BY <1>0, <2>1, <4>1, <4>2
    <3> QED BY <3>1, <3>2
  <2>3. \A d \in Sub : sub'[d] = IF d = c THEN row ELSE sub[d]
    BY <2>1, <2>2, SubBecomesType DEF TypeOK
  <2>4. ASSUME NEW d \in Sub PROVE SubDebt(d)'
    <3>1. /\ SubDebt(d) /\ (Cancelled(d)' <=> Cancelled(d)) /\ (d # c /\ Swept(d) => Swept(d)')
      BY <1>0, <1>1, <2>1, <2>c DEF Swept, Known
    <3>2. CASE d = c
      BY <2>1, <2>2, <2>3, <3>1, <3>2 DEF SubDebt, Known, Done
    <3>3. CASE d # c
      BY <2>1, <2>3, <3>1, <3>3 DEF SubDebt, Known, Done
    <3> QED BY <3>2, <3>3
  <2>5. \A d \in Sub : sub[d].accepting \/ ~sub'[d].accepting
    BY <2>2, <2>3 DEF SubRow
  <2> QED BY <2>1, <2>4, <2>5, ExitFrame
<1>8. CASE ShutdownReturns
  <2>1. /\ exit'.at = "down" /\ UNCHANGED <<sub, inbox, children, worker, closer>>
        /\ (exit.at = "settling" /\ exit.todo = {}) \/ exit.at = "joining"
    BY <1>8 DEF ShutdownReturns, TypeOK, texts
  <2>2. ASSUME NEW d \in Sub PROVE SubDebt(d)'
    <3>1. /\ SubDebt(d) /\ (Cancelled(d)' <=> Cancelled(d)) /\ ~Swept(d)
      BY <1>0, <1>1, <2>1 DEF Swept
    <3> QED BY <2>1, <3>1 DEF SubDebt, Known, Done
  <2> QED BY <2>1, <2>2, ExitFrame
<1> QED BY <1>2, <1>3, <1>4, <1>5, <1>6, <1>7, <1>8 DEF Exiting

(* Where an accepted steer is: in one inbox, in one captured batch, or told.   *)
Unheld(t) == \A c \in Sub : t \notin inbox[c]

Uncarried(t) == \A w \in Worker : t \notin worker[w].batch

HeldOnce(t) == \E c \in Sub : \A d \in Sub : t \in inbox[d] <=> d = c

CarriedOnce(t) == \E w \in Worker : \A v \in Worker : t \in worker[v].batch <=> v = w

TextInv(t) ==
    \/ sent[t] # "queued" /\ Len(told[t]) = 0 /\ Unheld(t) /\ Uncarried(t)
    \/ sent[t] = "queued" /\ Len(told[t]) = 1 /\ Unheld(t) /\ Uncarried(t)
    \/ sent[t] = "queued" /\ Len(told[t]) = 0 /\ HeldOnce(t) /\ Uncarried(t)
    \/ sent[t] = "queued" /\ Len(told[t]) = 0 /\ Unheld(t) /\ CarriedOnce(t)

TextsOnce == \A t \in Text : TextInv(t)

(* Settling tells what it settles, once more than it was told, and that only. *)
LEMMA SettleTells ==
    ASSUME TypeOK, NEW batch, NEW outcome \in Outcome, Settle(batch, outcome), NEW t \in Text
    PROVE  Len(told'[t]) = IF t \in batch THEN Len(told[t]) + 1 ELSE Len(told[t])
<1>1. told[t] \in Seq(Outcome)
  BY DEF TypeOK
<1>2. told'[t] = IF t \in batch THEN Append(told[t], outcome) ELSE told[t]
  BY DEF Settle
<1>3. Len(Append(told[t], outcome)) = Len(told[t]) + 1
  BY <1>1
<1> QED BY <1>2, <1>3

(* A step that moves no text keeps them all. *)
LEMMA TextsStay ==
    ASSUME TextsOnce, UNCHANGED <<inbox, told>>,
           \A t \in Text : sent'[t] = sent[t] \/ (sent[t] # "queued" /\ sent'[t] # "queued"),
           \A w \in Worker : worker'[w].batch = worker[w].batch
    PROVE  TextsOnce'
BY DEF TextsOnce, TextInv, Unheld, Uncarried, HeldOnce, CarriedOnce

(* A text is accepted into one inbox, and was nowhere before. *)
LEMMA EnqueuedOnce ==
    ASSUME TypeOK, TextsOnce, NEW c \in Sub, NEW t \in Text, Enqueue(c, t)
    PROVE  TextsOnce'
<1>1. /\ sent[t] = "no" /\ sent'[t] = "queued" /\ UNCHANGED <<told, worker>>
      /\ \A u \in Text : u # t => sent'[u] = sent[u]
      /\ inbox'[c] = inbox[c] \cup {t} /\ \A d \in Sub : d # c => inbox'[d] = inbox[d]
  BY DEF Enqueue, threads, TypeOK
<1>2. \A u \in Text, d \in Sub : u \in inbox'[d] <=> u \in inbox[d] \/ (u = t /\ d = c)
  BY <1>1
<1>3. ASSUME NEW u \in Text PROVE TextInv(u)'
  <2>1. TextInv(u)
    BY DEF TextsOnce
  <2>2. CASE u = t
    <3>1. Len(told[t]) = 0 /\ Unheld(t) /\ Uncarried(t)
      BY <1>1, <2>1, <2>2 DEF TextInv
    <3>2. HeldOnce(t)' /\ Uncarried(t)'
      BY <1>1, <1>2, <3>1 DEF HeldOnce, Unheld, Uncarried
    <3> QED BY <1>1, <2>2, <3>1, <3>2 DEF TextInv
  <2>3. CASE u # t
    <3>1. \A d \in Sub : u \in inbox'[d] <=> u \in inbox[d]
      BY <1>2, <2>3
    <3> QED BY <1>1, <2>1, <2>3, <3>1 DEF TextInv, Unheld, Uncarried, HeldOnce, CarriedOnce
  <2> QED BY <2>2, <2>3
<1> QED BY <1>3 DEF TextsOnce

(* An inbox that is emptied and settled at once is told once, and held no more. *)
LEMMA InboxTold ==
    ASSUME TypeOK, TextsOnce, UNCHANGED sent, NEW c \in Sub, NEW outcome \in Outcome,
           inbox' = [inbox EXCEPT ![c] = {}], Settle(inbox[c], outcome),
           \A w \in Worker : worker'[w].batch = worker[w].batch
    PROVE  TextsOnce'
<1>1. inbox'[c] = {} /\ \A d \in Sub : d # c => inbox'[d] = inbox[d]
  BY DEF TypeOK
<1>2. ASSUME NEW u \in Text PROVE TextInv(u)'
  <2>1. TextInv(u) /\ sent'[u] = sent[u]
    BY DEF TextsOnce
  <2>2. Len(told'[u]) = IF u \in inbox[c] THEN Len(told[u]) + 1 ELSE Len(told[u])
    BY SettleTells
  <2>3. CASE u \in inbox[c]
    <3>1. sent[u] = "queued" /\ Len(told[u]) = 0 /\ HeldOnce(u) /\ Uncarried(u)
      BY <2>1, <2>3 DEF TextInv, Unheld
    <3>2. Unheld(u)' /\ Uncarried(u)'
      BY <1>1, <2>3, <3>1 DEF HeldOnce, Unheld, Uncarried
    <3> QED BY <2>1, <2>2, <2>3, <3>1, <3>2 DEF TextInv
  <2>4. CASE u \notin inbox[c]
    <3>1. \A d \in Sub : u \in inbox'[d] <=> u \in inbox[d]
      BY <1>1, <2>4
    <3> QED BY <2>1, <2>2, <2>4, <3>1 DEF TextInv, Unheld, Uncarried, HeldOnce, CarriedOnce
  <2> QED BY <2>3, <2>4
<1> QED BY <1>2 DEF TextsOnce

(* A turn that lands moves its inbox to the batch of its worker. *)
LEMMA InboxCaptured ==
    ASSUME TypeOK, TextsOnce, UNCHANGED <<sent, told>>, NEW c \in Sub, NEW w \in Worker,
           worker[w].batch = {}, inbox' = [inbox EXCEPT ![c] = {}],
           worker'[w].batch = inbox[c],
           \A v \in Worker : v # w => worker'[v].batch = worker[v].batch
    PROVE  TextsOnce'
<1>1. inbox'[c] = {} /\ \A d \in Sub : d # c => inbox'[d] = inbox[d]
  BY DEF TypeOK
<1>2. ASSUME NEW u \in Text PROVE TextInv(u)'
  <2>1. TextInv(u)
    BY DEF TextsOnce
  <2>2. CASE u \in inbox[c]
    <3>1. sent[u] = "queued" /\ Len(told[u]) = 0 /\ HeldOnce(u) /\ Uncarried(u)
      BY <2>1, <2>2 DEF TextInv, Unheld
    <3>2. Unheld(u)'
      BY <1>1, <2>2, <3>1 DEF HeldOnce, Unheld
    <3>3. CarriedOnce(u)'
      <4>1. \A v \in Worker : u \in worker'[v].batch <=> v = w
        BY <2>2, <3>1 DEF Uncarried
      <4> QED BY <4>1 DEF CarriedOnce
    <3> QED BY <3>1, <3>2, <3>3 DEF TextInv
  <2>3. CASE u \notin inbox[c]
    <3>1. \A d \in Sub : u \in inbox'[d] <=> u \in inbox[d]
      BY <1>1, <2>3
    <3>2. \A v \in Worker : u \in worker'[v].batch <=> u \in worker[v].batch
      BY <2>3
    <3> QED BY <2>1, <3>1, <3>2 DEF TextInv, Unheld, Uncarried, HeldOnce, CarriedOnce
  <2> QED BY <2>2, <2>3
<1> QED BY <1>2 DEF TextsOnce

(* A captured batch is told once, and carried no more. *)
LEMMA BatchTold ==
    ASSUME TypeOK, TextsOnce, UNCHANGED <<sent, inbox>>, NEW w \in Worker,
           NEW outcome \in Outcome, Settle(worker[w].batch, outcome),
           worker'[w].batch = {},
           \A v \in Worker : v # w => worker'[v].batch = worker[v].batch
    PROVE  TextsOnce'
<1>1. ASSUME NEW u \in Text PROVE TextInv(u)'
  <2>1. TextInv(u)
    BY DEF TextsOnce
  <2>2. Len(told'[u]) = IF u \in worker[w].batch THEN Len(told[u]) + 1 ELSE Len(told[u])
    BY SettleTells
  <2>3. CASE u \in worker[w].batch
    <3>1. sent[u] = "queued" /\ Len(told[u]) = 0 /\ Unheld(u) /\ CarriedOnce(u)
      BY <2>1, <2>3 DEF TextInv, Uncarried
    <3>2. Unheld(u)' /\ Uncarried(u)'
      BY <2>3, <3>1 DEF CarriedOnce, Unheld, Uncarried
    <3> QED BY <2>2, <2>3, <3>1, <3>2 DEF TextInv
  <2>4. CASE u \notin worker[w].batch
    <3>1. \A v \in Worker : u \in worker'[v].batch <=> u \in worker[v].batch
      BY <2>4
    <3> QED BY <2>1, <2>2, <2>4, <3>1 DEF TextInv, Unheld, Uncarried, HeldOnce, CarriedOnce
  <2> QED BY <2>3, <2>4
<1> QED BY <1>1 DEF TextsOnce

(* A caller's step accepts a text at most, into an inbox or as a prompt. *)
LEMMA CallerTexts ==
    ASSUME TypeOK, TextsOnce, Caller
    PROVE  TextsOnce'
<1>1. CASE UNCHANGED <<texts, worker>>
  BY <1>1, TextsStay DEF texts
<1>2. ASSUME NEW c \in Sub, NEW t \in Text, SteerLive(c, t) \/ SteerActive(c, t) PROVE TextsOnce'
  BY <1>2, EnqueuedOnce DEF SteerLive, SteerActive
<1>3. ASSUME NEW c \in Sub, NEW t \in Text, SteerIdle(c, t) PROVE TextsOnce'
  <2>1. sent[t] = "no" /\ sent'[t] = "prompt" /\ \A u \in Text : u # t => sent'[u] = sent[u]
    BY <1>3 DEF SteerIdle, TypeOK
  <2>2. UNCHANGED <<inbox, told, worker>>
    BY <1>3 DEF SteerIdle, threads
  <2> QED BY <2>1, <2>2, TextsStay
<1>4. CASE \E c \in Sub, t \in Text :
              SteerLive(c, t) \/ SteerActive(c, t) \/ SteerIdle(c, t)
  BY <1>2, <1>3, <1>4
<1> QED BY <1>1, <1>4 DEF Caller, Spawn, SpawnRejected, SteerRejected, WatchDone, Cancel,
             Shutdown, StopAll, threads, texts

(* A worker settles what it captured, and captures only with empty hands. *)
LEMMA WorkerTexts ==
    ASSUME TypeOK, CoreInv, DebtInv, TextsOnce, NEW w \in Worker, Work(w) \/ ReadMidTurn(w)
    PROVE  TextsOnce'
<1>c. PICK c : c = worker[w].sub
  OBVIOUS
<1> USE <1>c
<1>0. /\ worker[w] \in WorkerRow /\ WorkerDebt(w)
      /\ worker[w].at # "idle" => c \in Sub
  BY AtWork DEF TypeOK, DebtInv, AtInv
<1>1. ASSUME NEW row, WorkerBecomes(w, row)
      PROVE  worker'[w] = row /\ \A v \in Worker : v # w => worker'[v] = worker[v]
  BY <1>1 DEF WorkerBecomes, TypeOK
<1>2. ASSUME NEW at, WorkerGoes(w, at)
      PROVE  \A v \in Worker : worker'[v].batch = worker[v].batch
  <2>1. WorkerBecomes(w, [worker[w] EXCEPT !.at = at])
    BY <1>2 DEF WorkerGoes
  <2>2. [worker[w] EXCEPT !.at = at].batch = worker[w].batch
    BY <1>0 DEF WorkerRow
  <2>3. worker'[w] = [worker[w] EXCEPT !.at = at]
    BY <1>1, <2>1
  <2> QED BY <1>1, <2>1, <2>2, <2>3
<1>3. CASE TakeWork(w)
  <2>1. UNCHANGED texts
    BY <1>3 DEF TakeWork
  <2>2. CASE UNCHANGED worker
    BY <2>1, <2>2, TextsStay DEF texts
  <2>3. CASE ~UNCHANGED worker
    <3> DEFINE row == [worker[w] EXCEPT !.at = "loop", !.sub = Head(work).sub]
    <3>1. WorkerBecomes(w, row)
      BY <1>3, <2>3 DEF TakeWork
    <3>2. row.batch = worker[w].batch
      BY <1>0 DEF WorkerRow
    <3>3. worker'[w] = row
      BY <1>1, <3>1
    <3>4. \A v \in Worker : worker'[v].batch = worker[v].batch
      BY <1>1, <3>1, <3>2, <3>3
    <3> QED BY <2>1, <3>4, TextsStay DEF texts
  <2> QED BY <2>2, <2>3
<1>4. CASE BeginTurn(w) \/ TurnRaises(w) \/ WorkerFires(w)
  <2>1. UNCHANGED texts /\ \E at \in {"drop", "turn", "hook"} : WorkerGoes(w, at)
    BY <1>4 DEF BeginTurn, TurnRaises, WorkerFires
  <2>2. \A v \in Worker : worker'[v].batch = worker[v].batch
    BY <1>2, <2>1
  <2> QED BY <2>1, <2>2, TextsStay DEF texts
<1>5. CASE Land(w)
  <2> DEFINE row == [worker[w] EXCEPT !.at = "settle", !.batch = inbox[c],
                       !.more = (inbox[c] # {} /\ ~sub[c].cancelled),
                       !.outcome = IF sub[c].cancelled THEN "discarded" ELSE "read"]
  <2>1. /\ worker[w].at = "turn" /\ UNCHANGED <<sent, told>> /\ inbox' = [inbox EXCEPT ![c] = {}]
        /\ WorkerBecomes(w, row)
    BY <1>5 DEF Land
  <2>2. row.batch = inbox[c]
    BY <1>0 DEF WorkerRow
  <2>3. worker'[w] = row /\ \A v \in Worker : v # w => worker'[v] = worker[v]
    BY <1>1, <2>1
  <2> HIDE DEF row
  <2>4. worker[w].batch = {} /\ c \in Sub
    BY <1>0, <2>1 DEF WorkerDebt
  <2> QED BY <2>1, <2>2, <2>3, <2>4, InboxCaptured
<1>6. CASE SettleBatch(w)
  <2> DEFINE row == [worker[w] EXCEPT !.at = IF worker[w].more THEN "loop" ELSE "fire",
                       !.batch = {}, !.more = FALSE, !.outcome = "read"]
  <2>1. /\ UNCHANGED <<sent, inbox>> /\ Settle(worker[w].batch, worker[w].outcome)
        /\ WorkerBecomes(w, row)
    BY <1>6 DEF SettleBatch
  <2>2. row.batch = {} /\ worker[w].outcome \in Outcome
    BY <1>0 DEF WorkerRow
  <2>3. worker'[w] = row /\ \A v \in Worker : v # w => worker'[v] = worker[v]
    BY <1>1, <2>1
  <2> HIDE DEF row
  <2> QED BY <2>1, <2>2, <2>3, BatchTold
<1>7. CASE DropInbox(w)
  <2>1. /\ worker[w].at = "drop" /\ UNCHANGED sent /\ inbox' = [inbox EXCEPT ![c] = {}]
        /\ Settle(inbox[c], "discarded") /\ WorkerGoes(w, "fire")
    BY <1>7 DEF DropInbox, Discard
  <2>2. \A v \in Worker : worker'[v].batch = worker[v].batch
    BY <1>2, <2>1
  <2> QED BY <1>0, <2>1, <2>2, InboxTold DEF Outcome
<1>8. CASE WorkerReturns(w)
  <2>1. worker[w].at = "hook" /\ UNCHANGED texts /\ WorkerBecomes(w, Resting)
    BY <1>8 DEF WorkerReturns
  <2>2. worker[w].batch = {} /\ Resting.batch = {}
    BY <1>0, <2>1 DEF WorkerDebt, Resting
  <2>3. worker'[w] = Resting /\ \A v \in Worker : v # w => worker'[v] = worker[v]
    BY <1>1, <2>1
  <2>4. \A v \in Worker : worker'[v].batch = worker[v].batch
    BY <2>2, <2>3
  <2> QED BY <2>1, <2>4, TextsStay DEF texts
<1>9. CASE ReadMidTurn(w)
  <2>1. /\ worker[w].at = "turn" /\ UNCHANGED <<sent, worker>>
        /\ inbox' = [inbox EXCEPT ![c] = {}] /\ Settle(inbox[c], "read")
    BY <1>9 DEF ReadMidTurn, threads
  <2> QED BY <1>0, <2>1, InboxTold DEF Outcome
<1> QED BY <1>3, <1>4, <1>5, <1>6, <1>7, <1>8, <1>9 DEF Work

(* cancel and shutdown settle what they detach. *)
LEMMA ClosingTexts ==
    ASSUME TypeOK, CoreInv, TextsOnce, (\E k \in Canceller : Cancelling(k)) \/ Exiting
    PROVE  TextsOnce'
<1>1. CASE UNCHANGED <<texts, worker>>
  BY <1>1, TextsStay DEF texts
<1>2. ASSUME NEW c \in Sub, Discard(c), UNCHANGED <<sent, worker>> PROVE TextsOnce'
  BY <1>2, InboxTold DEF Discard, Outcome
<1>3. ASSUME NEW k \in Canceller, CancelDiscards(k) PROVE TextsOnce'
  <2>1. closer[k].sub \in Sub
    BY <1>3, AtCancel DEF CancelDiscards
  <2> QED BY <1>2, <1>3, <2>1 DEF CancelDiscards
<1>4. CASE StopOne
  <2>1. PICK c \in exit.todo : Discard(c)
    BY <1>4 DEF StopOne
  <2>2. c \in Sub
    BY DEF TypeOK
  <2> QED BY <1>2, <1>4, <2>1, <2>2 DEF StopOne
<1> QED BY <1>1, <1>3, <1>4 DEF Cancelling, CancelFuture, CancelSettles, CancelFires, Exiting,
             ClosePool, SweepAgain, StopAll, StartSettling, SettleOne, FireOne, ShutdownReturns

(* At first nothing was spawned, so nothing is owed. *)
LEMMA InitDebts == Init => DebtInv /\ TextsOnce
<1> SUFFICES ASSUME Init PROVE DebtInv /\ TextsOnce
  OBVIOUS
<1>1. DebtInv
  BY DEF Init, DebtInv, SubDebt, WorkerDebt, CloserDebt, Unspawned, Resting, AtRest, Known, Done
<1>2. \A t \in Text : sent[t] = "no" /\ told[t] = <<>> /\ Unheld(t) /\ Uncarried(t)
  BY DEF Init, Unheld, Uncarried, Resting
<1>3. Len(<<>>) = 0
  OBVIOUS
<1> QED BY <1>1, <1>2, <1>3 DEF TextsOnce, TextInv

(* Every step keeps the debts named, and each text in one place. *)
LEMMA DebtStep == TypeOK /\ CoreInv /\ DebtInv /\ TextsOnce /\ [Next]_vars => DebtInv' /\ TextsOnce'
<1> SUFFICES ASSUME TypeOK, CoreInv, DebtInv, TextsOnce, [Next]_vars PROVE DebtInv' /\ TextsOnce'
  OBVIOUS
<1>1. CASE UNCHANGED vars
  BY <1>1 DEF vars, DebtInv, SubDebt, WorkerDebt, CloserDebt, Cancelled, Swept, Known, Done,
              TextsOnce, TextInv, Unheld, Uncarried, HeldOnce, CarriedOnce
<1>2. CASE Caller
  BY <1>2, CallerDebt, CallerTexts
<1>3. CASE Exiting
  BY <1>3, ExitingDebt, ClosingTexts
<1>4. ASSUME NEW w \in Worker, Work(w) \/ ReadMidTurn(w) PROVE DebtInv' /\ TextsOnce'
  BY <1>4, WorkDebt, WorkerTexts
<1>5. ASSUME NEW k \in Canceller, Cancelling(k) PROVE DebtInv' /\ TextsOnce'
  BY <1>5, CancellingDebt, ClosingTexts
<1> QED BY <1>1, <1>2, <1>3, <1>4, <1>5 DEF Next

(* A debt somebody will pay is none of a sub-session nobody works on. *)
LEMMA NoDebtLeft == TypeOK /\ CoreInv /\ DebtInv /\ TextsOnce => SettledOwesNothing
<1> SUFFICES ASSUME TypeOK, CoreInv, DebtInv, TextsOnce PROVE SettledOwesNothing
  OBVIOUS
<1>1. ASSUME NEW c \in Sub, sub[c].future # "none"
      PROVE  /\ Done(c) /\ ~BeingDropped(c) =>
                  /\ sub[c].status \in Terminal
                  /\ ~sub[c].accepting /\ ~sub[c].hook /\ inbox[c] = {}
             /\ ~Known(c) => Done(c) /\ sub[c].status \in Terminal /\ inbox[c] = {}
  <2>1. sub[c] \in SubRow /\ RowInv(sub[c], PoolOpen) /\ SubDebt(c)
    BY DEF TypeOK, CoreInv, DebtInv
  <2>2. CASE sub[c].future = "done"
    BY <1>1, <2>1, <2>2 DEF SubDebt, RowInv, Done, Known, Terminal, Over
  <2>3. CASE sub[c].future = "dropped"
    <3>1. Cancelled(c) \/ Swept(c) => BeingDropped(c)
      BY DEF Cancelled, Swept, BeingDropped
    <3> QED BY <1>1, <2>1, <2>3, <3>1 DEF SubDebt, Done, Known
  <2>4. CASE sub[c].future \in {"queued", "running"}
    BY <1>1, <2>1, <2>4 DEF SubDebt, Done, Known
  <2> QED BY <1>1, <2>1, <2>2, <2>3, <2>4 DEF SubRow
<1>2. ASSUME NEW t \in Text
      PROVE  Len(told[t]) + Cardinality({c \in Sub : t \in inbox[c]})
                          + Cardinality({w \in Worker : t \in worker[w].batch})
               = (IF sent[t] = "queued" THEN 1 ELSE 0)
  <2> DEFINE B == {c \in Sub : t \in inbox[c]}
             W == {w \in Worker : t \in worker[w].batch}
  <2>1. TextInv(t)
    BY DEF TextsOnce
  <2>2. Unheld(t) => B = {}
    BY DEF Unheld
  <2>3. Uncarried(t) => W = {}
    BY DEF Uncarried
  <2>4. HeldOnce(t) => \E c \in Sub : B = {c}
    BY DEF HeldOnce
  <2>5. CarriedOnce(t) => \E w \in Worker : W = {w}
    BY DEF CarriedOnce
  <2>6. Cardinality({}) = 0 /\ \A x : Cardinality({x}) = 1
    BY FS_EmptySet, FS_Singleton
  <2> HIDE DEF B, W
  <2>7. /\ Unheld(t) => Cardinality(B) = 0
        /\ Uncarried(t) => Cardinality(W) = 0
        /\ HeldOnce(t) => Cardinality(B) = 1
        /\ CarriedOnce(t) => Cardinality(W) = 1
    BY <2>2, <2>3, <2>4, <2>5, <2>6
  <2>8. Len(told[t]) + Cardinality(B) + Cardinality(W) = (IF sent[t] = "queued" THEN 1 ELSE 0)
    <3>1. Len(told[t]) \in Nat
      BY DEF TypeOK
    <3>2. \/ /\ sent[t] # "queued" /\ Len(told[t]) = 0 /\ Cardinality(B) = 0 /\ Cardinality(W) = 0
          \/ /\ sent[t] = "queued"
             /\ \/ Len(told[t]) = 1 /\ Cardinality(B) = 0 /\ Cardinality(W) = 0
                \/ Len(told[t]) = 0 /\ Cardinality(B) = 1 /\ Cardinality(W) = 0
                \/ Len(told[t]) = 0 /\ Cardinality(B) = 0 /\ Cardinality(W) = 1
      BY <2>1, <2>7 DEF TextInv
    <3>3. CASE sent[t] # "queued"
      BY <3>2, <3>3
    <3>4. CASE sent[t] = "queued" /\ Len(told[t]) = 1
      BY <3>2, <3>4
    <3>5. CASE sent[t] = "queued" /\ Len(told[t]) = 0
      BY <3>2, <3>5
    <3> QED BY <3>2, <3>3, <3>4, <3>5
  <2> QED BY <2>8 DEF B, W
<1> QED BY <1>1, <1>2 DEF SettledOwesNothing

(* What no thread works on any more owes nothing: its status is terminal, its  *)
(* hook was called, its inbox is empty; and an accepted steer is held in one   *)
(* place or was settled once, never both.                                      *)
THEOREM NothingIsOwed == Spec => []SettledOwesNothing
<1>1. Init => DebtInv /\ TextsOnce
  BY InitDebts
<1>2. TypeOK /\ CoreInv /\ DebtInv /\ TextsOnce /\ [Next]_vars => DebtInv' /\ TextsOnce'
  BY DebtStep
<1>3. TypeOK /\ CoreInv /\ DebtInv /\ TextsOnce => SettledOwesNothing
  BY NoDebtLeft
<1>4. Spec => [](TypeOK /\ CoreInv)
  BY CoreSafe
<1> QED BY <1>1, <1>2, <1>3, <1>4, PTL DEF Spec
===============================================================================
