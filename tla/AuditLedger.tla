------------------------------ MODULE AuditLedger ------------------------------
(***************************************************************************)
(* The durable audit ledger (state/audit.py): numbered events per run,      *)
(* pruned by age, by a limit per run and by a limit on runs, with           *)
(* tombstones for what was pruned whole.  append() is one transaction, here *)
(* a chain of operators on the ledger, one per group of its statements.     *)
(* Appenders are the audit threads of any process: they present the fence   *)
(* of a stretch, current or not.                                                             *)
(***************************************************************************)
EXTENDS Integers, Sequences, FiniteSets, SequencesExt, FiniteSetsExt

CONSTANTS
    Runs,           \* the runs are 1..Runs (ids are ordered, and so are these)
    MaxEvents,      \* max_events: kept per run
    Limits,         \* the values max_runs may have
    Retention,      \* retention_seconds
    MaxTime, MaxTaken, MaxAppends       \* bounds: the clock, runs taken over, appends

LedgerAssumption ==
    /\ Runs \in Nat \ {0} /\ MaxEvents \in Nat \ {0} /\ Limits \subseteq Nat \ {0}
    /\ Retention \in Nat \ {0} /\ MaxTime \in Nat /\ MaxTaken \in Nat /\ MaxAppends \in Nat

VARIABLES
    ledger,     \* the audit tables
    limit,      \* max_runs
    clock,      \* the wall clock, which may be set back
    owner,      \* per run: its fence, whether it runs or is paused, its open segment
    wrote       \* per run: appends since the ledger last forgot the run

ledgerVars == <<ledger, limit, clock, owner, wrote>>

Run == 1..Runs
NoSegment == 0

Unknown == [next |-> 0, kept |-> <<>>, dropped |-> 0, before |-> 0, touch |-> 0, updated |-> 0]
NoTomb == [next |-> 0, at |-> 0]

LedgerInit ==
    /\ ledger = [state |-> [r \in Run |-> Unknown], tomb |-> [r \in Run |-> NoTomb],
                 touches |-> 1, compacted |-> FALSE]
    /\ limit \in Limits /\ clock = 0
    /\ \E waiting \in 0..Runs :
          owner = [r \in Run |-> [fence |-> 1, active |-> r = waiting, segment |-> 1]]
    /\ wrote = [r \in Run |-> 0]

Known(l) == {r \in Run : l.state[r] # Unknown}
Buried(l) == {r \in Run : l.tomb[r] # NoTomb}
Cutoff == clock - Retention
-----------------------------------------------------------------------------
(* The statements of append(). *)

\* Has a newer owner taken the run?
FencedOut(r, fence) == owner[r].fence > fence

\* The tombstone goes, and a run without a row gets one that goes on from it.
Opened_Afresh(l, r) ==
    [l EXCEPT !.tomb[r] = NoTomb, !.touches = @ + 1,
              !.state[r] = IF @ # Unknown THEN @ ELSE [Unknown EXCEPT !.next = 1]]

Opened(l, r) ==
    LET next == IF l.tomb[r] = NoTomb THEN 1 ELSE l.tomb[r].next
        row == [next |-> next, kept |-> <<>>, dropped |-> next - 1,
                before |-> IF next > 1 THEN next ELSE 0, touch |-> l.touches, updated |-> clock]
    IN  [l EXCEPT !.tomb[r] = NoTomb, !.touches = @ + 1,
                  !.state[r] = IF @ = Unknown THEN row ELSE @]

\* The first n kept events of a row go.
Shed(row, n) ==
    IF n = 0 THEN row
    ELSE [row EXCEPT !.kept = SubSeq(@, n + 1, Len(@)), !.dropped = @ + n,
                     !.before = Max({@, row.kept[n].seq + 1})]

\* An event past its retention takes everything before it along.
Outdated(row) == Max({0} \cup {k \in 1..Len(row.kept) : row.kept[k].at < Cutoff})

Numbered(row, fence, touch) ==
    [row EXCEPT !.kept = Append(@, [seq |-> row.next, at |-> clock, fence |-> fence]),
                !.next = @ + 1, !.touch = touch, !.updated = clock]

Excess(row) == IF Len(row.kept) > MaxEvents THEN Len(row.kept) - MaxEvents ELSE 0

Rewritten(row, fence, touch) ==
    LET fresh == Numbered(Shed(row, Outdated(row)), fence, touch)
    IN  Shed(fresh, Excess(fresh))

\* Whole runs go, each leaving a tombstone.
Evict(l, gone) ==
    [l EXCEPT !.state = [r \in Run |-> IF r \in gone THEN Unknown ELSE @[r]],
              !.tomb = [r \in Run |-> IF r \in gone THEN [next |-> l.state[r].next, at |-> clock]
                                      ELSE @[r]]]

Stale(l) == {r \in Known(l) : l.state[r].updated < Cutoff}

\* Who stays longest: the run appending now, then the active ones, then the latest.
Outlives(l, me, a, b) ==
    \/ a = me
    \/ /\ b # me
       /\ \/ owner[a].active /\ ~owner[b].active
          \/ owner[a].active = owner[b].active /\ l.state[a].touch > l.state[b].touch

Surplus(l, me) ==
    {r \in Known(l) : Cardinality({s \in Known(l) \ {r} : Outlives(l, me, s, r)}) >= limit}

\* Tombstones over the limit go, the oldest first; one row says that some did.
Newer(l, a, b) == \/ l.tomb[a].at > l.tomb[b].at
                  \/ l.tomb[a].at = l.tomb[b].at /\ a > b
Overgrown(l) ==
    {r \in Buried(l) : Cardinality({s \in Buried(l) \ {r} : Newer(l, s, r)}) >= limit}
Compact(l) ==
    [l EXCEPT !.tomb = [r \in Run |-> IF r \in Overgrown(l) THEN NoTomb ELSE @[r]],
              !.compacted = @ \/ Overgrown(l) # {}]

Appended(l, r, fence) ==
    LET opened == Opened(l, r)
        written == [opened EXCEPT !.state[r] = Rewritten(@, fence, l.touches)]
        fresh == Evict(written, Stale(written))
    IN  Compact(Evict(fresh, Surplus(fresh, r)))
-----------------------------------------------------------------------------
(* append() by an audit thread of the stretch with this fence.              *)
(* The completion of a segment clears the mark of that segment on the line. *)
AppendEvent(r, fence, completes) ==
    /\ ledger.touches <= MaxAppends /\ ~FencedOut(r, fence)
    /\ ledger' = Appended(ledger, r, fence)
    /\ owner' = IF completes /\ owner[r].segment = fence
                THEN [owner EXCEPT ![r].segment = NoSegment] ELSE owner
    /\ wrote' = [s \in Run |-> IF /\ ledger'.state[s] = Unknown
                                  /\ ledger'.tomb[s] = NoTomb THEN 0
                               ELSE IF s = r THEN wrote[s] + 1 ELSE wrote[s]]
    /\ UNCHANGED <<limit, clock>>

\* A stretch takes the run, and its launch marks its segment.
Acquire(r) ==
    /\ FoldFunction(+, 0, [s \in Run |-> owner[s].fence]) < Runs + MaxTaken
    /\ owner' = [owner EXCEPT ![r] = [fence |-> @.fence + 1, active |-> TRUE, segment |-> @.fence + 1]]
    /\ UNCHANGED <<ledger, limit, clock, wrote>>

ClockMoves(now) ==
    /\ now # clock /\ clock' = now /\ UNCHANGED <<ledger, limit, owner, wrote>>

LedgerNext ==
    \/ \E r \in Run :
          \/ \E fence \in 1..owner[r].fence, completes \in BOOLEAN : AppendEvent(r, fence, completes)
          \/ Acquire(r)
    \/ \E now \in 0..MaxTime : ClockMoves(now)

LedgerSpec == LedgerInit /\ [][LedgerNext]_ledgerVars
-----------------------------------------------------------------------------
(* Types. *)
LedgerTypeOK ==
    /\ limit \in Limits /\ clock \in 0..MaxTime
    /\ \A r \in Run :
          /\ ledger.state[r].next \in Nat /\ ledger.tomb[r].next \in Nat
          /\ owner[r].fence \in 1..(1 + MaxTaken)
          /\ owner[r].segment \in {NoSegment, owner[r].fence}

\* What events() shows of a run.
Read(r) ==
    IF ledger.state[r] = Unknown
    THEN [unavailable |-> ledger.tomb[r] # NoTomb, gap |-> 0, before |-> 0, rows |-> <<>>]
    ELSE [unavailable |-> FALSE, gap |-> ledger.state[r].dropped,
          before |-> ledger.state[r].before, rows |-> ledger.state[r].kept]

(* What a reader is shown is all there ever was: one prefix gap with its    *)
(* count and then every later event in order, or that the trail is gone,    *)
(* since the ledger last compacted the run away.  No two rows of a run are  *)
(* of stretches in the wrong order, and neither runs nor tombstones exceed  *)
(* their limit.                                                             *)
ReadersSeeTheGaps ==
    /\ Cardinality(Known(ledger)) <= limit /\ Cardinality(Buried(ledger)) <= limit
    /\ Known(ledger) \cap Buried(ledger) = {}
    /\ \A r \in Run :
          LET shown == Read(r)
              rows == shown.rows
          IN  /\ shown.unavailable => ledger.tomb[r].next - 1 = wrote[r]
              /\ ~shown.unavailable => shown.gap + Len(rows) = wrote[r]
              /\ \A k \in 1..Len(rows) : rows[k].seq = shown.gap + k
              /\ rows # <<>> /\ shown.gap > 0 => shown.before = rows[1].seq
              /\ \A i, j \in 1..Len(rows) :
                    i < j => rows[i].fence <= rows[j].fence

(* The appending run is never evicted, nor an active one before one at rest *)
(* that is not yet too old.                                                 *)
KeepsTheActive ==
    \A r, s \in Known(ledger) :
        (/\ r \notin Known(ledger') /\ ledger.state[r].updated >= Cutoff
         /\ owner[r].active /\ ~owner[s].active)
        => \/ s \notin Known(ledger')
           \/ ledger'.state[s] # ledger.state[s]
ActiveRunsLast == [][KeepsTheActive]_ledgerVars
=============================================================================
