------------------------------ MODULE AuditReader ------------------------------
(***************************************************************************)
(* Reading the audit ledger page by page (state/audit_query.py) while it is *)
(* appended to and pruned: each page is one transaction, the first fixes    *)
(* the snapshot, the next ones ask for what follows the last event seen.    *)
(***************************************************************************)
EXTENDS AuditLedger

CONSTANT PageSize       \* limit, at most MAX_QUERY_EVENTS

ReaderAssumption == PageSize \in Nat \ {0}

VARIABLE reader

readerVars == <<ledgerVars, reader>>

Subject == 1            \* the run that is read

ReaderInit ==
    /\ LedgerInit
    /\ reader = [at |-> "idle", after |-> 0, snapshot |-> 0, seen |-> <<>>, before |-> 0,
                 unavailable |-> FALSE, restarted |-> FALSE]

Seqs(rows) == {rows[k].seq : k \in 1..Len(rows)}

\* The highest event retained, or the snapshot asked for if that is lower.
HighWater(rows) ==
    LET current == Max({0} \cup Seqs(rows))
    IN  IF reader.at = "idle" THEN current ELSE Min({current, reader.snapshot})

\* What the integrity notices of a page say of the run as a whole.
Notices(r) ==
    IF ledger.state[r] = Unknown THEN [unavailable |-> TRUE, before |-> 0]
    ELSE [unavailable |-> FALSE,
          before |-> IF ledger.state[r].dropped > 0 THEN ledger.state[r].before ELSE 0]

Eligible(rows) == SelectSeq(rows, LAMBDA e : reader.after < e.seq /\ e.seq <= HighWater(rows))

\* query(): one page.
ReadPage ==
    /\ reader.at # "done" /\ wrote[Subject] > 0
    /\ LET rows == Read(Subject).rows
           eligible == Eligible(rows)
           page == SubSeq(eligible, 1, Min({PageSize, Len(eligible)}))
           notices == Notices(Subject)
       IN  reader' = [reader EXCEPT
               !.at = IF Len(eligible) > PageSize THEN "reading" ELSE "done",
               !.after = IF page = <<>> THEN @ ELSE page[Len(page)].seq,
               !.snapshot = IF reader.at = "idle" THEN HighWater(rows) ELSE @,
               !.seen = @ \o [k \in 1..Len(page) |-> page[k].seq],
               !.before = notices.before, !.unavailable = notices.unavailable]
    /\ UNCHANGED ledgerVars

\* Has the ledger forgotten the run, numbers and all?
Forgets == wrote[Subject] > 0 /\ wrote'[Subject] = 0

ReaderNext ==
    \/ ReadPage
    \/ /\ LedgerNext
       /\ reader' = [reader EXCEPT !.restarted = @ \/ (reader.at = "reading" /\ Forgets)]

ReaderSpec == ReaderInit /\ [][ReaderNext]_readerVars
-----------------------------------------------------------------------------
(* A walk through the pages shows every event up to its snapshot, in order  *)
(* and once, except a prefix that its last page declares as a gap, or all   *)
(* that is left when its last page says the trail is not available; whoever *)
(* appended, pruned or evicted in between.                                  *)
PagesAddUp ==
    /\ ToSet(reader.seen) \subseteq 1..reader.snapshot
    /\ \A i, j \in 1..Len(reader.seen) : i < j => reader.seen[i] < reader.seen[j]
    /\ reader.at = "done" /\ ~reader.restarted /\ ~reader.unavailable =>
           \A seq \in 1..reader.snapshot :
               seq \in ToSet(reader.seen) \/ seq < reader.before
=============================================================================
