------------------------------ MODULE RunLedger ------------------------------
(***************************************************************************)
(* What one durable run has spent: the tables of state/db.py that keep it  *)
(* (a row for the run, a priced row for each cached cell), and the memory  *)
(* of every acquisition of the run that charges it (workflow/spend.py,     *)
(* usage_ledger.py, financial_settlement.py and their callers in           *)
(* service.py and engine.py).                                              *)
(*                                                                         *)
(* A stretch is named by its fence.  The meters are one number.  A leaf is *)
(* named by the cell it works for; its usage adds up over its turns, and   *)
(* reaches the books twice: the core reports it when a turn ends, and the  *)
(* engine accounts it when it collects the leaf.                           *)
(***************************************************************************)
EXTENDS Integers, FiniteSets, Functions

CONSTANTS Cell,
          Ceiling,     \* the token budget of every launch, or NoCeiling
          NoCeiling,
          MaxStretch,  \* bound: acquisitions of the run
          MaxTurns,    \* bound: turns of a leaf (1 + corrections)
          MaxFaults    \* bound: crashes and raising calls

LedgerAssumption ==
    /\ IsFiniteSet(Cell) /\ {MaxStretch, MaxTurns, MaxFaults} \subseteq Nat
    /\ NoCeiling \notin Nat /\ Ceiling \in Nat \cup {NoCeiling}

VARIABLES
    store,    \* SQLite: [fence, leased, row, price]
    stretch,  \* [fence -> the memory of that acquisition]
    leaf,     \* [fence -> [cell -> its leaf]]
    faults

vars == <<store, stretch, leaf, faults>>

Fence == 1..MaxStretch
None == -1
Nothing == [c \in Cell |-> 0]

PC == {"free", "seed", "line", "running", "drain", "finalize", "write", "release", "over", "dead"}

TypeOK ==
    /\ store.fence \in 0..MaxStretch /\ store.leased \in BOOLEAN
    /\ store.row \in Nat \cup {None} /\ store.price \in [Cell -> Nat \cup {None}]
    /\ \A f \in Fence :
         /\ stretch[f].pc \in PC /\ {stretch[f].seed, stretch[f].tokens} \subseteq Nat
         /\ {stretch[f].applied, stretch[f].received} \subseteq [Cell -> 0..MaxTurns]
         /\ stretch[f].final \in Nat \cup {None} /\ stretch[f].tries \in 0..2
         /\ stretch[f].blind \in BOOLEAN /\ stretch[f].accounted \subseteq Cell
         /\ stretch[f].settled \in {"no", "committed", "refused", "unconfirmed"}
    /\ leaf \in [Fence -> [Cell -> [pc : {"none", "running", "ended", "told"},
                                    used : 0..MaxTurns, turns : 0..MaxTurns]]]
    /\ faults \in 0..MaxFaults

Init ==
    /\ store = [fence |-> 0, leased |-> FALSE, row |-> None, price |-> [c \in Cell |-> None]]
    /\ stretch = [f \in Fence |->
          [pc |-> "free", seed |-> 0, tokens |-> 0, applied |-> Nothing, received |-> Nothing,
           accounted |-> {}, final |-> None, tries |-> 0, blind |-> FALSE, settled |-> "no"]]
    /\ leaf = [f \in Fence |-> [c \in Cell |-> [pc |-> "none", used |-> 0, turns |-> 0]]]
    /\ faults = 0

At(f, pc) == stretch[f].pc = pc
Goto(f, pc) == stretch' = [stretch EXCEPT ![f].pc = pc]
Bigger(a, b) == IF a < b THEN b ELSE a
Fault == faults < MaxFaults /\ faults' = faults + 1

(* _fenced_write, cache_put_with_cost: the guard is part of the statement. *)
Owns(f) == store.fence = f

RowWritten(f, total) == IF Owns(f) THEN [store EXCEPT !.row = total] ELSE store
-----------------------------------------------------------------------------
(* Launch *)

Acquire ==
    LET f == store.fence + 1 IN
    /\ ~store.leased /\ f \in Fence
    /\ store' = [store EXCEPT !.fence = f, !.leased = TRUE]
    /\ Goto(f, "seed")
    /\ UNCHANGED <<leaf, faults>>

LeaseLapses ==
    /\ store.leased
    /\ store' = [store EXCEPT !.leased = FALSE]
    /\ UNCHANGED <<stretch, leaf, faults>>

CellTotal == SumFunction([c \in Cell |-> Bigger(0, store.price[c])])

(* seed_spend: each ledger undercounts in its own way, the larger is meant. *)
Floor == Bigger(Bigger(0, store.row), CellTotal)

Spent(seed) == Ceiling \in Nat /\ seed >= Ceiling

(* A launch reads what was spent under its ownership, and is refused when  *)
(* its ceiling is spent already (refuse_spent_budget).                     *)
Seed(f) ==
    /\ At(f, "seed")
    /\ stretch' = [stretch EXCEPT ![f].seed = Floor, ![f].tokens = Floor,
                                  ![f].pc = IF Spent(Floor) THEN "release" ELSE "line"]
    /\ UNCHANGED <<store, leaf, faults>>

(* The row a resume would seed from is written before anything runs; a     *)
(* launch fenced out here gives up.                                        *)
OpenLedger(f) ==
    /\ At(f, "line")
    /\ store' = RowWritten(f, stretch[f].tokens)
    /\ Goto(f, IF Owns(f) THEN "running" ELSE "release")
    /\ UNCHANGED <<leaf, faults>>
-----------------------------------------------------------------------------
(* Leaves, on the core's threads *)

(* A cell is replayed from the cache, unless its artifact has changed; a   *)
(* replay costs nothing.                                                   *)
Spawn(f, c) ==
    /\ At(f, "running") /\ leaf[f][c].pc = "none"
    /\ leaf' = [leaf EXCEPT ![f][c].pc = "running"]
    /\ UNCHANGED <<store, stretch, faults>>

(* A turn ends; what it cost is on the record of the sub-session. *)
TurnEnds(f, c) ==
    /\ leaf[f][c].pc = "running" /\ ~At(f, "dead")
    /\ \E n \in {0, 1} :
         leaf' = [leaf EXCEPT ![f][c] = [pc |-> "ended", used |-> @.used + n, turns |-> @.turns + 1]]
    /\ UNCHANGED <<store, stretch, faults>>

Frozen(f) == stretch[f].final # None

(* The terminal observer: receive, or a failure to, which is remembered. *)
Observe(f, c) ==
    LET used == leaf[f][c].used IN
    /\ leaf[f][c].pc = "ended" /\ ~At(f, "dead")
    /\ leaf' = [leaf EXCEPT ![f][c].pc = "told"]
    /\ \/ /\ stretch' = IF Frozen(f)
                        THEN [stretch EXCEPT ![f].blind = @ \/ (used > stretch[f].applied[c])]
                        ELSE [stretch EXCEPT ![f].received[c] = Bigger(@, used)]
          /\ UNCHANGED faults
       \/ Fault /\ stretch' = [stretch EXCEPT ![f].blind = TRUE]
    /\ UNCHANGED store

Marked(s, cells, meter) == [c \in Cell |-> IF c \in cells THEN Bigger(s.applied[c], meter[c])
                                           ELSE s.applied[c]]

\* Mutant: a receipt is charged whole, whatever was charged before.
Charged_Whole(s, cells, meter) ==
    [s EXCEPT !.applied = Marked(s, cells, meter),
              !.tokens = s.tokens + SumFunction([c \in cells |-> meter[c]])]

(* TokenState.apply: the debit and its marker are one swap, of the part    *)
(* that is new.                                                            *)
Charged(s, cells, meter) ==
    [s EXCEPT !.applied = Marked(s, cells, meter),
              !.tokens = s.tokens
                         + SumFunction([c \in cells |-> Bigger(0, meter[c] - s.applied[c])])]

Used(f) == [c \in Cell |-> leaf[f][c].used]

(* account_leaf: once per leaf, of a leaf that has settled, before the     *)
(* functional seal.                                                        *)
Account(f, c) ==
    /\ At(f, "running") /\ leaf[f][c].pc \in {"ended", "told"} /\ c \notin stretch[f].accounted
    /\ LET s == Charged(stretch[f], {c}, Used(f)) IN
         stretch' = [stretch EXCEPT ![f] = [s EXCEPT !.accounted = s.accounted \cup {c}]]
    /\ UNCHANGED <<store, leaf, faults>>

(* A correction is steered into the leaf before it is accounted. *)
Correct(f, c) ==
    /\ At(f, "running") /\ leaf[f][c].pc = "told" /\ c \notin stretch[f].accounted
    /\ leaf[f][c].turns < MaxTurns
    /\ leaf' = [leaf EXCEPT ![f][c].pc = "running"]
    /\ UNCHANGED <<store, stretch, faults>>

(* cache_put_with_cost: the cell and its price in one guarded transaction; *)
(* an error rolls both back.  A free cell has no price row.                *)
StoreCell(f, c) ==
    /\ At(f, "running") /\ c \in stretch[f].accounted
    /\ store' = IF Owns(f) /\ leaf[f][c].used > 0
                THEN [store EXCEPT !.price[c] = leaf[f][c].used] ELSE store
    /\ UNCHANGED <<stretch, leaf, faults>>
-----------------------------------------------------------------------------
(* The end of a stretch (the finally of _run) *)

(* The functional tally, whose failure must not stop what follows. *)
Close(f) ==
    /\ At(f, "running")
    /\ \/ store' = RowWritten(f, stretch[f].tokens) /\ UNCHANGED faults
       \/ Fault /\ UNCHANGED store
    /\ Goto(f, "drain")
    /\ UNCHANGED leaf

Drained(f) == \A c \in Cell : leaf[f][c].pc \in {"none", "told"}

Drain(f) ==
    /\ At(f, "drain") /\ Drained(f)
    /\ Goto(f, "finalize")
    /\ UNCHANGED <<store, leaf, faults>>

(* finalize: every receipt is applied again; a failure half-way keeps what *)
(* it charged, and the second try goes through all of them once more.      *)
LastTry(f) == stretch[f].tries = 1
Receipts(f) == {c \in Cell : stretch[f].received[c] > 0}

Finalize(f) ==
    /\ At(f, "finalize")
    /\ LET s == Charged(stretch[f], Receipts(f), stretch[f].received) IN
         stretch' = [stretch EXCEPT ![f] = [s EXCEPT !.final = s.tokens,
                                                     !.pc = "write", !.tries = 0]]
    /\ UNCHANGED <<store, leaf, faults>>

FinalizeRaises(f) ==
    /\ At(f, "finalize") /\ Fault
    /\ \E part \in SUBSET Receipts(f) :
         LET s == Charged(stretch[f], part, stretch[f].received) IN
         stretch' = [stretch EXCEPT ![f] =
                       [s EXCEPT
                            !.tries = s.tries + 1,
                            !.settled = IF LastTry(f) THEN "unconfirmed" ELSE "no",
                            !.pc = IF LastTry(f) THEN "release" ELSE "finalize"]]
    /\ UNCHANGED <<store, leaf>>

(* The same complete row is written again when the first write raised,     *)
(* whether or not it had landed.                                           *)
WriteFinal(f) ==
    /\ At(f, "write")
    /\ store' = RowWritten(f, stretch[f].final)
    /\ stretch' = [stretch EXCEPT ![f].settled = IF Owns(f) THEN "committed" ELSE "refused",
                                  ![f].pc = "release"]
    /\ UNCHANGED <<leaf, faults>>

WriteRaises(f) ==
    /\ At(f, "write") /\ Fault
    /\ store' \in {store, RowWritten(f, stretch[f].final)}
    /\ stretch' = [stretch EXCEPT ![f].tries = @ + 1,
                                  ![f].settled = IF LastTry(f) THEN "unconfirmed" ELSE "no",
                                  ![f].pc = IF LastTry(f) THEN "release" ELSE "write"]
    /\ UNCHANGED leaf

Release(f) ==
    /\ At(f, "release")
    /\ store' = [store EXCEPT !.leased = store.leased /\ ~Owns(f)]
    /\ Goto(f, "over")
    /\ UNCHANGED <<leaf, faults>>

Crash(f) ==
    /\ stretch[f].pc \notin {"free", "over", "dead"} /\ Fault
    /\ Goto(f, "dead")
    /\ UNCHANGED <<store, leaf>>

LedgerNext ==
    \/ Acquire \/ LeaseLapses
    \/ \E f \in Fence :
         \/ Seed(f) \/ OpenLedger(f) \/ Close(f) \/ Drain(f)
         \/ Finalize(f) \/ FinalizeRaises(f) \/ WriteFinal(f) \/ WriteRaises(f)
         \/ Release(f) \/ Crash(f)
         \/ \E c \in Cell :
              \/ Spawn(f, c) \/ TurnEnds(f, c) \/ Observe(f, c)
              \/ Account(f, c) \/ Correct(f, c) \/ StoreCell(f, c)

Spec == Init /\ [][LedgerNext]_vars
-----------------------------------------------------------------------------
Usage(f) == SumFunction([c \in Cell |-> leaf[f][c].used])
Total == SumFunction([f \in Fence |-> Usage(f)])
Committed(f) == stretch[f].settled = "committed" /\ ~stretch[f].blind

(* A stretch that settled without an error counted each of its leaves once *)
(* and whole: collected or not, corrected or not, through every retry      *)
(* (usage_ledger.py finalize, financial_settlement.py settle_finances).    *)
(* What is durable never says more than was spent, a stretch starts from   *)
(* no less than any earlier one committed, and a settled run says no less  *)
(* than its cells cost: a stale owner or a crash can lose its own tally,   *)
(* never another's (spend.py seed_spend, db.py _fenced_write).             *)
SpendIsNeverForgotten ==
    /\ \A f \in Fence : Committed(f) => stretch[f].final = stretch[f].seed + Usage(f)
    /\ Bigger(store.row, CellTotal) <= Total
    /\ \A f, g \in Fence :
         f < g /\ Committed(f) /\ stretch[g].pc \notin {"free", "seed", "dead"}
         => stretch[g].seed >= stretch[f].final
    /\ \A f \in Fence :
         Owns(f) /\ Committed(f) => store.row = stretch[f].final /\ store.row >= CellTotal
=============================================================================
