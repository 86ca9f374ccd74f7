------------------------------ MODULE LeafBudget ------------------------------
(***************************************************************************)
(* The budget of one workflow run (workflow/budget.py): lifetime slots,    *)
(* claimed and given back under one lock, and tokens, charged when a leaf  *)
(* is collected and asked for before the next one is spawned.              *)
(* Input and output tokens are one number.                                 *)
(***************************************************************************)
EXTENDS Integers

CONSTANTS Lifetime,      \* leaf spawns the run declared
          MaxFanout,     \* width one fan-out may have
          TokenBudget,   \* tokens of the run, or NoCeiling
          NoCeiling,
          EstTokens      \* EST_TOKENS_PER_LEAF, before anything was measured

BudgetAssumption ==
    /\ {Lifetime, MaxFanout, EstTokens} \subseteq Nat /\ EstTokens > 0
    /\ NoCeiling \notin Nat /\ TokenBudget \in Nat \cup {NoCeiling}

VARIABLE budget    \* [spawned, tokens, charges]

BudgetTypeOK ==
    /\ budget \in [spawned : Nat, tokens : Nat, charges : Nat]
    /\ budget.spawned <= Lifetime

BudgetInit == budget = [spawned |-> 0, tokens |-> 0, charges |-> 0]

Limited == TokenBudget \in Nat
NonNegative(n) == IF n < 0 THEN 0 ELSE n

LifetimeRemaining == NonNegative(Lifetime - budget.spawned)
FanoutFits(width) == width <= MaxFanout /\ width <= LifetimeRemaining

\* Mutant: the claim is decided by an older reading of the ledger.
CanReserve_Stale(b) == b.spawned <= Lifetime

(* reserve: check and claim are one step *)
CanReserve(b) == b.spawned + 1 <= Lifetime

Reserved(b) == [b EXCEPT !.spawned = @ + 1]

(* refund: a slot given back, never below none *)
Refunded(b) == [b EXCEPT !.spawned = NonNegative(@ - 1)]

(* charge_tokens: a leaf that reported nothing is no measurement. *)
Charged(b, n) == [b EXCEPT !.tokens = @ + n, !.charges = IF n > 0 THEN @ + 1 ELSE @]
Crosses(b, n) == Limited /\ b.tokens <= TokenBudget /\ TokenBudget < b.tokens + n

TokensExhausted == Limited /\ budget.tokens >= TokenBudget
TokensRemaining == IF Limited THEN NonNegative(TokenBudget - budget.tokens) ELSE 0

EstLeafCost ==
    IF budget.charges = 0 THEN EstTokens
    ELSE IF budget.tokens < budget.charges THEN 1 ELSE budget.tokens \div budget.charges

Affords(width) == Limited => width <= TokensRemaining \div EstLeafCost

(* _gate_tokens: spent, or measured and too little left for one more leaf *)
MaySpawn == ~TokensExhausted /\ (budget.charges > 0 => Affords(1))

(* gate_fanout, once the shape fits *)
MayFanOut(width) == Affords(width)
=============================================================================
