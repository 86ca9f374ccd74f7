---------------------------- MODULE MCRecordsProofs ----------------------------
(***************************************************************************)
(* What a durable run is said to have spent, for every set of cells and    *)
(* every number of acquisitions (RunLedger's SpendIsNeverForgotten), what  *)
(* a session is told of its notices, for every number of processes, turns  *)
(* and faults (GatewaySessions' NoticesExplained), and what a pipeline     *)
(* node's books say of its leaves, for every number of items, stages and   *)
(* retries (PipelineRun's BooksCloseOnLeaves), and who opens a gate or     *)
(* moves a node, for every spec, route and envelope (PausedRun's           *)
(* GatesOpenOnHumanWord and MovesAreAuthorised): MCRecords' parts about    *)
(* them.                                                                   *)
(*                                                                         *)
(* For the spend: an acquisition's tally is what it started from and what  *)
(* it charged, no leaf is ever charged for more than it used, and a frozen *)
(* final has charged every leaf whole (StretchInv); so whatever is durable *)
(* is covered by what some acquisition started from and charged, which was *)
(* spent by somebody (DurableInv).                                         *)
(*                                                                         *)
(* For the notices: ids are issued once; the ids of the board and those of *)
(* the trail never meet, and an id in neither belongs to an owner whose    *)
(* trail is full (Noted).  A turn that can acknowledge has its messages in *)
(* a transcript, and transcripts only grow (TurnInv).                      *)
(*                                                                         *)
(* For the pipeline: a slot is a leaf or a spawn under way, and is given   *)
(* back once, with the account of a leaf that never ran; the tokens are    *)
(* the turns of the leaves accounted for (Accounts).  An unsettled item is *)
(* one thread's (Jobs), so nothing settles it twice, and a leaf that runs  *)
(* when the barrier closes is asked to stop by somebody (Barrier); so the  *)
(* node's report is of items nobody still works on (Report).               *)
(*                                                                         *)
(* For the paused run: a stretch is only told what a human or an unguarded *)
(* gate said, under the address of the gate it is for (Words); the brake   *)
(* has a mark for each move (Envelope); a node at work has a trail of the  *)
(* routes it died on (Trail); and a node is on the route that its last     *)
(* move, or the spec on file, says (Moving).                               *)
(***************************************************************************)
EXTENDS MCRecords, FiniteSetTheorems, FunctionTheorems, WellFoundedInduction, TLAPS

(* Sums over finite sets.  A smallest counterexample takes the place of an *)
(* induction: it exists because inclusion of finite sets is well founded.  *)

\* g is the recursive function that sums f over the subsets of S.
Adds(g, f, S) ==
    g = [s \in SUBSET S |->
           IF s = {} THEN 0 ELSE f[CHOOSE x \in s : TRUE] + g[s \ {CHOOSE x \in s : TRUE}]]

\* What the library computes is the value of such a function.
LEMMA SumUnfolds ==
    ASSUME NEW f, NEW S
    PROVE  SumFunctionOnSet(f, S) = (CHOOSE g : Adds(g, f, S))[S]
  BY DEF SumFunctionOnSet, FoldFunctionOnSet, MapThenFoldSet, Adds

\* A set of finite sets has a smallest one.
LEMMA Smallest ==
    ASSUME NEW S, IsFiniteSet(S), NEW Bad \in SUBSET SUBSET S, Bad # {}
    PROVE  \E T \in Bad : \A U \in SUBSET T : U # T => U \notin Bad
<1>1. IsWellFoundedOn(StrictSubsetOrdering(S), SUBSET S)
  BY FS_StrictSubsetOrderingWellFounded, FS_FiniteSubsetsOfFinite
<1>2. \E T \in Bad : \A U \in Bad : ~ (<<U, T>> \in StrictSubsetOrdering(S))
  BY <1>1, WFMin
<1> QED BY <1>2 DEF StrictSubsetOrdering

\* Two such functions agree wherever both are defined.
LEMMA AddsAgree ==
    ASSUME NEW f, NEW S, IsFiniteSet(S), NEW T \in SUBSET S, NEW g, NEW h,
           Adds(g, f, S), Adds(h, f, T)
    PROVE  \A U \in SUBSET T : g[U] = h[U]
<1> DEFINE Bad == {U \in SUBSET T : g[U] # h[U]}
<1>1. SUFFICES ASSUME Bad # {} PROVE FALSE
  OBVIOUS
<1>2. IsFiniteSet(T)
  BY FS_Subset
<1>3. PICK U \in Bad : \A V \in SUBSET U : V # U => V \notin Bad
  <2>1. Bad \in SUBSET SUBSET T
    OBVIOUS
  <2> HIDE DEF Bad
  <2> QED BY <1>1, <1>2, <2>1, Smallest
<1>4. CASE U = {}
  BY <1>3, <1>4 DEF Adds
<1>5. CASE U # {}
  <2> DEFINE x == CHOOSE x \in U : TRUE
  <2>1. x \in U
    BY <1>5
  <2>2. g[U] = f[x] + g[U \ {x}] /\ h[U] = f[x] + h[U \ {x}]
    BY <1>3, <1>5 DEF Adds
  <2>3. g[U \ {x}] = h[U \ {x}]
    BY <1>3, <2>1
  <2> QED BY <1>3, <2>2, <2>3
<1> QED BY <1>4, <1>5

\* There is such a function for every finite set.
LEMMA AddsExists ==
    ASSUME NEW f, NEW S, IsFiniteSet(S)
    PROVE  \E g : Adds(g, f, S)
<1> DEFINE Bad == {T \in SUBSET S : ~ \E g : Adds(g, f, T)}
<1>1. SUFFICES ASSUME Bad # {} PROVE FALSE
  OBVIOUS
<1>2. PICK T \in Bad : \A U \in SUBSET T : U # T => U \notin Bad
  <2>1. Bad \in SUBSET SUBSET S
    OBVIOUS
  <2> HIDE DEF Bad
  <2> QED BY <1>1, <2>1, Smallest
<1> DEFINE below(U) == CHOOSE g : Adds(g, f, U)
           x(s) == CHOOSE x \in s : TRUE
           step(s) == IF s = {} THEN 0 ELSE f[x(s)] + below(s \ {x(s)})[s \ {x(s)}]
           whole == [s \in SUBSET T |-> step(s)]
<1>3. ASSUME NEW U \in SUBSET T, U # T PROVE Adds(below(U), f, U)
  BY <1>2, <1>3
<1>4. ASSUME NEW U \in SUBSET T, U # T PROVE below(U)[U] = step(U)
  <2>1. below(U) = [s \in SUBSET U |-> IF s = {} THEN 0 ELSE f[x(s)] + below(U)[s \ {x(s)}]]
    BY <1>3, <1>4 DEF Adds
  <2>2. CASE U = {}
    BY <2>1, <2>2
  <2>3. CASE U # {}
    <3>1. x(U) \in U /\ U \ {x(U)} \in SUBSET U /\ U \ {x(U)} \in SUBSET T /\ U \ {x(U)} # T
      BY <2>3
    <3>2. Adds(below(U \ {x(U)}), f, U \ {x(U)}) /\ Adds(below(U), f, U)
      BY <1>3, <1>4, <3>1
    <3>3. IsFiniteSet(U)
      BY <1>2, <1>4, FS_Subset
    <3>4. below(U)[U \ {x(U)}] = below(U \ {x(U)})[U \ {x(U)}]
      BY <3>1, <3>2, <3>3, AddsAgree
    <3>5. below(U)[U] = f[x(U)] + below(U)[U \ {x(U)}]
      BY <2>1, <2>3
    <3> QED BY <2>3, <3>4, <3>5
  <2> QED BY <2>2, <2>3
<1>5. ASSUME NEW s \in SUBSET T, s # {} PROVE whole[s] = f[x(s)] + whole[s \ {x(s)}]
  <2>1. x(s) \in s /\ s \ {x(s)} \in SUBSET T /\ s \ {x(s)} # T
    BY <1>5
  <2>2. below(s \ {x(s)})[s \ {x(s)}] = step(s \ {x(s)})
    BY <1>4, <2>1
  <2>3. whole[s] = step(s) /\ whole[s \ {x(s)}] = step(s \ {x(s)})
    BY <1>5, <2>1
  <2> HIDE DEF whole, below
  <2> QED BY <1>5, <2>2, <2>3
<1>6. whole[{}] = 0
  OBVIOUS
<1>7. DOMAIN whole = SUBSET T /\ whole = [s \in SUBSET T |-> whole[s]]
  OBVIOUS
<1> HIDE DEF whole
<1>8. whole = [s \in SUBSET T |-> IF s = {} THEN 0 ELSE f[x(s)] + whole[s \ {x(s)}]]
  BY <1>5, <1>6, <1>7
<1>9. Adds(whole, f, T)
  BY <1>8 DEF Adds
<1> QED BY <1>2, <1>9

\* The sum over a finite set takes its elements one by one.
LEMMA SumStep ==
    ASSUME NEW f, NEW S, IsFiniteSet(S)
    PROVE  /\ S = {} => SumFunctionOnSet(f, S) = 0
           /\ S # {} => LET x == CHOOSE x \in S : TRUE IN
                SumFunctionOnSet(f, S) = f[x] + SumFunctionOnSet(f, S \ {x})
<1> DEFINE g(T) == CHOOSE g : Adds(g, f, T)
           x == CHOOSE x \in S : TRUE
<1>1. ASSUME NEW T, IsFiniteSet(T) PROVE Adds(g(T), f, T)
  BY <1>1, AddsExists
<1>2. CASE S = {}
  <2>1. Adds(g(S), f, S)
    BY <1>1
  <2>2. g(S)[S] = 0
    BY <1>2, <2>1 DEF Adds
  <2> QED BY <1>2, <2>2, SumUnfolds
<1>3. CASE S # {}
  <2>1. x \in S /\ IsFiniteSet(S \ {x}) /\ S \ {x} \in SUBSET S
    BY <1>3, FS_RemoveElement
  <2>2. Adds(g(S), f, S) /\ Adds(g(S \ {x}), f, S \ {x})
    BY <1>1, <2>1
  <2>3. g(S)[S \ {x}] = g(S \ {x})[S \ {x}]
    BY <2>1, <2>2, AddsAgree
  <2>4. g(S)[S] = f[x] + g(S)[S \ {x}]
    BY <1>3, <2>2 DEF Adds
  <2>5. SumFunctionOnSet(f, S) = g(S)[S] /\ SumFunctionOnSet(f, S \ {x}) = g(S \ {x})[S \ {x}]
    BY SumUnfolds
  <2> QED BY <1>3, <2>3, <2>4, <2>5
<1> QED BY <1>2, <1>3

\* It is a number if its terms are.
LEMMA SumType ==
    ASSUME NEW f, NEW S, IsFiniteSet(S), \A x \in S : f[x] \in Int
    PROVE  \A T \in SUBSET S : SumFunctionOnSet(f, T) \in Int
<1> DEFINE Bad == {T \in SUBSET S : SumFunctionOnSet(f, T) \notin Int}
<1>1. SUFFICES ASSUME Bad # {} PROVE FALSE
  OBVIOUS
<1>2. PICK T \in Bad : \A U \in SUBSET T : U # T => U \notin Bad
  <2>1. Bad \in SUBSET SUBSET S
    OBVIOUS
  <2> HIDE DEF Bad
  <2> QED BY <1>1, <2>1, Smallest
<1>3. IsFiniteSet(T)
  BY FS_Subset
<1>4. CASE T = {}
  <2>1. SumFunctionOnSet(f, T) = 0
    BY <1>3, <1>4, SumStep
  <2> QED BY <1>2, <2>1
<1>5. CASE T # {}
  <2> DEFINE x == CHOOSE x \in T : TRUE
  <2>1. x \in T /\ f[x] \in Int /\ T \ {x} \in SUBSET T /\ T \ {x} # T
    BY <1>5
  <2>2. SumFunctionOnSet(f, T \ {x}) \in Int
    BY <1>2, <2>1
  <2>3. SumFunctionOnSet(f, T) = f[x] + SumFunctionOnSet(f, T \ {x})
    BY <1>3, <1>5, SumStep
  <2> HIDE DEF x
  <2> QED BY <1>2, <2>1, <2>2, <2>3
<1> QED BY <1>4, <1>5

\* Any element may be taken first.
LEMMA SumTakes ==
    ASSUME NEW f, NEW S, IsFiniteSet(S), \A x \in S : f[x] \in Int
    PROVE  \A T \in SUBSET S : \A y \in T :
             SumFunctionOnSet(f, T) = f[y] + SumFunctionOnSet(f, T \ {y})
<1> DEFINE sum(T) == SumFunctionOnSet(f, T)
           Good(T) == \A y \in T : sum(T) = f[y] + sum(T \ {y})
           Bad == {T \in SUBSET S : ~Good(T)}
<1>1. SUFFICES ASSUME Bad # {} PROVE FALSE
  OBVIOUS
<1>2. PICK T \in Bad : \A U \in SUBSET T : U # T => U \notin Bad
  <2>1. Bad \in SUBSET SUBSET S
    OBVIOUS
  <2> HIDE DEF Bad
  <2> QED BY <1>1, <2>1, Smallest
<1>3. SUFFICES ASSUME NEW y \in T PROVE sum(T) = f[y] + sum(T \ {y})
  BY <1>2
<1> DEFINE x == CHOOSE x \in T : TRUE
<1>4. x \in T
  OBVIOUS
<1>5. \A U \in SUBSET T : sum(U) \in Int
  BY SumType
<1>6. sum(T) = f[x] + sum(T \ {x})
  <2>1. IsFiniteSet(T)
    BY FS_Subset
  <2> QED BY <1>3, <2>1, SumStep
<1>7. \A U \in SUBSET T : U # T => Good(U)
  BY <1>2
<1> HIDE DEF x, sum, Bad
<1>8. CASE x = y
  BY <1>6, <1>8
<1>9. CASE x # y
  <2>1. sum(T \ {x}) = f[y] + sum((T \ {x}) \ {y})
    BY <1>4, <1>7, <1>9
  <2>2. sum(T \ {y}) = f[x] + sum((T \ {y}) \ {x})
    BY <1>4, <1>7, <1>9
  <2>3. (T \ {y}) \ {x} = (T \ {x}) \ {y}
    OBVIOUS
  <2>4. T \in SUBSET S /\ (T \ {x}) \ {y} \in SUBSET T
    BY <1>2 DEF Bad
  <2>5. f[x] \in Int /\ f[y] \in Int /\ sum((T \ {x}) \ {y}) \in Int
    BY <1>4, <1>5, <2>4
  <2>6. \A s \in Int : f[x] + (f[y] + s) = f[y] + (f[x] + s)
    BY <2>5
  <2>7. sum(T \ {y}) = f[x] + sum((T \ {x}) \ {y})
    BY <2>2, <2>3
  <2> QED BY <1>6, <2>1, <2>5, <2>6, <2>7
<1> QED BY <1>8, <1>9

\* What holds of the empty set, and of every set that it holds of but for one
\* element, holds of every subset of a finite set.
LEMMA OneByOne ==
    ASSUME NEW S, IsFiniteSet(S), NEW Good \in SUBSET SUBSET S, {} \in Good,
           \A T \in SUBSET S : \A x \in T : T \ {x} \in Good => T \in Good
    PROVE  \A T \in SUBSET S : T \in Good
<1> DEFINE Bad == (SUBSET S) \ Good
<1>1. SUFFICES ASSUME Bad # {} PROVE FALSE
  OBVIOUS
<1>2. PICK T \in Bad : \A U \in SUBSET T : U # T => U \notin Bad
  <2>1. Bad \in SUBSET SUBSET S
    OBVIOUS
  <2> HIDE DEF Bad
  <2> QED BY <1>1, <2>1, Smallest
<1>3. T # {}
  BY <1>2
<1>4. PICK x \in T : TRUE
  BY <1>3
<1>5. T \ {x} \in SUBSET S /\ T \ {x} \notin Bad
  BY <1>2, <1>4
<1> QED BY <1>2, <1>4, <1>5

\* Equal terms, equal sums.
LEMMA SumSame ==
    ASSUME NEW f, NEW g, NEW S, IsFiniteSet(S), \A x \in S : f[x] \in Int /\ f[x] = g[x]
    PROVE  SumFunctionOnSet(f, S) = SumFunctionOnSet(g, S)
<1> DEFINE s(T) == SumFunctionOnSet(f, T)
           t(T) == SumFunctionOnSet(g, T)
           Good == {T \in SUBSET S : s(T) = t(T)}
<1>1. {} \in Good
  BY FS_EmptySet, SumStep
<1>2. ASSUME NEW T \in SUBSET S, NEW x \in T, T \ {x} \in Good PROVE T \in Good
  <2>1. s(T) = f[x] + s(T \ {x}) /\ t(T) = g[x] + t(T \ {x})
    BY SumTakes
  <2> QED BY <1>2, <2>1
<1>3. Good \in SUBSET SUBSET S
  OBVIOUS
<1> HIDE DEF Good
<1>4. S \in Good
  BY <1>1, <1>2, <1>3, OneByOne
<1> QED BY <1>4 DEF Good

\* The sum of sums is the sum of the terms' sums.
LEMMA SumAdds ==
    ASSUME NEW f, NEW g, NEW h, NEW S, IsFiniteSet(S),
           \A x \in S : f[x] \in Int /\ g[x] \in Int /\ h[x] = f[x] + g[x]
    PROVE  SumFunctionOnSet(h, S) = SumFunctionOnSet(f, S) + SumFunctionOnSet(g, S)
<1> DEFINE s(T) == SumFunctionOnSet(f, T)
           t(T) == SumFunctionOnSet(g, T)
           u(T) == SumFunctionOnSet(h, T)
           Good == {T \in SUBSET S : u(T) = s(T) + t(T)}
<1>1. {} \in Good
  <2>1. u({}) = 0 /\ s({}) = 0 /\ t({}) = 0
    BY FS_EmptySet, SumStep
  <2> QED BY <2>1
<1>2. ASSUME NEW T \in SUBSET S, NEW x \in T, T \ {x} \in Good PROVE T \in Good
  <2>1. s(T) = f[x] + s(T \ {x}) /\ t(T) = g[x] + t(T \ {x}) /\ u(T) = h[x] + u(T \ {x})
    BY SumTakes
  <2>2. s(T \ {x}) \in Int /\ t(T \ {x}) \in Int
    BY SumType
  <2>3. f[x] \in Int /\ g[x] \in Int /\ h[x] = f[x] + g[x] /\ u(T \ {x}) = s(T \ {x}) + t(T \ {x})
    BY <1>2
  <2> HIDE DEF s, t, u
  <2>4. u(T) = s(T) + t(T)
    BY <2>1, <2>2, <2>3
  <2> QED BY <2>4
<1>3. Good \in SUBSET SUBSET S
  OBVIOUS
<1> HIDE DEF Good
<1>4. S \in Good
  BY <1>1, <1>2, <1>3, OneByOne
<1> QED BY <1>4 DEF Good

\* Smaller terms, smaller sums.
LEMMA SumLess ==
    ASSUME NEW f, NEW g, NEW S, IsFiniteSet(S),
           \A x \in S : f[x] \in Int /\ g[x] \in Int /\ f[x] <= g[x]
    PROVE  SumFunctionOnSet(f, S) <= SumFunctionOnSet(g, S)
<1> DEFINE s(T) == SumFunctionOnSet(f, T)
           t(T) == SumFunctionOnSet(g, T)
           Good == {T \in SUBSET S : s(T) <= t(T)}
<1>1. {} \in Good
  <2>1. s({}) = 0 /\ t({}) = 0
    BY FS_EmptySet, SumStep
  <2> QED BY <2>1
<1>2. ASSUME NEW T \in SUBSET S, NEW x \in T, T \ {x} \in Good PROVE T \in Good
  <2>1. s(T) = f[x] + s(T \ {x}) /\ t(T) = g[x] + t(T \ {x})
    BY SumTakes
  <2>2. s(T \ {x}) \in Int /\ t(T \ {x}) \in Int
    BY SumType
  <2>3. f[x] \in Int /\ g[x] \in Int /\ f[x] <= g[x] /\ s(T \ {x}) <= t(T \ {x})
    BY <1>2
  <2> HIDE DEF s, t
  <2>4. s(T) <= t(T)
    BY <2>1, <2>2, <2>3
  <2> QED BY <2>4
<1>3. Good \in SUBSET SUBSET S
  OBVIOUS
<1> HIDE DEF Good
<1>4. S \in Good
  BY <1>1, <1>2, <1>3, OneByOne
<1> QED BY <1>4 DEF Good

\* Terms that are zero do not count.
LEMMA SumPart ==
    ASSUME NEW f, NEW P, NEW S, IsFiniteSet(S), P \subseteq S,
           \A x \in S : f[x] \in Int /\ (x \notin P => f[x] = 0)
    PROVE  SumFunctionOnSet(f, S) = SumFunctionOnSet(f, P)
<1> DEFINE s(T) == SumFunctionOnSet(f, T)
           Good == {T \in SUBSET S : s(T) = s(T \cap P)}
<1>1. {} \in Good
  <2>1. {} \cap P = {}
    OBVIOUS
  <2> QED BY <2>1
<1>2. ASSUME NEW T \in SUBSET S, NEW x \in T, T \ {x} \in Good PROVE T \in Good
  <2>1. s(T) = f[x] + s(T \ {x})
    BY SumTakes
  <2>2. s(T \ {x}) \in Int /\ s(T \ {x}) = s((T \ {x}) \cap P)
    BY <1>2, SumType
  <2>3. CASE x \in P
    <3>1. T \cap P \in SUBSET S /\ x \in T \cap P /\ (T \ {x}) \cap P = (T \cap P) \ {x}
      BY <2>3
    <3>2. s(T \cap P) = f[x] + s((T \cap P) \ {x})
      BY <3>1, SumTakes
    <3> QED BY <2>1, <2>2, <3>1, <3>2
  <2>4. CASE x \notin P
    <3>1. (T \ {x}) \cap P = T \cap P /\ f[x] = 0
      BY <2>4
    <3>2. \A n \in Int : 0 + n = n
      OBVIOUS
    <3>3. s(T) = s(T \ {x})
      BY <2>1, <2>2, <3>1, <3>2
    <3> QED BY <2>2, <3>1, <3>3
  <2> QED BY <2>3, <2>4
<1>3. Good \in SUBSET SUBSET S
  OBVIOUS
<1> HIDE DEF Good
<1>4. S \in Good
  BY <1>1, <1>2, <1>3, OneByOne
<1>5. S \cap P = P
  OBVIOUS
<1> QED BY <1>4, <1>5 DEF Good

\* One term changes.
LEMMA SumUpdates ==
    ASSUME NEW f, NEW g, NEW S, IsFiniteSet(S), NEW y \in S,
           \A x \in S : f[x] \in Int /\ g[x] \in Int /\ (x # y => g[x] = f[x])
    PROVE  SumFunctionOnSet(g, S) = SumFunctionOnSet(f, S) - f[y] + g[y]
<1> DEFINE s(h, T) == SumFunctionOnSet(h, T)
<1>1. s(f, S) = f[y] + s(f, S \ {y}) /\ s(g, S) = g[y] + s(g, S \ {y})
  BY SumTakes
<1>2. IsFiniteSet(S \ {y})
  BY FS_RemoveElement
<1>3. s(f, S \ {y}) = s(g, S \ {y})
  BY <1>2, SumSame
<1>4. s(f, S \ {y}) \in Int /\ f[y] \in Int /\ g[y] \in Int
  BY SumType
<1> HIDE DEF s
<1>5. s(g, S) = s(f, S) - f[y] + g[y]
  BY <1>1, <1>3, <1>4
<1> QED BY <1>5 DEF s

-------------------------------------------------------------------------------
(* The invariant of the ledger, in RunLedger's names for v1, v2 and v3. *)

store == v1
stretch == v2
leaf == v3

USE DEF store, stretch, leaf

StoreRow == [fence : 0..MaxStretch, leased : BOOLEAN, row : Nat \cup {Ledger!None},
             price : [Cell -> Nat \cup {Ledger!None}]]

StretchRow ==
    [pc : Ledger!PC, seed : Nat, tokens : Nat, applied : [Cell -> Nat], received : [Cell -> Nat],
     accounted : SUBSET Cell, final : Nat \cup {Ledger!None}, tries : Nat, blind : BOOLEAN,
     settled : {"no", "committed", "refused", "unconfirmed"}]

LeafRow == [pc : {"none", "running", "ended", "told"}, used : Nat, turns : Nat]

Types ==
    /\ store \in StoreRow
    /\ stretch \in [Ledger!Fence -> StretchRow]
    /\ leaf \in [Ledger!Fence -> [Cell -> LeafRow]]

Young == {"free", "seed", "line"}

(* What an acquisition knows of its leaves.  It never charged more than a  *)
(* leaf used; what it accounted, and what it froze, it charged whole.      *)
StretchInv(s, l) ==
    /\ s.tokens = s.seed + SumFunction(s.applied)
    /\ s.pc \in Young => \A c \in Cell : l[c].pc = "none"
    /\ s.pc = "free" => s.seed = 0
    /\ s.pc \in {"finalize", "write"} \/ s.final # Ledger!None =>
          \A c \in Cell : l[c].pc \in {"none", "told"}
    /\ s.pc = "write" => s.final # Ledger!None
    /\ s.final # Ledger!None =>
          /\ s.pc \in {"write", "release", "over", "dead"}
          /\ s.final = s.tokens
          /\ ~s.blind => \A c \in Cell : l[c].used <= s.applied[c]
    /\ s.settled = "committed" => s.final # Ledger!None /\ s.pc \in {"release", "over", "dead"}
    /\ \A c \in Cell :
         /\ s.applied[c] <= l[c].used /\ s.received[c] <= l[c].used
         /\ l[c].pc = "none" => l[c].used = 0
         /\ l[c].pc = "told" /\ ~s.blind =>
               l[c].used <= s.received[c] \/ l[c].used <= s.applied[c]
         /\ c \in s.accounted =>
               l[c].pc \in {"ended", "told"} /\ l[c].used <= s.applied[c]

Seeded(s) == s.pc \notin {"free", "seed", "dead"}

\* What the cells' prices say beyond what the acquisition charged for them.
Excess(s) == SumFunction([c \in Cell |-> Ledger!Bigger(0, store.price[c] - s.applied[c])])

(* What is durable, against what was spent by all and what each started    *)
(* from.                                                                   *)
DurableInv ==
    /\ store.row <= Ledger!Total /\ Ledger!CellTotal <= Ledger!Total
    /\ \A f \in Ledger!Fence :
         /\ f > store.fence => stretch[f].pc = "free"
         /\ f <= store.fence => stretch[f].pc # "free"
         /\ stretch[f].seed + Ledger!Usage(f) <= Ledger!Total
         /\ stretch[f].settled = "committed" => stretch[f].final <= store.row
         /\ Ledger!Owns(f) /\ Seeded(stretch[f]) => Excess(stretch[f]) <= stretch[f].seed
         /\ Ledger!Owns(f) /\ stretch[f].settled = "committed" =>
               store.row = stretch[f].final /\ Ledger!CellTotal <= store.row
         /\ \A g \in Ledger!Fence :
              f < g /\ stretch[f].settled = "committed" /\ Seeded(stretch[g])
              => stretch[f].final <= stretch[g].seed

LedgerInv ==
    /\ Types
    /\ \A f \in Ledger!Fence : StretchInv(stretch[f], leaf[f])
    /\ DurableInv

-------------------------------------------------------------------------------
(* Sums of the ledger *)

LEMMA Finite == Ledger!LedgerAssumption => IsFiniteSet(Cell) /\ IsFiniteSet(Ledger!Fence)
<1> SUFFICES ASSUME Ledger!LedgerAssumption PROVE IsFiniteSet(Cell) /\ IsFiniteSet(Ledger!Fence)
  OBVIOUS
<1>1. IsFiniteSet(Cell)
  BY DEF Ledger!LedgerAssumption, Ledger!IsFiniteSet, IsFiniteSet
<1>2. IsFiniteSet(Ledger!Fence)
  BY FS_Interval DEF Ledger!LedgerAssumption, Ledger!Fence
<1> QED BY <1>1, <1>2

\* RunLedger's sums are the library's.
LEMMA LedgerSums ==
    ASSUME NEW g
    PROVE  Ledger!SumFunction(g) = SumFunction(g)
BY DEF Ledger!SumFunction, Ledger!SumFunctionOnSet, Ledger!FoldFunctionOnSet,
       Ledger!MapThenFoldSet,
       SumFunction, SumFunctionOnSet, FoldFunctionOnSet, MapThenFoldSet

LEMMA SumNat ==
    ASSUME NEW f, NEW S, IsFiniteSet(S), \A x \in S : f[x] \in Nat
    PROVE  SumFunctionOnSet(f, S) \in Nat
<1> DEFINE z == [x \in S |-> 0]
<1>1. SumFunctionOnSet(z, S) = SumFunctionOnSet(z, {})
  BY SumPart
<1>2. SumFunctionOnSet(z, {}) = 0
  BY FS_EmptySet, SumStep
<1>3. SumFunctionOnSet(z, S) <= SumFunctionOnSet(f, S)
  BY SumLess
<1>4. SumFunctionOnSet(f, S) \in Int
  BY SumType
<1> QED BY <1>1, <1>2, <1>3, <1>4

LEMMA SumZero ==
    ASSUME NEW f, NEW S, IsFiniteSet(S), \A x \in S : f[x] = 0
    PROVE  SumFunctionOnSet(f, S) = 0
<1>1. SumFunctionOnSet(f, S) = SumFunctionOnSet(f, {})
  BY SumPart
<1> QED BY <1>1, FS_EmptySet, SumStep

\* The sum of a leaf's usage over the cells.
Spend(l) == SumFunction([c \in Cell |-> l[c].used])

LEMMA SpendType ==
    ASSUME Ledger!LedgerAssumption, NEW l \in [Cell -> LeafRow]
    PROVE  Spend(l) \in Nat
<1> DEFINE u == [c \in Cell |-> l[c].used]
<1>1. \A c \in Cell : u[c] \in Nat
  BY DEF LeafRow
<1>2. SumFunctionOnSet(u, Cell) \in Nat
  <2> HIDE DEF u
  <2> QED BY <1>1, Finite, SumNat
<1> QED BY <1>2 DEF Spend, SumFunction

LEMMA SumsTyped ==
    ASSUME Ledger!LedgerAssumption, Types
    PROVE  /\ \A f \in Ledger!Fence : Ledger!Usage(f) \in Nat /\ Ledger!Usage(f) = Spend(leaf[f])
           /\ Ledger!Total \in Nat /\ Ledger!CellTotal \in Nat
<1>1. ASSUME NEW f \in Ledger!Fence
      PROVE  Ledger!Usage(f) \in Nat /\ Ledger!Usage(f) = Spend(leaf[f])
  <2>1. Ledger!Usage(f) = Spend(leaf[f])
    BY LedgerSums DEF Ledger!Usage, Spend
  <2>2. leaf[f] \in [Cell -> LeafRow]
    BY DEF Types
  <2> QED BY <2>1, <2>2, SpendType
<1>2. Ledger!Total \in Nat
  <2> DEFINE u == [f \in Ledger!Fence |-> Ledger!Usage(f)]
  <2>1. \A f \in Ledger!Fence : u[f] \in Nat
    BY <1>1
  <2>2. SumFunctionOnSet(u, Ledger!Fence) \in Nat
    <3> HIDE DEF u
    <3> QED BY <2>1, Finite, SumNat
  <2> QED BY <2>2, LedgerSums DEF Ledger!Total, SumFunction
<1>3. Ledger!CellTotal \in Nat
  <2> DEFINE u == [c \in Cell |-> Ledger!Bigger(0, store.price[c])]
  <2>1. \A c \in Cell : u[c] \in Nat
    BY DEF Types, StoreRow, Ledger!Bigger, Ledger!None
  <2>2. SumFunctionOnSet(u, Cell) \in Nat
    <3> HIDE DEF u
    <3> QED BY <2>1, Finite, SumNat
  <2> QED BY <2>2, LedgerSums DEF Ledger!CellTotal, SumFunction
<1> QED BY <1>1, <1>2, <1>3

\* What was charged is no more than what was used, and no less if each leaf
\* was charged whole.
LEMMA ChargedSum ==
    ASSUME Ledger!LedgerAssumption, NEW s \in StretchRow, NEW l \in [Cell -> LeafRow],
           \A c \in Cell : s.applied[c] <= l[c].used
    PROVE  /\ SumFunction(s.applied) \in Nat /\ SumFunction(s.applied) <= Spend(l)
           /\ (\A c \in Cell : l[c].used <= s.applied[c]) => SumFunction(s.applied) = Spend(l)
<1> DEFINE a == s.applied
           u == [c \in Cell |-> l[c].used]
<1>1. a \in [Cell -> Nat] /\ u \in [Cell -> Nat] /\ DOMAIN a = Cell /\ DOMAIN u = Cell
  BY DEF StretchRow, LeafRow
<1>2. \A c \in Cell : a[c] <= u[c]
  OBVIOUS
<1>3. Spend(l) = SumFunctionOnSet(u, Cell) /\ SumFunction(a) = SumFunctionOnSet(a, Cell)
  BY <1>1 DEF Spend, SumFunction
<1>4. (\A c \in Cell : l[c].used <= a[c]) => a = u
  <2>1. ASSUME \A c \in Cell : l[c].used <= a[c] PROVE \A c \in Cell : a[c] = u[c]
    BY <1>1, <1>2, <2>1 DEF LeafRow
  <2> HIDE DEF a, u
  <2> QED BY <1>1, <2>1
<1> HIDE DEF a, u
<1>5. SumFunctionOnSet(a, Cell) \in Nat
  BY <1>1, Finite, SumNat
<1>6. SumFunctionOnSet(a, Cell) <= SumFunctionOnSet(u, Cell)
  BY <1>1, <1>2, Finite, SumLess
<1> QED BY <1>3, <1>4, <1>5, <1>6 DEF a

\* The same usage, the same sums.
LEMMA SameUsage ==
    ASSUME \A f \in Ledger!Fence : \A c \in Cell : leaf'[f][c].used = leaf[f][c].used
    PROVE  (\A f \in Ledger!Fence : Ledger!Usage(f)' = Ledger!Usage(f))
           /\ Ledger!Total' = Ledger!Total
<1>1. ASSUME NEW f \in Ledger!Fence PROVE Ledger!Usage(f)' = Ledger!Usage(f)
  <2>1. [c \in Cell |-> leaf'[f][c].used] = [c \in Cell |-> leaf[f][c].used]
    OBVIOUS
  <2> QED BY <2>1 DEF Ledger!Usage
<1>2. [f \in Ledger!Fence |-> Ledger!Usage(f)]' = [f \in Ledger!Fence |-> Ledger!Usage(f)]
  <2>1. [f \in Ledger!Fence |-> Ledger!Usage(f)'] = [f \in Ledger!Fence |-> Ledger!Usage(f)]
    BY <1>1
  <2> QED BY <2>1
<1>3. Ledger!Total' = Ledger!Total
  BY <1>2 DEF Ledger!Total
<1> QED BY <1>1, <1>3

\* A debit adds what is new, and marks it.
LEMMA ChargeAdds ==
    ASSUME Ledger!LedgerAssumption, NEW s \in StretchRow, NEW cells \in SUBSET Cell,
           NEW meter \in [Cell -> Nat], s.tokens = s.seed + SumFunction(s.applied),
           NEW t, t = Ledger!Charged(s, cells, meter)
    PROVE  /\ t \in StretchRow /\ t.tokens = t.seed + SumFunction(t.applied)
           /\ t.pc = s.pc /\ t.seed = s.seed /\ t.received = s.received
           /\ t.accounted = s.accounted /\ t.final = s.final /\ t.tries = s.tries
           /\ t.blind = s.blind /\ t.settled = s.settled
           /\ \A c \in Cell :
                t.applied[c] = IF c \in cells THEN Ledger!Bigger(s.applied[c], meter[c])
                               ELSE s.applied[c]
<1> DEFINE a == s.applied
           b == Ledger!Marked(s, cells, meter)
           d == [c \in Cell |-> IF c \in cells THEN Ledger!Bigger(0, meter[c] - a[c]) ELSE 0]
           e == [c \in cells |-> Ledger!Bigger(0, meter[c] - a[c])]
<1>1. a \in [Cell -> Nat] /\ b \in [Cell -> Nat] /\ d \in [Cell -> Nat] /\ e \in [cells -> Nat]
  BY DEF StretchRow, Ledger!Marked, Ledger!Bigger
<1>2. \A c \in Cell : b[c] = a[c] + d[c]
  BY <1>1 DEF Ledger!Marked, Ledger!Bigger
<1>3. \A c \in Cell : b[c] = IF c \in cells THEN Ledger!Bigger(a[c], meter[c]) ELSE a[c]
  BY DEF Ledger!Marked
<1>4. \A c \in cells : e[c] = d[c]
  OBVIOUS
<1>5. \A c \in Cell : c \notin cells => d[c] = 0
  OBVIOUS
<1>6. t = [s EXCEPT !.applied = b, !.tokens = s.tokens + SumFunction(e)]
  BY LedgerSums DEF Ledger!Charged
<1>7. IsFiniteSet(Cell) /\ IsFiniteSet(cells)
  BY Finite, FS_Subset
<1>8. /\ SumFunction(a) = SumFunctionOnSet(a, Cell) /\ SumFunction(b) = SumFunctionOnSet(b, Cell)
      /\ SumFunction(e) = SumFunctionOnSet(e, cells)
  <2> HIDE DEF a, b, d, e
  <2>1. DOMAIN a = Cell /\ DOMAIN b = Cell /\ DOMAIN e = cells
    BY <1>1
  <2> QED BY <2>1 DEF SumFunction
<1> HIDE DEF a, b, d, e
<1>9. SumFunctionOnSet(b, Cell) = SumFunctionOnSet(a, Cell) + SumFunctionOnSet(d, Cell)
  BY <1>1, <1>2, <1>7, SumAdds
<1>10. SumFunctionOnSet(d, Cell) = SumFunctionOnSet(d, cells)
  BY <1>1, <1>5, <1>7, SumPart
<1>11. SumFunctionOnSet(e, cells) = SumFunctionOnSet(d, cells)
  BY <1>1, <1>4, <1>7, SumSame
<1>12. SumFunction(b) = SumFunction(a) + SumFunction(e)
  BY <1>8, <1>9, <1>10, <1>11
<1>13. SumFunction(a) \in Nat /\ SumFunction(e) \in Nat
  BY <1>1, <1>7, <1>8, SumNat
<1>14. s.tokens \in Nat /\ s.seed \in Nat /\ s.tokens = s.seed + SumFunction(a)
  BY DEF StretchRow, a
<1>15. s.tokens + SumFunction(e) \in Nat
       /\ s.tokens + SumFunction(e) = s.seed + SumFunction(b)
  BY <1>12, <1>13, <1>14
<1>16. t \in StretchRow /\ t.applied = b /\ t.tokens = s.tokens + SumFunction(e)
       /\ t.seed = s.seed
  BY <1>1, <1>6, <1>15 DEF StretchRow
<1>17. /\ t.pc = s.pc /\ t.received = s.received
       /\ t.accounted = s.accounted /\ t.final = s.final /\ t.tries = s.tries
       /\ t.blind = s.blind /\ t.settled = s.settled
  BY <1>6 DEF StretchRow
<1> QED BY <1>3, <1>15, <1>16, <1>17 DEF a
\* The cells' prices are covered by what was charged for them and the excess.
LEMMA ExcessCovers ==
    ASSUME Ledger!LedgerAssumption, store \in StoreRow, NEW s \in StretchRow
    PROVE  Excess(s) \in Nat /\ Ledger!CellTotal <= Excess(s) + SumFunction(s.applied)
<1> DEFINE p == [c \in Cell |-> Ledger!Bigger(0, store.price[c])]
           e == [c \in Cell |-> Ledger!Bigger(0, store.price[c] - s.applied[c])]
           a == s.applied
           m == [c \in Cell |-> e[c] + a[c]]
<1>1. ASSUME NEW c \in Cell
      PROVE  p[c] \in Nat /\ e[c] \in Nat /\ a[c] \in Nat /\ p[c] <= e[c] + a[c]
  <2>1. store.price[c] \in Int /\ s.applied[c] \in Nat
    BY DEF StoreRow, StretchRow, Ledger!None
  <2> QED BY <2>1 DEF Ledger!Bigger
<1>2. /\ Excess(s) = SumFunctionOnSet(e, Cell) /\ Ledger!CellTotal = SumFunctionOnSet(p, Cell)
      /\ SumFunction(s.applied) = SumFunctionOnSet(a, Cell)
  <2>1. DOMAIN s.applied = Cell
    BY DEF StretchRow
  <2> QED BY <2>1, LedgerSums DEF Excess, Ledger!CellTotal, SumFunction
<1>3. \A c \in Cell : m[c] = e[c] + a[c]
  OBVIOUS
<1> HIDE DEF p, e, a, m
<1>4. SumFunctionOnSet(m, Cell) = SumFunctionOnSet(e, Cell) + SumFunctionOnSet(a, Cell)
  BY <1>1, <1>3, Finite, SumAdds
<1>5. SumFunctionOnSet(p, Cell) <= SumFunctionOnSet(m, Cell)
  BY <1>1, <1>3, Finite, SumLess
<1>6. SumFunctionOnSet(e, Cell) \in Nat
  BY <1>1, Finite, SumNat
<1> QED BY <1>2, <1>4, <1>5, <1>6

-------------------------------------------------------------------------------
(* Steps of one acquisition *)

\* The row is left alone, or written by its owner.
RowMoves(f, s) ==
    \/ store'.row = store.row
    \/ Ledger!Owns(f) /\ stretch[f].pc \in {"line", "running", "write"} /\ store'.row = s.tokens

\* An acquisition learns, charges and settles; usage stays, and prices stay.
LEMMA StretchMoves ==
    ASSUME Ledger!LedgerAssumption, LedgerInv, NEW f \in Ledger!Fence, NEW s \in StretchRow,
           NEW l \in [Cell -> LeafRow],
           stretch' = [stretch EXCEPT ![f] = s], leaf' = [leaf EXCEPT ![f] = l],
           store' \in StoreRow, store'.fence = store.fence, store'.price = store.price,
           RowMoves(f, s), StretchInv(s, l),
           \A c \in Cell : l[c].used = leaf[f][c].used /\ stretch[f].applied[c] <= s.applied[c],
           s.seed = stretch[f].seed, stretch[f].pc # "free", s.pc # "free",
           Seeded(s) => Seeded(stretch[f]),
           s.settled = "committed" =>
             \/ /\ stretch[f].settled = "committed" /\ s.final = stretch[f].final
                /\ store'.row = store.row
             \/ Ledger!Owns(f) /\ stretch[f].pc = "write" /\ store'.row = s.final
                  /\ s.final = s.tokens
    PROVE  LedgerInv'
<1> DEFINE r == stretch[f]
<1>1. /\ stretch'[f] = s /\ leaf'[f] = l /\ r \in StretchRow /\ StretchInv(r, leaf[f])
      /\ \A g \in Ledger!Fence : g # f => stretch'[g] = stretch[g] /\ leaf'[g] = leaf[g]
  BY DEF LedgerInv, Types
<1>2. Types'
  BY DEF LedgerInv, Types
<1>3. ASSUME NEW g \in Ledger!Fence PROVE StretchInv(stretch'[g], leaf'[g])
  BY <1>1 DEF LedgerInv
<1>4. \A g \in Ledger!Fence : \A c \in Cell : leaf'[g][c].used = leaf[g][c].used
  BY <1>1
<1>5. (\A g \in Ledger!Fence : Ledger!Usage(g)' = Ledger!Usage(g))
      /\ Ledger!Total' = Ledger!Total /\ Ledger!CellTotal' = Ledger!CellTotal
  <2>1. Ledger!CellTotal' = Ledger!CellTotal
    BY DEF Ledger!CellTotal
  <2> QED BY <1>4, <2>1, SameUsage
<1>6. /\ Ledger!Total \in Nat /\ Ledger!CellTotal \in Nat
      /\ \A g \in Ledger!Fence : Ledger!Usage(g) \in Nat /\ Ledger!Usage(g) = Spend(leaf[g])
  BY SumsTyped DEF LedgerInv
<1>7. s.tokens <= s.seed + Ledger!Usage(f) /\ s.seed <= s.tokens
  <2>1. Spend(l) = Ledger!Usage(f)
    <3>1. [c \in Cell |-> l[c].used] = [c \in Cell |-> leaf[f][c].used]
      OBVIOUS
    <3> QED BY <3>1, LedgerSums DEF Spend, Ledger!Usage
  <2>2. SumFunction(s.applied) \in Nat /\ SumFunction(s.applied) <= Spend(l)
    BY ChargedSum DEF StretchInv
  <2>3. s.tokens = s.seed + SumFunction(s.applied) /\ s.seed \in Nat
    BY DEF StretchInv, StretchRow
  <2> QED BY <1>6, <2>1, <2>2, <2>3
<1>8. s.tokens <= Ledger!Total
  <2>1. s.seed + Ledger!Usage(f) <= Ledger!Total
    BY DEF LedgerInv, DurableInv
  <2>2. s.tokens \in Nat /\ s.seed \in Nat /\ Ledger!Usage(f) \in Nat /\ Ledger!Total \in Nat
    BY <1>6 DEF StretchRow
  <2> QED BY <1>7, <2>1, <2>2
<1>9. Excess(s)' = Excess(s) /\ Excess(s) <= Excess(r)
  <2> DEFINE u == [c \in Cell |-> Ledger!Bigger(0, store.price[c] - s.applied[c])]
             v == [c \in Cell |-> Ledger!Bigger(0, store.price[c] - r.applied[c])]
  <2>1. ASSUME NEW c \in Cell PROVE u[c] \in Int /\ v[c] \in Int /\ u[c] <= v[c]
    <3>1. /\ store.price[c] \in Int
          /\ s.applied[c] \in Nat /\ r.applied[c] \in Nat /\ r.applied[c] <= s.applied[c]
      BY <1>1 DEF LedgerInv, Types, StoreRow, StretchRow, Ledger!None
    <3> QED BY <3>1 DEF Ledger!Bigger
  <2>2. /\ Excess(s)' = Excess(s)
        /\ Excess(s) = SumFunctionOnSet(u, Cell) /\ Excess(r) = SumFunctionOnSet(v, Cell)
    BY DEF Excess, SumFunction
  <2> HIDE DEF u, v
  <2> QED BY <2>1, <2>2, Finite, SumLess
<1>10. store.row \in Int /\ store'.row \in Int /\ s.tokens \in Nat /\ s.seed \in Nat
       /\ \A g \in Ledger!Fence : stretch[g].final \in Int /\ stretch[g].seed \in Nat
       /\ Excess(r) \in Nat /\ Excess(s) \in Nat
  <2>1. store.row \in Int /\ store'.row \in Int /\ s.tokens \in Nat /\ s.seed \in Nat
    BY DEF LedgerInv, Types, StoreRow, StretchRow, Ledger!None
  <2>2. \A g \in Ledger!Fence : stretch[g].final \in Int /\ stretch[g].seed \in Nat
    BY DEF LedgerInv, Types, StretchRow, Ledger!None
  <2>3. store \in StoreRow
    BY DEF LedgerInv, Types
  <2>4. Excess(r) \in Nat /\ Excess(s) \in Nat
    BY <1>1, <2>3, ExcessCovers
  <2> QED BY <2>1, <2>2, <2>4
<1>11. \A g \in Ledger!Fence : Ledger!Owns(g)' <=> Ledger!Owns(g)
  BY DEF Ledger!Owns
<1>12. store'.row <= Ledger!Total' /\ Ledger!CellTotal' <= Ledger!Total'
  BY <1>5, <1>8 DEF LedgerInv, DurableInv, RowMoves
<1>13. ASSUME NEW g \in Ledger!Fence
       PROVE  /\ (g > store.fence => stretch[g].pc = "free")'
              /\ (g <= store.fence => stretch[g].pc # "free")'
              /\ (stretch[g].seed + Ledger!Usage(g) <= Ledger!Total)'
  BY <1>1, <1>5 DEF LedgerInv, DurableInv
\* Whoever committed did so before the owner seeded itself.
<1>14. ASSUME NEW g \in Ledger!Fence, g # f, stretch[g].settled = "committed",
              Seeded(stretch[f]), Ledger!Owns(f)
       PROVE  stretch[g].final <= s.seed
  <2>1. g < f
    <3>1. stretch[g].pc # "free"
      BY <1>14 DEF LedgerInv, StretchInv
    <3>2. ~(g > store.fence)
      BY <3>1 DEF LedgerInv, DurableInv
    <3> QED BY <1>14, <3>2 DEF Ledger!Owns, Ledger!Fence
  <2> QED BY <1>14, <2>1 DEF LedgerInv, DurableInv
<1>15. store'.row # store.row => Ledger!Owns(f) /\ Seeded(stretch[f])
       /\ store'.row = s.tokens /\ stretch[f].settled # "committed"
  BY <1>1 DEF RowMoves, Seeded, StretchInv
<1>16. ASSUME NEW g \in Ledger!Fence, (stretch[g].settled = "committed")'
       PROVE  (stretch[g].final <= store.row)'
  <2>1. CASE g # f /\ store'.row = store.row
    BY <1>1, <1>16, <2>1 DEF LedgerInv, DurableInv
  <2>2. CASE g # f /\ store'.row # store.row
    <3>1. stretch[g].final <= s.seed
      BY <1>1, <1>14, <1>15, <1>16, <2>2
    <3> QED BY <1>1, <1>7, <1>10, <1>15, <2>2, <3>1
  <2>3. CASE g = f /\ stretch[f].settled = "committed" /\ s.final = stretch[f].final
                /\ store'.row = store.row
    BY <1>1, <2>3 DEF LedgerInv, DurableInv
  <2>4. CASE g = f /\ store'.row = s.final
    BY <1>1, <1>10, <2>4
  <2> QED BY <1>1, <1>16, <2>1, <2>2, <2>3, <2>4
<1>17. ASSUME NEW g \in Ledger!Fence, Ledger!Owns(g)', Seeded(stretch'[g])
       PROVE  (Excess(stretch[g]) <= stretch[g].seed)'
  <2>1. CASE g # f
    <3>1. Excess(stretch[g])' = Excess(stretch[g])
      BY <1>1, <2>1 DEF Excess
    <3> QED BY <1>1, <1>11, <1>17, <2>1, <3>1 DEF LedgerInv, DurableInv
  <2>2. CASE g = f
    <3>1. Excess(r) <= r.seed
      BY <1>1, <1>11, <1>17, <2>2 DEF LedgerInv, DurableInv
    <3>2. Excess(stretch[g])' = Excess(s)'
      BY <1>1, <2>2 DEF Excess
    <3> QED BY <1>1, <1>9, <1>10, <2>2, <3>1, <3>2
  <2> QED BY <2>1, <2>2
<1>18. ASSUME NEW g \in Ledger!Fence, Ledger!Owns(g)', (stretch[g].settled = "committed")'
       PROVE  (store.row = stretch[g].final /\ Ledger!CellTotal <= store.row)'
  <2>1. CASE stretch'[g].final = stretch[g].final /\ stretch[g].settled = "committed"
             /\ store'.row = store.row
    BY <1>5, <1>11, <1>18, <2>1 DEF LedgerInv, DurableInv
  <2>2. CASE g = f /\ Ledger!Owns(f) /\ stretch[f].pc = "write" /\ store'.row = s.final
             /\ s.final = s.tokens
    <3>1. Excess(s) <= s.seed
      <4>1. Seeded(r)
        BY <2>2 DEF Seeded
      <4>2. Excess(r) <= r.seed
        BY <2>2, <4>1 DEF LedgerInv, DurableInv
      <4> QED BY <1>9, <1>10, <4>2
    <3>2. Ledger!CellTotal <= s.tokens
      <4>1. Ledger!CellTotal <= Excess(s) + SumFunction(s.applied)
        BY ExcessCovers DEF LedgerInv, Types
      <4>2. SumFunction(s.applied) \in Nat
        BY ChargedSum DEF StretchInv
      <4>3. s.tokens = s.seed + SumFunction(s.applied)
        BY DEF StretchInv
      <4> QED BY <1>6, <1>10, <3>1, <4>1, <4>2, <4>3
    <3> QED BY <1>1, <1>5, <2>2, <3>2
  <2>3. CASE g # f
    <3>1. store'.row = store.row
      BY <1>11, <1>15, <1>18, <2>3 DEF Ledger!Owns
    <3> QED BY <1>1, <1>18, <2>1, <2>3, <3>1
  <2> QED BY <1>1, <1>18, <2>1, <2>2, <2>3
<1>19. ASSUME NEW g \in Ledger!Fence,
              NEW h \in Ledger!Fence, g < h, (stretch[g].settled = "committed")',
              Seeded(stretch'[h])
       PROVE  (stretch[g].final <= stretch[h].seed)'
  <2>1. stretch'[h].seed = stretch[h].seed /\ Seeded(stretch[h])
    BY <1>1, <1>19
  <2>2. CASE stretch'[g].final = stretch[g].final /\ stretch[g].settled = "committed"
    BY <1>19, <2>1, <2>2 DEF LedgerInv, DurableInv
  <2>3. CASE g = f /\ Ledger!Owns(f)
    <3>1. stretch[h].pc = "free"
      BY <1>19, <2>3 DEF LedgerInv, DurableInv, Ledger!Owns
    <3> QED BY <2>1, <3>1 DEF Seeded
  <2> QED BY <1>1, <1>19, <2>2, <2>3
<1>20. DurableInv'
  BY <1>12, <1>13, <1>16, <1>17, <1>18, <1>19 DEF DurableInv
<1> QED BY <1>2, <1>3, <1>20 DEF LedgerInv

-------------------------------------------------------------------------------
(* Steps that change who owns, what is spent, or a price *)

LEMMA LapseKeeps ==
    ASSUME Ledger!LedgerAssumption, LedgerInv, Ledger!LeaseLapses
    PROVE  LedgerInv'
<1>1. /\ store' \in StoreRow /\ store'.fence = store.fence /\ store'.row = store.row
      /\ store'.price = store.price /\ stretch' = stretch /\ leaf' = leaf
  BY DEF Ledger!LeaseLapses, LedgerInv, Types, StoreRow
<1>2. /\ \A f \in Ledger!Fence : Ledger!Usage(f)' = Ledger!Usage(f)
           /\ Excess(stretch[f])' = Excess(stretch[f])
      /\ Ledger!Total' = Ledger!Total /\ Ledger!CellTotal' = Ledger!CellTotal
  BY <1>1, SameUsage DEF Ledger!CellTotal, Excess
<1>3. Types'
  BY <1>1 DEF LedgerInv, Types
<1>4. DurableInv'
  BY <1>1, <1>2 DEF LedgerInv, DurableInv, Ledger!Owns
<1> QED BY <1>1, <1>3, <1>4 DEF LedgerInv

LEMMA AcquireKeeps ==
    ASSUME Ledger!LedgerAssumption, LedgerInv, Ledger!Acquire
    PROVE  LedgerInv'
<1> DEFINE f == store.fence + 1
<1>1. /\ f \in Ledger!Fence /\ leaf' = leaf
      /\ store' = [store EXCEPT !.fence = f, !.leased = TRUE]
      /\ stretch' = [stretch EXCEPT ![f].pc = "seed"]
  BY DEF Ledger!Acquire, Ledger!Goto
<1>2. store.fence \in Nat /\ f \in Nat /\ f > store.fence
  BY DEF LedgerInv, Types, StoreRow
<1>3. stretch[f].pc = "free" /\ stretch[f] \in StretchRow /\ StretchInv(stretch[f], leaf[f])
  BY <1>1, <1>2 DEF LedgerInv, DurableInv, Types
<1> DEFINE s == [stretch[f] EXCEPT !.pc = "seed"]
<1>4. s \in StretchRow /\ stretch' = [stretch EXCEPT ![f] = s]
  BY <1>1, <1>3 DEF StretchRow, Ledger!PC, LedgerInv, Types
<1>5. StretchInv(s, leaf[f])
  BY <1>3 DEF StretchInv, StretchRow, Young
<1>6. /\ stretch'[f] = s /\ \A g \in Ledger!Fence : g # f => stretch'[g] = stretch[g]
      /\ s.pc = "seed" /\ s.settled = stretch[f].settled /\ s.seed = stretch[f].seed
  BY <1>1, <1>3, <1>4 DEF LedgerInv, Types, StretchRow
<1>7. /\ store'.fence = f /\ store'.row = store.row /\ store'.price = store.price
      /\ store' \in StoreRow
  <2>1. store \in StoreRow /\ f \in 0..MaxStretch
    BY <1>1 DEF LedgerInv, Types, Ledger!Fence
  <2> HIDE DEF f
  <2> QED BY <1>1, <2>1 DEF StoreRow
<1>8. Types' /\ \A g \in Ledger!Fence : StretchInv(stretch'[g], leaf'[g])
  BY <1>1, <1>4, <1>5, <1>6, <1>7 DEF LedgerInv, Types
<1>9. (\A g \in Ledger!Fence : Ledger!Usage(g)' = Ledger!Usage(g))
      /\ Ledger!Total' = Ledger!Total /\ Ledger!CellTotal' = Ledger!CellTotal
  BY <1>1, <1>7, SameUsage DEF Ledger!CellTotal
<1>10. stretch[f].settled # "committed"
  BY <1>3 DEF StretchInv
<1>11. \A g \in Ledger!Fence : Ledger!Owns(g)' <=> g = f
  BY <1>7 DEF Ledger!Owns
<1> HIDE DEF f, s
<1>12. store'.row <= Ledger!Total' /\ Ledger!CellTotal' <= Ledger!Total'
  BY <1>7, <1>9 DEF LedgerInv, DurableInv
<1>13. ASSUME NEW g \in Ledger!Fence
       PROVE  /\ (g > store.fence => stretch[g].pc = "free")'
              /\ (g <= store.fence => stretch[g].pc # "free")'
  BY <1>2, <1>6, <1>7 DEF LedgerInv, DurableInv, Ledger!Fence, f
<1>14. ASSUME NEW g \in Ledger!Fence
       PROVE  /\ (stretch[g].seed + Ledger!Usage(g) <= Ledger!Total)'
              /\ (stretch[g].settled = "committed" => stretch[g].final <= store.row)'
              /\ (Ledger!Owns(g) /\ Seeded(stretch[g]) => Excess(stretch[g]) <= stretch[g].seed)'
              /\ (Ledger!Owns(g) /\ stretch[g].settled = "committed" =>
                    store.row = stretch[g].final /\ Ledger!CellTotal <= store.row)'
  BY <1>6, <1>7, <1>9, <1>10, <1>11 DEF LedgerInv, DurableInv, Seeded
<1>15. ASSUME NEW g \in Ledger!Fence,
              NEW h \in Ledger!Fence, g < h, (stretch[g].settled = "committed")',
              Seeded(stretch'[h])
       PROVE  (stretch[g].final <= stretch[h].seed)'
  BY <1>6, <1>10, <1>15 DEF LedgerInv, DurableInv, Seeded
<1>16. DurableInv'
  BY <1>12, <1>13, <1>14, <1>15 DEF DurableInv
<1> QED BY <1>8, <1>16 DEF LedgerInv

\* A launch that seeds has spent nothing, and starts from all that is durable.
LEMMA SeedKeeps ==
    ASSUME Ledger!LedgerAssumption, LedgerInv, NEW f \in Ledger!Fence, Ledger!Seed(f)
    PROVE  LedgerInv'
<1> DEFINE pc == IF Ledger!Spent(Ledger!Floor) THEN "release" ELSE "line"
           s == [stretch[f] EXCEPT !.seed = Ledger!Floor, !.tokens = Ledger!Floor, !.pc = pc]
<1>1. /\ store' = store /\ leaf' = leaf /\ stretch[f].pc = "seed"
      /\ stretch[f] \in StretchRow /\ StretchInv(stretch[f], leaf[f])
      /\ stretch' = [stretch EXCEPT ![f] = s]
  BY DEF Ledger!Seed, Ledger!At, LedgerInv, Types
<1>2. Ledger!CellTotal \in Nat /\ Ledger!Total \in Nat /\ store.row \in Int
      /\ Ledger!CellTotal <= Ledger!Total
      /\ store.row <= Ledger!Total
  <2>1. store.row \in Int
    BY DEF LedgerInv, Types, StoreRow, Ledger!None
  <2> QED BY <2>1, SumsTyped DEF LedgerInv, DurableInv
<1>3. Ledger!Floor \in Nat /\ Ledger!CellTotal <= Ledger!Floor /\ store.row <= Ledger!Floor
      /\ Ledger!Floor <= Ledger!Total
  BY <1>2 DEF Ledger!Floor, Ledger!Bigger
<1>4. s \in StretchRow /\ pc \in {"release", "line"}
  BY <1>1, <1>3 DEF StretchRow, Ledger!PC
<1>5. /\ s.seed = Ledger!Floor /\ s.tokens = Ledger!Floor /\ s.pc = pc
      /\ s.applied = stretch[f].applied
      /\ s.received = stretch[f].received /\ s.accounted = stretch[f].accounted
      /\ s.final = stretch[f].final /\ s.blind = stretch[f].blind
      /\ s.settled = stretch[f].settled
  BY <1>1 DEF StretchRow
<1> HIDE DEF s, pc
<1>6. \A c \in Cell : leaf[f][c].pc = "none" /\ leaf[f][c].used = 0 /\ s.applied[c] = 0
  <2>1. ASSUME NEW c \in Cell
        PROVE  /\ leaf[f][c].pc = "none" /\ leaf[f][c].used = 0
               /\ stretch[f].applied[c] <= 0 /\ stretch[f].applied[c] \in Nat
    BY <1>1 DEF StretchInv, Young, StretchRow
  <2> QED BY <1>5, <2>1
<1>7. SumFunction(s.applied) = 0 /\ Spend(leaf[f]) = 0
  <2>1. DOMAIN s.applied = Cell
    BY <1>4 DEF StretchRow
  <2>2. SumFunctionOnSet(s.applied, Cell) = 0
    BY <1>6, Finite, SumZero
  <2> DEFINE u == [c \in Cell |-> leaf[f][c].used]
  <2>3. \A c \in Cell : u[c] = 0
    BY <1>6
  <2>4. SumFunctionOnSet(u, Cell) = 0
    <3> HIDE DEF u
    <3> QED BY <2>3, Finite, SumZero
  <2> QED BY <2>1, <2>2, <2>4 DEF SumFunction, Spend
<1>8. Excess(s) <= Ledger!Floor
  <2> DEFINE e == [c \in Cell |-> Ledger!Bigger(0, store.price[c] - s.applied[c])]
             p == [c \in Cell |-> Ledger!Bigger(0, store.price[c])]
  <2>1. ASSUME NEW c \in Cell PROVE e[c] = p[c]
    <3>1. store.price[c] \in Int /\ s.applied[c] = 0
      BY <1>6 DEF LedgerInv, Types, StoreRow, Ledger!None
    <3> QED BY <3>1
  <2>2. e = p
    BY <2>1
  <2>3. Excess(s) = Ledger!CellTotal
    BY <2>2, LedgerSums DEF Excess, Ledger!CellTotal
  <2> QED BY <1>3, <2>3
<1>9. StretchInv(s, leaf[f])
  BY <1>1, <1>3, <1>4, <1>5, <1>6, <1>7 DEF StretchInv, Young
<1>10. stretch'[f] = s /\ \A g \in Ledger!Fence : g # f => stretch'[g] = stretch[g]
  BY <1>1 DEF LedgerInv, Types
<1>11. Types' /\ \A g \in Ledger!Fence : StretchInv(stretch'[g], leaf'[g])
  BY <1>1, <1>4, <1>9, <1>10 DEF LedgerInv, Types
<1>12. /\ \A g \in Ledger!Fence : Ledger!Usage(g)' = Ledger!Usage(g) /\ Ledger!Usage(g) \in Nat
       /\ Ledger!Total' = Ledger!Total /\ Ledger!CellTotal' = Ledger!CellTotal
       /\ Ledger!Usage(f) = 0
  BY <1>1, <1>7, SameUsage, SumsTyped DEF Ledger!CellTotal, LedgerInv
<1>13. \A g \in Ledger!Fence : Ledger!Owns(g)' <=> Ledger!Owns(g)
  BY <1>1 DEF Ledger!Owns
<1>14. /\ \A g \in Ledger!Fence : g # f => Excess(stretch[g])' = Excess(stretch[g])
       /\ Excess(stretch[f])' = Excess(s)
  BY <1>1, <1>10 DEF Excess
<1>15. stretch[f].settled # "committed" /\ s.pc # "free"
  BY <1>1, <1>4, <1>5 DEF StretchInv
<1>16. ASSUME NEW g \in Ledger!Fence
       PROVE  /\ (g > store.fence => stretch[g].pc = "free")'
              /\ (g <= store.fence => stretch[g].pc # "free")'
              /\ (stretch[g].seed + Ledger!Usage(g) <= Ledger!Total)'
              /\ (stretch[g].settled = "committed" => stretch[g].final <= store.row)'
              /\ (Ledger!Owns(g) /\ Seeded(stretch[g]) => Excess(stretch[g]) <= stretch[g].seed)'
              /\ (Ledger!Owns(g) /\ stretch[g].settled = "committed" =>
                    store.row = stretch[g].final /\ Ledger!CellTotal <= store.row)'
  <2>1. CASE g # f
    BY <1>1, <1>10, <1>12, <1>13, <1>14, <2>1 DEF LedgerInv, DurableInv
  <2>2. CASE g = f
    <3>1. ~(f > store.fence)
      BY <1>1 DEF LedgerInv, DurableInv
    <3>2. Ledger!Floor + 0 <= Ledger!Total
      BY <1>2, <1>3
    <3> QED BY <1>1, <1>3, <1>5, <1>8, <1>10, <1>12, <1>14, <1>15, <2>2, <3>1, <3>2
  <2> QED BY <2>1, <2>2
<1>17. ASSUME NEW g \in Ledger!Fence,
              NEW h \in Ledger!Fence, g < h, (stretch[g].settled = "committed")',
              Seeded(stretch'[h])
       PROVE  (stretch[g].final <= stretch[h].seed)'
  <2>1. g # f /\ stretch'[g] = stretch[g]
    BY <1>5, <1>10, <1>15, <1>17
  <2>2. CASE h = f
    <3>1. stretch[g].final <= store.row
      BY <1>17, <2>1 DEF LedgerInv, DurableInv
    <3>2. stretch[g].final \in Int
      BY DEF LedgerInv, Types, StretchRow, Ledger!None
    <3>3. stretch[g].final <= Ledger!Floor
      BY <1>2, <1>3, <3>1, <3>2
    <3> QED BY <1>5, <1>10, <2>1, <2>2, <3>3
  <2>3. CASE h # f
    BY <1>10, <1>17, <2>1, <2>3 DEF LedgerInv, DurableInv
  <2> QED BY <2>2, <2>3
<1>18. DurableInv'
  BY <1>1, <1>2, <1>12, <1>16, <1>17 DEF DurableInv
<1> QED BY <1>11, <1>18 DEF LedgerInv

\* A turn costs something, which nobody has charged yet.
LEMMA TurnKeeps ==
    ASSUME Ledger!LedgerAssumption, LedgerInv, NEW f \in Ledger!Fence,
           NEW d \in Cell, Ledger!TurnEnds(f, d)
    PROVE  LedgerInv'
<1>1. PICK n \in {0, 1} :
        leaf' = [leaf EXCEPT ![f][d] = [pc |-> "ended", used |-> @.used + n, turns |-> @.turns + 1]]
  BY DEF Ledger!TurnEnds
<1> DEFINE k == [pc |-> "ended", used |-> leaf[f][d].used + n, turns |-> leaf[f][d].turns + 1]
           l == [leaf[f] EXCEPT ![d] = k]
<1>2. /\ store' = store /\ stretch' = stretch /\ leaf[f][d].pc = "running"
      /\ leaf[f] \in [Cell -> LeafRow] /\ leaf[f][d] \in LeafRow
      /\ stretch[f] \in StretchRow /\ StretchInv(stretch[f], leaf[f])
  BY DEF Ledger!TurnEnds, LedgerInv, Types
<1>3. k \in LeafRow /\ l \in [Cell -> LeafRow]
  BY <1>2 DEF LeafRow
<1>4. leaf' = [leaf EXCEPT ![f] = l]
  BY <1>1, <1>2 DEF LedgerInv, Types
<1>5. leaf'[f] = l /\ \A g \in Ledger!Fence : g # f => leaf'[g] = leaf[g]
  BY <1>4 DEF LedgerInv, Types
<1>6. \A c \in Cell : l[c] = IF c = d THEN k ELSE leaf[f][c]
  BY <1>2
<1>7. \A c \in Cell : leaf[f][c].used \in Nat /\ l[c].used \in Nat /\ leaf[f][c].used <= l[c].used
  BY <1>2, <1>6 DEF LeafRow
<1>8. k.pc = "ended"
  OBVIOUS
<1> HIDE DEF k, l
<1>9. StretchInv(stretch[f], l)
  <2> DEFINE s == stretch[f]
  <2>1. /\ s.pc \notin Young \cup {"finalize", "write"} /\ s.final = Ledger!None
    BY <1>2 DEF StretchInv
  <2>2. ASSUME NEW c \in Cell
        PROVE  /\ s.applied[c] <= l[c].used /\ s.received[c] <= l[c].used
               /\ l[c].pc = "none" => l[c].used = 0
               /\ l[c].pc = "told" /\ ~s.blind =>
                     l[c].used <= s.received[c] \/ l[c].used <= s.applied[c]
               /\ c \in s.accounted =>
                     l[c].pc \in {"ended", "told"} /\ l[c].used <= s.applied[c]
    <3>1. s.applied[c] \in Nat /\ s.received[c] \in Nat
      BY <1>2 DEF StretchRow
    <3>2. s.applied[c] <= l[c].used /\ s.received[c] <= l[c].used
      BY <1>2, <1>7, <3>1 DEF StretchInv
    <3>3. CASE c = d
      BY <1>2, <1>6, <1>8, <3>2, <3>3 DEF StretchInv
    <3>4. CASE c # d
      BY <1>2, <1>6, <3>2, <3>4 DEF StretchInv
    <3> QED BY <3>3, <3>4
  <2> QED BY <1>2, <2>1, <2>2 DEF StretchInv, Young
<1>10. Types' /\ \A g \in Ledger!Fence : StretchInv(stretch'[g], leaf'[g])
  BY <1>2, <1>3, <1>4, <1>5, <1>9 DEF LedgerInv, Types
<1>11. /\ Ledger!Total \in Nat /\ Ledger!Total' \in Nat
       /\ \A g \in Ledger!Fence : /\ Ledger!Usage(g) \in Nat /\ Ledger!Usage(g)' \in Nat
                           /\ Ledger!Usage(g) = Spend(leaf[g])
                           /\ Ledger!Usage(g)' = Spend(leaf'[g])
  <2>1. \A g \in Ledger!Fence : Ledger!Usage(g) \in Nat /\ Ledger!Usage(g) = Spend(leaf[g])
    BY SumsTyped DEF LedgerInv
  <2>2. \A g \in Ledger!Fence : Ledger!Usage(g)' = Spend(leaf'[g])
    BY LedgerSums DEF Ledger!Usage, Spend
  <2>3. \A g \in Ledger!Fence : Ledger!Usage(g)' \in Nat
    BY <1>10, <2>2, SpendType DEF Types
  <2>4. Ledger!Total' \in Nat
    <3> DEFINE u == [g \in Ledger!Fence |-> Ledger!Usage(g)']
    <3>1. \A g \in Ledger!Fence : u[g] \in Nat
      BY <2>3
    <3>2. SumFunctionOnSet(u, Ledger!Fence) \in Nat
      <4> HIDE DEF u
      <4> QED BY <3>1, Finite, SumNat
    <3> QED BY <3>2, LedgerSums DEF Ledger!Total, SumFunction
  <2>5. Ledger!Total \in Nat
    BY SumsTyped DEF LedgerInv
  <2> QED BY <2>1, <2>2, <2>3, <2>4, <2>5
<1>12. \A g \in Ledger!Fence : g # f => Ledger!Usage(g)' = Ledger!Usage(g)
  BY <1>5, <1>11
<1>13. Ledger!Usage(f) <= Ledger!Usage(f)'
  <2> DEFINE u == [c \in Cell |-> leaf[f][c].used]
             v == [c \in Cell |-> l[c].used]
  <2>1. \A c \in Cell : u[c] \in Nat /\ v[c] \in Nat /\ u[c] <= v[c]
    BY <1>7
  <2>2. Spend(leaf[f]) = SumFunctionOnSet(u, Cell) /\ Spend(l) = SumFunctionOnSet(v, Cell)
    BY DEF Spend, SumFunction
  <2>3. SumFunctionOnSet(u, Cell) <= SumFunctionOnSet(v, Cell)
    <3> HIDE DEF u, v
    <3> QED BY <2>1, Finite, SumLess
  <2> QED BY <1>5, <1>11, <2>2, <2>3
<1>14. Ledger!Total' = Ledger!Total - Ledger!Usage(f) + Ledger!Usage(f)'
  <2> DEFINE u == [g \in Ledger!Fence |-> Ledger!Usage(g)]
             v == [g \in Ledger!Fence |-> Ledger!Usage(g)']
  <2>1. \A g \in Ledger!Fence : u[g] \in Int /\ v[g] \in Int /\ (g # f => v[g] = u[g])
    BY <1>11, <1>12
  <2>2. Ledger!Total = SumFunctionOnSet(u, Ledger!Fence)
        /\ Ledger!Total' = SumFunctionOnSet(v, Ledger!Fence)
    BY LedgerSums DEF Ledger!Total, SumFunction
  <2>3. u[f] = Ledger!Usage(f) /\ v[f] = Ledger!Usage(f)'
    OBVIOUS
  <2>4. SumFunctionOnSet(v, Ledger!Fence) = SumFunctionOnSet(u, Ledger!Fence) - u[f] + v[f]
    <3> HIDE DEF u, v
    <3> QED BY <2>1, Finite, SumUpdates
  <2> QED BY <2>2, <2>3, <2>4
<1>15. Ledger!Total <= Ledger!Total' /\ Ledger!CellTotal' = Ledger!CellTotal
  BY <1>2, <1>11, <1>13, <1>14 DEF Ledger!CellTotal
<1>16. \A g \in Ledger!Fence : (Ledger!Owns(g)' <=> Ledger!Owns(g))
       /\ Excess(stretch[g])' = Excess(stretch[g])
  BY <1>2 DEF Ledger!Owns, Excess
<1>17. ASSUME NEW g \in Ledger!Fence PROVE (stretch[g].seed + Ledger!Usage(g) <= Ledger!Total)'
  <2>1. stretch[g].seed \in Nat /\ stretch[g].seed + Ledger!Usage(g) <= Ledger!Total
    BY DEF LedgerInv, Types, StretchRow, DurableInv
  <2>2. CASE g = f
    BY <1>2, <1>11, <1>14, <2>1, <2>2
  <2>3. CASE g # f
    BY <1>2, <1>11, <1>12, <1>15, <2>1, <2>3
  <2> QED BY <2>2, <2>3
<1>18. store'.row <= Ledger!Total' /\ Ledger!CellTotal' <= Ledger!Total'
  <2>1. store.row \in Int /\ store.row <= Ledger!Total /\ Ledger!CellTotal \in Nat
        /\ Ledger!CellTotal <= Ledger!Total
    BY SumsTyped DEF LedgerInv, Types, StoreRow, Ledger!None, DurableInv
  <2> QED BY <1>2, <1>11, <1>15, <2>1
<1>19. DurableInv'
  BY <1>2, <1>15, <1>16, <1>17, <1>18 DEF LedgerInv, DurableInv
<1> QED BY <1>10, <1>19 DEF LedgerInv

\* The owner prices a cell by what it charged for it.
LEMMA StoreCellKeeps ==
    ASSUME Ledger!LedgerAssumption, LedgerInv, NEW f \in Ledger!Fence,
           NEW d \in Cell, Ledger!StoreCell(f, d)
    PROVE  LedgerInv'
<1> DEFINE price == [store.price EXCEPT ![d] = leaf[f][d].used]
<1>1. /\ stretch' = stretch /\ leaf' = leaf /\ stretch[f].pc = "running"
      /\ d \in stretch[f].accounted
      /\ store' = store
           \/ (Ledger!Owns(f) /\ store' = [store EXCEPT !.price[d] = leaf[f][d].used])
  BY DEF Ledger!StoreCell, Ledger!At
<1>2. \A g \in Ledger!Fence : Ledger!Usage(g)' = Ledger!Usage(g) /\ Ledger!Total' = Ledger!Total
  BY <1>1, SameUsage
<1>3. CASE store' = store
  <2>1. Ledger!CellTotal' = Ledger!CellTotal /\ Ledger!Total' = Ledger!Total
    BY <1>1, <1>2, <1>3 DEF Ledger!CellTotal
  <2>2. \A g \in Ledger!Fence : (Ledger!Owns(g)' <=> Ledger!Owns(g))
        /\ Excess(stretch[g])' = Excess(stretch[g])
    BY <1>1, <1>3 DEF Ledger!Owns, Excess
  <2>3. DurableInv'
    BY <1>1, <1>2, <1>3, <2>1, <2>2 DEF LedgerInv, DurableInv
  <2> QED BY <1>1, <1>3, <2>3 DEF LedgerInv, Types
<1>4. CASE Ledger!Owns(f) /\ store' = [store EXCEPT !.price[d] = leaf[f][d].used]
  <2>1. leaf[f][d].used \in Nat /\ store \in StoreRow /\ stretch[f] \in StretchRow
    BY DEF LedgerInv, Types, LeafRow
  <2>2. /\ store' \in StoreRow /\ store'.fence = store.fence /\ store'.row = store.row
        /\ \A c \in Cell : store'.price[c] = IF c = d THEN leaf[f][d].used ELSE store.price[c]
    BY <1>4, <2>1 DEF StoreRow
  <2>3. Types' /\ \A g \in Ledger!Fence : StretchInv(stretch'[g], leaf'[g])
    BY <1>1, <2>2 DEF LedgerInv, Types
  <2>4. leaf[f][d].used <= stretch[f].applied[d]
    BY <1>1 DEF LedgerInv, StretchInv
  <2>5. Excess(stretch[f])' <= Excess(stretch[f])
    <3> DEFINE u == [c \in Cell |-> Ledger!Bigger(0, store'.price[c] - stretch[f].applied[c])]
               v == [c \in Cell |-> Ledger!Bigger(0, store.price[c] - stretch[f].applied[c])]
    <3>1. ASSUME NEW c \in Cell PROVE u[c] \in Int /\ v[c] \in Int /\ u[c] <= v[c]
      <4>1. store'.price[c] \in Int /\ store.price[c] \in Int /\ stretch[f].applied[c] \in Nat
        BY <2>1, <2>2 DEF StoreRow, StretchRow, Ledger!None
      <4>2. CASE c = d
        <5>1. store'.price[c] <= stretch[f].applied[c]
          BY <2>2, <2>4, <4>2
        <5> QED BY <4>1, <5>1 DEF Ledger!Bigger
      <4>3. CASE c # d
        <5>1. store'.price[c] = store.price[c]
          BY <2>2, <4>3
        <5> QED BY <4>1, <5>1 DEF Ledger!Bigger
      <4> QED BY <4>2, <4>3
    <3>2. Excess(stretch[f])' = SumFunctionOnSet(u, Cell)
          /\ Excess(stretch[f]) = SumFunctionOnSet(v, Cell)
      BY <1>1 DEF Excess, SumFunction
    <3> HIDE DEF u, v
    <3> QED BY <3>1, <3>2, Finite, SumLess
  <2>6. Excess(stretch[f])' <= stretch[f].seed /\ Excess(stretch[f])' \in Nat
    <3>1. Excess(stretch[f]) <= stretch[f].seed /\ Excess(stretch[f]) \in Nat
      BY <1>1, <1>4, <2>1, ExcessCovers DEF LedgerInv, DurableInv, Seeded
    <3>2. Excess(stretch[f])' \in Nat
      <4> DEFINE u == [c \in Cell |-> Ledger!Bigger(0, store'.price[c] - stretch[f].applied[c])]
      <4>1. ASSUME NEW c \in Cell PROVE u[c] \in Nat
        <5>1. store'.price[c] \in Int /\ stretch[f].applied[c] \in Nat
          BY <2>1, <2>2 DEF StoreRow, StretchRow, Ledger!None
        <5> QED BY <5>1 DEF Ledger!Bigger
      <4>2. Excess(stretch[f])' = SumFunctionOnSet(u, Cell)
        BY <1>1 DEF Excess, SumFunction
      <4> HIDE DEF u
      <4> QED BY <4>1, <4>2, Finite, SumNat
    <3>3. stretch[f].seed \in Nat
      BY <2>1 DEF StretchRow
    <3> QED BY <2>5, <3>1, <3>2, <3>3
  <2>7. Ledger!CellTotal' <= Excess(stretch[f])' + SumFunction(stretch[f].applied)
    <3> DEFINE p == [c \in Cell |-> Ledger!Bigger(0, store'.price[c])]
               e == [c \in Cell |-> Ledger!Bigger(0, store'.price[c] - stretch[f].applied[c])]
               a == stretch[f].applied
               m == [c \in Cell |-> e[c] + a[c]]
    <3>1. ASSUME NEW c \in Cell
          PROVE  p[c] \in Nat /\ e[c] \in Nat /\ a[c] \in Nat /\ p[c] <= e[c] + a[c]
      <4>1. store'.price[c] \in Int /\ stretch[f].applied[c] \in Nat
        BY <2>1, <2>2 DEF StoreRow, StretchRow, Ledger!None
      <4> QED BY <4>1 DEF Ledger!Bigger
    <3>2. /\ Excess(stretch[f])' = SumFunctionOnSet(e, Cell)
          /\ Ledger!CellTotal' = SumFunctionOnSet(p, Cell)
          /\ SumFunction(stretch[f].applied) = SumFunctionOnSet(a, Cell)
      <4>1. DOMAIN stretch[f].applied = Cell
        BY <2>1 DEF StretchRow
      <4> QED BY <1>1, <4>1, LedgerSums DEF Excess, Ledger!CellTotal, SumFunction
    <3>3. \A c \in Cell : m[c] = e[c] + a[c]
      OBVIOUS
    <3> HIDE DEF p, e, a, m
    <3>4. SumFunctionOnSet(m, Cell) = SumFunctionOnSet(e, Cell) + SumFunctionOnSet(a, Cell)
      BY <3>1, <3>3, Finite, SumAdds
    <3>5. SumFunctionOnSet(p, Cell) <= SumFunctionOnSet(m, Cell)
      BY <3>1, <3>3, Finite, SumLess
    <3> QED BY <3>2, <3>4, <3>5
  <2>8. Ledger!CellTotal' <= Ledger!Total
    <3>1. SumFunction(stretch[f].applied) \in Nat
          /\ SumFunction(stretch[f].applied) <= Spend(leaf[f])
      <4>1. leaf[f] \in [Cell -> LeafRow]
            /\ \A c \in Cell : stretch[f].applied[c] <= leaf[f][c].used
        BY DEF LedgerInv, Types, StretchInv
      <4> QED BY <2>1, <4>1, ChargedSum
    <3>2. Ledger!Usage(f) \in Nat /\ Ledger!Usage(f) = Spend(leaf[f]) /\ Ledger!Total \in Nat
      BY SumsTyped DEF LedgerInv
    <3>3. stretch[f].seed \in Nat /\ stretch[f].seed + Ledger!Usage(f) <= Ledger!Total
      BY <2>1 DEF StretchRow, LedgerInv, DurableInv
    <3>4. Ledger!CellTotal' \in Int
      <4> DEFINE u == [c \in Cell |-> Ledger!Bigger(0, store'.price[c])]
      <4>1. ASSUME NEW c \in Cell PROVE u[c] \in Nat
        <5>1. store'.price[c] \in Int
          BY <2>2 DEF StoreRow, Ledger!None
        <5> QED BY <5>1 DEF Ledger!Bigger
      <4>2. Ledger!CellTotal' = SumFunctionOnSet(u, Cell)
        BY LedgerSums DEF Ledger!CellTotal, SumFunction
      <4> HIDE DEF u
      <4> QED BY <4>1, <4>2, Finite, SumNat
    <3> QED BY <2>6, <2>7, <3>1, <3>2, <3>3, <3>4
  <2>9. \A g \in Ledger!Fence : (Ledger!Owns(g)' <=> Ledger!Owns(g)) /\ (Ledger!Owns(g) => g = f)
    BY <1>4, <2>2 DEF Ledger!Owns
  <2>10. stretch[f].settled # "committed"
    BY <1>1 DEF LedgerInv, StretchInv
  <2>11. DurableInv'
    <3>1. store'.row <= Ledger!Total' /\ Ledger!CellTotal' <= Ledger!Total'
      BY <1>2, <2>2, <2>8 DEF LedgerInv, DurableInv
    <3> QED BY <1>1, <1>2, <2>2, <2>6, <2>9, <2>10, <3>1 DEF LedgerInv, DurableInv
  <2> QED BY <2>3, <2>11 DEF LedgerInv
<1> QED BY <1>1, <1>3, <1>4

-------------------------------------------------------------------------------
(* The steps of one acquisition, one by one *)

LEMMA Own ==
    ASSUME Ledger!LedgerAssumption, LedgerInv, NEW f \in Ledger!Fence
    PROVE  /\ store \in StoreRow /\ stretch[f] \in StretchRow /\ leaf[f] \in [Cell -> LeafRow]
           /\ StretchInv(stretch[f], leaf[f])
           /\ stretch = [stretch EXCEPT ![f] = stretch[f]]
           /\ leaf = [leaf EXCEPT ![f] = leaf[f]]
BY DEF LedgerInv, Types

LEMMA RowIsWritten ==
    ASSUME store \in StoreRow, NEW f \in Ledger!Fence, NEW n \in Nat
    PROVE  LET t == Ledger!RowWritten(f, n) IN
           /\ t \in StoreRow /\ t.fence = store.fence /\ t.price = store.price
           /\ t.row = IF Ledger!Owns(f) THEN n ELSE store.row
BY DEF Ledger!RowWritten, StoreRow

\* A step that changes no more than where the acquisition stands.
LEMMA GoesOn ==
    ASSUME Ledger!LedgerAssumption, LedgerInv, NEW f \in Ledger!Fence, NEW pc \in Ledger!PC,
           stretch' = [stretch EXCEPT ![f].pc = pc], leaf' = leaf,
           store' \in StoreRow, store'.fence = store.fence, store'.price = store.price,
           RowMoves(f, stretch[f]),
           store'.row = store.row \/ stretch[f].settled # "committed",
           stretch[f].pc # "free", pc \notin Young,
           pc \in {"dead"} \/ stretch[f].pc \notin {"seed", "dead"},
           pc \in {"finalize", "write"} => \A c \in Cell : leaf[f][c].pc \in {"none", "told"},
           pc = "write" => stretch[f].final # Ledger!None,
           stretch[f].final # Ledger!None => pc \in {"write", "release", "over", "dead"},
           stretch[f].settled = "committed" => pc \in {"release", "over", "dead"}
    PROVE  LedgerInv'
<1> DEFINE r == stretch[f]
           s == [r EXCEPT !.pc = pc]
<1>1. /\ r \in StretchRow /\ leaf[f] \in [Cell -> LeafRow] /\ StretchInv(r, leaf[f])
      /\ leaf' = [leaf EXCEPT ![f] = leaf[f]]
  BY Own
<1>2. /\ s \in StretchRow /\ stretch' = [stretch EXCEPT ![f] = s]
      /\ s.pc = pc /\ s.seed = r.seed /\ s.tokens = r.tokens /\ s.applied = r.applied
      /\ s.received = r.received /\ s.accounted = r.accounted /\ s.final = r.final
      /\ s.blind = r.blind /\ s.settled = r.settled
  BY <1>1 DEF StretchRow, LedgerInv, Types
<1> HIDE DEF s
<1>3. StretchInv(s, leaf[f])
  BY <1>1, <1>2 DEF StretchInv, Young
<1>4. RowMoves(f, s)
  BY <1>2 DEF RowMoves
<1>5. \A c \in Cell : r.applied[c] \in Nat
  BY <1>1 DEF StretchRow
<1>6. \A c \in Cell : leaf[f][c].used = leaf[f][c].used /\ stretch[f].applied[c] <= s.applied[c]
  BY <1>2, <1>5
<1>7. (Seeded(s) => Seeded(stretch[f])) /\ s.pc # "free"
  BY <1>2 DEF Seeded, Young
<1> QED BY <1>1, <1>2, <1>3, <1>4, <1>6, <1>7, StretchMoves

LEMMA OpenKeeps ==
    ASSUME Ledger!LedgerAssumption, LedgerInv, NEW f \in Ledger!Fence, Ledger!OpenLedger(f)
    PROVE  LedgerInv'
<1> DEFINE pc == IF Ledger!Owns(f) THEN "running" ELSE "release"
<1>1. /\ stretch[f].pc = "line" /\ leaf' = leaf /\ stretch' = [stretch EXCEPT ![f].pc = pc]
      /\ store' = Ledger!RowWritten(f, stretch[f].tokens)
  BY DEF Ledger!OpenLedger, Ledger!At, Ledger!Goto
<1>2. /\ stretch[f] \in StretchRow /\ store \in StoreRow
      /\ StretchInv(stretch[f], leaf[f])
  BY Own
<1>3. stretch[f].tokens \in Nat /\ pc \in Ledger!PC /\ pc \in {"running", "release"}
  BY <1>2 DEF StretchRow, Ledger!PC
<1>4. /\ store' \in StoreRow /\ store'.fence = store.fence /\ store'.price = store.price
      /\ RowMoves(f, stretch[f])
  BY <1>1, <1>2, <1>3, RowIsWritten DEF RowMoves
<1>5. stretch[f].settled # "committed" /\ stretch[f].final = Ledger!None
  BY <1>1, <1>2 DEF StretchInv
<1> HIDE DEF pc
<1> QED BY <1>1, <1>3, <1>4, <1>5, GoesOn DEF Young

LEMMA CloseKeeps ==
    ASSUME Ledger!LedgerAssumption, LedgerInv, NEW f \in Ledger!Fence, Ledger!Close(f)
    PROVE  LedgerInv'
<1>1. /\ stretch[f].pc = "running" /\ leaf' = leaf
      /\ stretch' = [stretch EXCEPT ![f].pc = "drain"]
      /\ store' = store \/ store' = Ledger!RowWritten(f, stretch[f].tokens)
  BY DEF Ledger!Close, Ledger!At, Ledger!Goto
<1>2. /\ stretch[f] \in StretchRow /\ store \in StoreRow
      /\ StretchInv(stretch[f], leaf[f])
  BY Own
<1>3. stretch[f].tokens \in Nat
  BY <1>2 DEF StretchRow
<1>4. /\ store' \in StoreRow /\ store'.fence = store.fence /\ store'.price = store.price
      /\ RowMoves(f, stretch[f])
  BY <1>1, <1>2, <1>3, RowIsWritten DEF RowMoves
<1>5. stretch[f].settled # "committed" /\ stretch[f].final = Ledger!None
  BY <1>1, <1>2 DEF StretchInv
<1>6. "drain" \in Ledger!PC
  BY DEF Ledger!PC
<1> QED BY <1>1, <1>4, <1>5, <1>6, GoesOn DEF Young

LEMMA DrainKeeps ==
    ASSUME Ledger!LedgerAssumption, LedgerInv, NEW f \in Ledger!Fence, Ledger!Drain(f)
    PROVE  LedgerInv'
<1>1. /\ stretch[f].pc = "drain" /\ leaf' = leaf /\ store' = store
      /\ stretch' = [stretch EXCEPT ![f].pc = "finalize"]
      /\ \A c \in Cell : leaf[f][c].pc \in {"none", "told"}
  BY DEF Ledger!Drain, Ledger!Drained, Ledger!At, Ledger!Goto
<1>2. store \in StoreRow /\ StretchInv(stretch[f], leaf[f])
  BY Own
<1>3. stretch[f].settled # "committed" /\ stretch[f].final = Ledger!None
  BY <1>1, <1>2 DEF StretchInv
<1>4. "finalize" \in Ledger!PC /\ RowMoves(f, stretch[f])
  BY <1>1 DEF Ledger!PC, RowMoves
<1> QED BY <1>1, <1>2, <1>3, <1>4, GoesOn DEF Young

LEMMA ReleaseKeeps ==
    ASSUME Ledger!LedgerAssumption, LedgerInv, NEW f \in Ledger!Fence, Ledger!Release(f)
    PROVE  LedgerInv'
<1>1. /\ stretch[f].pc = "release" /\ leaf' = leaf
      /\ stretch' = [stretch EXCEPT ![f].pc = "over"]
      /\ store' = [store EXCEPT !.leased = store.leased /\ ~Ledger!Owns(f)]
  BY DEF Ledger!Release, Ledger!At, Ledger!Goto
<1>2. store \in StoreRow
  BY Own
<1>3. /\ store' \in StoreRow /\ store'.fence = store.fence /\ store'.price = store.price
      /\ store'.row = store.row
  BY <1>1, <1>2 DEF StoreRow
<1>4. "over" \in Ledger!PC /\ RowMoves(f, stretch[f])
  BY <1>3 DEF Ledger!PC, RowMoves
<1> QED BY <1>1, <1>3, <1>4, GoesOn DEF Young

LEMMA CrashKeeps ==
    ASSUME Ledger!LedgerAssumption, LedgerInv, NEW f \in Ledger!Fence, Ledger!Crash(f)
    PROVE  LedgerInv'
<1>1. /\ stretch[f].pc # "free" /\ leaf' = leaf /\ store' = store
      /\ stretch' = [stretch EXCEPT ![f].pc = "dead"]
  BY DEF Ledger!Crash, Ledger!Goto
<1>2. store \in StoreRow
  BY Own
<1>3. "dead" \in Ledger!PC /\ RowMoves(f, stretch[f])
  BY <1>1 DEF Ledger!PC, RowMoves
<1> QED BY <1>1, <1>2, <1>3, GoesOn DEF Young

\* A step that changes no more than what is known of one leaf.
LEMMA LeafMoves ==
    ASSUME Ledger!LedgerAssumption, LedgerInv, NEW f \in Ledger!Fence, NEW d \in Cell,
           NEW pc \in {"running", "told"}, NEW s \in StretchRow,
           store' = store, stretch' = [stretch EXCEPT ![f] = s],
           leaf' = [leaf EXCEPT ![f][d].pc = pc],
           s.pc = stretch[f].pc, s.seed = stretch[f].seed, s.tokens = stretch[f].tokens,
           s.applied = stretch[f].applied, s.accounted = stretch[f].accounted,
           s.final = stretch[f].final, s.settled = stretch[f].settled,
           s.final = Ledger!None, s.pc \notin Young \cup {"finalize", "write"},
           stretch[f].blind => s.blind,
           \A c \in Cell : /\ s.received[c] <= leaf[f][c].used
                           /\ stretch[f].received[c] <= s.received[c],
           pc = "running" => d \notin s.accounted,
           pc = "told" /\ ~s.blind => leaf[f][d].used <= s.received[d]
    PROVE  LedgerInv'
<1> DEFINE k == [leaf[f][d] EXCEPT !.pc = pc]
           l == [leaf[f] EXCEPT ![d] = k]
<1>1. /\ store \in StoreRow /\ stretch[f] \in StretchRow /\ leaf[f] \in [Cell -> LeafRow]
      /\ StretchInv(stretch[f], leaf[f])
  BY Own
<1>2. k \in LeafRow /\ l \in [Cell -> LeafRow] /\ k.pc = pc /\ k.used = leaf[f][d].used
  BY <1>1 DEF LeafRow
<1>3. leaf' = [leaf EXCEPT ![f] = l]
  BY <1>1 DEF LedgerInv, Types
<1>4. \A c \in Cell : l[c] = IF c = d THEN k ELSE leaf[f][c]
  BY <1>1
<1> HIDE DEF k, l
<1>5. \A c \in Cell : l[c].used = leaf[f][c].used
  BY <1>2, <1>4
<1>6. StretchInv(s, l)
  <2>1. ASSUME NEW c \in Cell
        PROVE  /\ s.applied[c] <= l[c].used /\ s.received[c] <= l[c].used
               /\ l[c].pc = "none" => l[c].used = 0
               /\ l[c].pc = "told" /\ ~s.blind =>
                     l[c].used <= s.received[c] \/ l[c].used <= s.applied[c]
               /\ c \in s.accounted =>
                     l[c].pc \in {"ended", "told"} /\ l[c].used <= s.applied[c]
    <3>1. s.applied[c] <= l[c].used /\ s.received[c] <= l[c].used
      BY <1>1, <1>5 DEF StretchInv
    <3>2. CASE c = d
      BY <1>1, <1>2, <1>4, <1>5, <3>1, <3>2 DEF StretchInv
    <3>3. CASE c # d
      <4>1. l[c] = leaf[f][c]
        BY <1>4, <3>3
      <4>2. /\ l[c].used \in Nat /\ s.received[c] \in Nat /\ stretch[f].received[c] \in Nat
            /\ stretch[f].received[c] <= s.received[c]
        BY <1>1, <4>1 DEF StretchRow, LeafRow
      <4>3. l[c].pc = "told" /\ ~s.blind =>
              l[c].used <= stretch[f].received[c] \/ l[c].used <= s.applied[c]
        BY <1>1, <4>1 DEF StretchInv
      <4>4. l[c].used <= stretch[f].received[c] => l[c].used <= s.received[c]
        BY <4>2
      <4> QED BY <1>1, <3>1, <4>1, <4>3, <4>4 DEF StretchInv
    <3> QED BY <3>2, <3>3
  <2>2. s.settled # "committed" /\ s.tokens = s.seed + SumFunction(s.applied)
    BY <1>1 DEF StretchInv
  <2> QED BY <2>1, <2>2 DEF StretchInv, Young
<1>7. s.settled # "committed"
  BY <1>1 DEF StretchInv
<1>8. RowMoves(f, s) /\ (Seeded(s) => Seeded(stretch[f]))
  BY DEF RowMoves, Seeded
<1>9. \A c \in Cell : stretch[f].applied[c] \in Nat
  BY <1>1 DEF StretchRow
<1>10. \A c \in Cell : l[c].used = leaf[f][c].used /\ stretch[f].applied[c] <= s.applied[c]
  BY <1>5, <1>9
<1> QED BY <1>1, <1>2, <1>3, <1>6, <1>7, <1>8, <1>10, StretchMoves, ZenonT(60) DEF Young

LEMMA SpawnKeeps ==
    ASSUME Ledger!LedgerAssumption, LedgerInv, NEW f \in Ledger!Fence,
           NEW d \in Cell, Ledger!Spawn(f, d)
    PROVE  LedgerInv'
<1>1. /\ stretch[f].pc = "running" /\ leaf[f][d].pc = "none" /\ store' = store
      /\ stretch' = stretch /\ leaf' = [leaf EXCEPT ![f][d].pc = "running"]
  BY DEF Ledger!Spawn, Ledger!At
<1>2. /\ stretch[f] \in StretchRow /\ StretchInv(stretch[f], leaf[f])
      /\ stretch' = [stretch EXCEPT ![f] = stretch[f]]
  BY <1>1, Own
<1>3. stretch[f].final = Ledger!None /\ d \notin stretch[f].accounted
  BY <1>1, <1>2 DEF StretchInv
<1>4. \A c \in Cell : /\ stretch[f].received[c] <= leaf[f][c].used
                      /\ stretch[f].received[c] <= stretch[f].received[c]
  BY <1>2 DEF StretchInv, StretchRow
<1> QED BY <1>1, <1>2, <1>3, <1>4, LeafMoves DEF Young

LEMMA CorrectKeeps ==
    ASSUME Ledger!LedgerAssumption, LedgerInv, NEW f \in Ledger!Fence,
           NEW d \in Cell, Ledger!Correct(f, d)
    PROVE  LedgerInv'
<1>1. /\ stretch[f].pc = "running" /\ d \notin stretch[f].accounted /\ store' = store
      /\ stretch' = stretch /\ leaf' = [leaf EXCEPT ![f][d].pc = "running"]
  BY DEF Ledger!Correct, Ledger!At
<1>2. /\ stretch[f] \in StretchRow /\ StretchInv(stretch[f], leaf[f])
      /\ stretch' = [stretch EXCEPT ![f] = stretch[f]]
  BY <1>1, Own
<1>3. stretch[f].final = Ledger!None
  BY <1>1, <1>2 DEF StretchInv
<1>4. \A c \in Cell : /\ stretch[f].received[c] <= leaf[f][c].used
                      /\ stretch[f].received[c] <= stretch[f].received[c]
  BY <1>2 DEF StretchInv, StretchRow
<1> QED BY <1>1, <1>2, <1>3, <1>4, LeafMoves DEF Young

\* No leaf ends once the final is frozen: the drain waited for them all.
LEMMA ObserveKeeps ==
    ASSUME Ledger!LedgerAssumption, LedgerInv, NEW f \in Ledger!Fence,
           NEW d \in Cell, Ledger!Observe(f, d)
    PROVE  LedgerInv'
<1> DEFINE r == stretch[f]
           n == Ledger!Bigger(r.received[d], leaf[f][d].used)
           m == [r.received EXCEPT ![d] = n]
<1>1. /\ leaf[f][d].pc = "ended" /\ store' = store
      /\ leaf' = [leaf EXCEPT ![f][d].pc = "told"]
  BY DEF Ledger!Observe
<1>2. /\ r \in StretchRow /\ StretchInv(r, leaf[f]) /\ leaf[f] \in [Cell -> LeafRow]
  BY Own
<1>3. /\ r.pc \notin Young \cup {"finalize", "write"} /\ r.final = Ledger!None
  BY <1>1, <1>2 DEF StretchInv
<1>4. \A c \in Cell : r.received[c] \in Nat /\ leaf[f][c].used \in Nat
                      /\ r.received[c] <= leaf[f][c].used
  BY <1>2 DEF StretchInv, StretchRow, LeafRow
<1>5. CASE stretch' = [stretch EXCEPT ![f].received[d] = n]
  <2> DEFINE s == [r EXCEPT !.received = m]
  <2>1. n = leaf[f][d].used /\ m \in [Cell -> Nat]
        /\ \A c \in Cell : m[c] = IF c = d THEN leaf[f][d].used ELSE r.received[c]
    BY <1>2, <1>4 DEF Ledger!Bigger, StretchRow
  <2>2. /\ s \in StretchRow /\ s.pc = r.pc /\ s.seed = r.seed /\ s.tokens = r.tokens
        /\ s.applied = r.applied /\ s.accounted = r.accounted /\ s.final = r.final
        /\ s.settled = r.settled /\ s.blind = r.blind /\ s.received = m
    <3> HIDE DEF m
    <3> QED BY <1>2, <2>1 DEF StretchRow
  <2>3. stretch' = [stretch EXCEPT ![f] = s]
    BY <1>2, <1>5 DEF LedgerInv, Types, StretchRow
  <2>4. \A c \in Cell : s.received[c] <= leaf[f][c].used /\ r.received[c] <= s.received[c]
    <3> HIDE DEF m, s
    <3> QED BY <1>4, <2>1, <2>2
  <2>5. leaf[f][d].used <= s.received[d]
    <3> HIDE DEF m, s
    <3> QED BY <1>4, <2>1, <2>2
  <2> HIDE DEF s, m, n
  <2> QED BY <1>1, <1>3, <2>2, <2>3, <2>4, <2>5, LeafMoves
<1>6. CASE stretch' = [stretch EXCEPT ![f].blind = TRUE]
  <2> DEFINE s == [r EXCEPT !.blind = TRUE]
  <2>1. /\ s \in StretchRow /\ s.pc = r.pc /\ s.seed = r.seed /\ s.tokens = r.tokens
        /\ s.applied = r.applied /\ s.accounted = r.accounted /\ s.final = r.final
        /\ s.settled = r.settled /\ s.blind /\ s.received = r.received
    BY <1>2 DEF StretchRow
  <2>2. stretch' = [stretch EXCEPT ![f] = s]
    BY <1>2, <1>6 DEF LedgerInv, Types
  <2> HIDE DEF s
  <2>3. \A c \in Cell : s.received[c] <= leaf[f][c].used /\ r.received[c] <= s.received[c]
    BY <1>4, <2>1
  <2> QED BY <1>1, <1>3, <2>1, <2>2, <2>3, LeafMoves
<1>7. ~Ledger!Frozen(f)
  BY <1>3 DEF Ledger!Frozen
<1> QED BY <1>5, <1>6, <1>7 DEF Ledger!Observe

-------------------------------------------------------------------------------
(* Debits *)

\* A debit of what is known to have been used, of whatever of it is new: t
\* has charged it, and s is where the acquisition stands then.
Debit(f, cells, meter, t, s) ==
    /\ t = Ledger!Charged(stretch[f], cells, meter)
    /\ \A c \in cells : meter[c] <= leaf[f][c].used
    /\ s.seed = t.seed /\ s.tokens = t.tokens /\ s.applied = t.applied
    /\ s.received = t.received /\ s.blind = t.blind
    /\ stretch[f].pc \in {"running", "finalize"} /\ stretch[f].final = Ledger!None
    /\ s.pc \in {"running", "finalize", "write", "release"}
    /\ s.pc = "write" => s.final # Ledger!None
    /\ s.pc \in {"finalize", "write"} => stretch[f].pc = "finalize"
    /\ s.settled # "committed"
    /\ s.final # Ledger!None =>
         /\ stretch[f].pc = "finalize" /\ s.pc = "write" /\ s.final = s.tokens
         /\ meter = s.received /\ \A c \in Cell \ cells : meter[c] = 0
    /\ \A c \in s.accounted \ stretch[f].accounted :
         c \in cells /\ leaf[f][c].used <= meter[c] /\ leaf[f][c].pc \in {"ended", "told"}

LEMMA DebitMoves ==
    ASSUME Ledger!LedgerAssumption, LedgerInv, NEW f \in Ledger!Fence, NEW cells \in SUBSET Cell,
           NEW meter \in [Cell -> Nat], NEW t, NEW s \in StretchRow,
           Debit(f, cells, meter, t, s),
           store' = store, leaf' = leaf, stretch' = [stretch EXCEPT ![f] = s]
    PROVE  LedgerInv'
<1> USE DEF Debit
<1> DEFINE r == stretch[f]
           l == leaf[f]
<1>1. /\ store \in StoreRow /\ r \in StretchRow /\ l \in [Cell -> LeafRow]
      /\ StretchInv(r, l) /\ leaf' = [leaf EXCEPT ![f] = l]
  BY Own
<1>2. /\ t \in StretchRow /\ t.tokens = t.seed + SumFunction(t.applied)
      /\ t.seed = r.seed /\ t.received = r.received /\ t.blind = r.blind
      /\ \A c \in Cell : t.applied[c] = IF c \in cells THEN Ledger!Bigger(r.applied[c], meter[c])
                                        ELSE r.applied[c]
  <2>1. r.tokens = r.seed + SumFunction(r.applied) /\ t = Ledger!Charged(r, cells, meter)
    BY <1>1 DEF StretchInv
  <2> HIDE DEF r, Debit
  <2> QED BY <1>1, <2>1, ChargeAdds
<1>3. /\ s.seed = r.seed /\ s.received = r.received /\ s.blind = r.blind
      /\ s.tokens = s.seed + SumFunction(s.applied)
  BY <1>2
<1>4. \A c \in Cell : s.applied[c] = IF c \in cells THEN Ledger!Bigger(r.applied[c], meter[c])
                                     ELSE r.applied[c]
  BY <1>2
<1>5. ASSUME NEW c \in Cell
      PROVE  /\ r.applied[c] <= s.applied[c] /\ s.applied[c] <= l[c].used
             /\ c \in cells => meter[c] <= s.applied[c]
  <2>1. /\ r.applied[c] \in Nat /\ meter[c] \in Nat /\ l[c].used \in Nat
        /\ r.applied[c] <= l[c].used
    BY <1>1 DEF StretchRow, LeafRow, StretchInv
  <2>2. CASE c \in cells
    <3>1. meter[c] <= l[c].used /\ s.applied[c] = Ledger!Bigger(r.applied[c], meter[c])
      BY <1>4, <2>2
    <3> QED BY <2>1, <3>1 DEF Ledger!Bigger
  <2>3. CASE c \notin cells
    BY <1>4, <2>1, <2>3
  <2> QED BY <2>2, <2>3
<1>6. ASSUME NEW c \in Cell
      PROVE  /\ s.applied[c] <= l[c].used /\ s.received[c] <= l[c].used
             /\ l[c].pc = "none" => l[c].used = 0
             /\ l[c].pc = "told" /\ ~s.blind =>
                   l[c].used <= s.received[c] \/ l[c].used <= s.applied[c]
             /\ c \in s.accounted =>
                   l[c].pc \in {"ended", "told"} /\ l[c].used <= s.applied[c]
  <2>1. /\ r.applied[c] \in Nat /\ meter[c] \in Nat /\ l[c].used \in Nat /\ s.applied[c] \in Nat
    BY <1>1 DEF StretchRow, LeafRow
  <2>2. /\ s.received[c] <= l[c].used /\ (l[c].pc = "none" => l[c].used = 0)
        /\ l[c].pc = "told" /\ ~s.blind =>
              l[c].used <= s.received[c] \/ l[c].used <= r.applied[c]
        /\ c \in r.accounted => l[c].pc \in {"ended", "told"} /\ l[c].used <= r.applied[c]
    BY <1>1, <1>3 DEF StretchInv
  <2>3. l[c].used <= r.applied[c] => l[c].used <= s.applied[c]
    BY <1>5, <2>1
  <2>4. c \in s.accounted => l[c].pc \in {"ended", "told"} /\ l[c].used <= s.applied[c]
    <3>1. CASE c \in r.accounted
      BY <2>2, <2>3, <3>1
    <3>2. CASE c \in s.accounted \ r.accounted
      <4>1. c \in cells /\ l[c].used <= meter[c] /\ l[c].pc \in {"ended", "told"}
        BY <3>2
      <4>2. meter[c] <= s.applied[c]
        BY <1>5, <4>1
      <4> QED BY <2>1, <4>1, <4>2
    <3> QED BY <3>1, <3>2
  <2> QED BY <1>5, <2>2, <2>3, <2>4
<1>7. r.pc = "finalize" => \A c \in Cell : l[c].pc \in {"none", "told"}
  BY <1>1 DEF StretchInv
<1>8. ASSUME s.final # Ledger!None, ~s.blind, NEW c \in Cell PROVE l[c].used <= s.applied[c]
  <2>1. /\ l[c].used \in Nat /\ s.applied[c] \in Nat /\ s.received[c] \in Nat
        /\ meter[c] = s.received[c]
    BY <1>1, <1>8 DEF LeafRow, StretchRow
  <2>2. CASE l[c].pc = "none"
    BY <1>6, <2>1, <2>2
  <2>3. CASE l[c].pc = "told"
    <3>1. l[c].used <= s.received[c] \/ l[c].used <= s.applied[c]
      BY <1>6, <1>8, <2>3
    <3>2. CASE c \in cells
      <4>1. s.received[c] <= s.applied[c]
        BY <1>5, <2>1, <3>2
      <4> QED BY <2>1, <3>1, <4>1
    <3>3. CASE c \notin cells
      <4>1. s.received[c] = 0
        BY <1>8, <2>1, <3>3
      <4> QED BY <2>1, <3>1, <4>1
    <3> QED BY <3>2, <3>3
  <2> QED BY <1>7, <1>8, <2>2, <2>3
<1>9. StretchInv(s, l)
  BY <1>3, <1>6, <1>7, <1>8 DEF StretchInv, Young
<1>10. \A c \in Cell : l[c].used = leaf[f][c].used /\ stretch[f].applied[c] <= s.applied[c]
  BY <1>5
<1>11. RowMoves(f, s) /\ (Seeded(s) => Seeded(stretch[f])) /\ r.pc # "free" /\ s.pc # "free"
  BY DEF RowMoves, Seeded
<1> QED BY <1>1, <1>3, <1>9, <1>10, <1>11, StretchMoves

LEMMA AccountKeeps ==
    ASSUME Ledger!LedgerAssumption, LedgerInv, NEW f \in Ledger!Fence,
           NEW d \in Cell, Ledger!Account(f, d)
    PROVE  LedgerInv'
<1> DEFINE r == stretch[f]
           u == Ledger!Used(f)
           cells == {d}
           t == Ledger!Charged(r, cells, u)
           s == [t EXCEPT !.accounted = t.accounted \cup {d}]
<1>1. /\ r.pc = "running" /\ leaf[f][d].pc \in {"ended", "told"} /\ store' = store
      /\ leaf' = leaf /\ stretch' = [stretch EXCEPT ![f] = s]
  BY DEF Ledger!Account, Ledger!At
<1>2. r \in StretchRow /\ StretchInv(r, leaf[f]) /\ leaf[f] \in [Cell -> LeafRow]
  BY Own
<1>3. r.final = Ledger!None /\ r.settled # "committed"
  BY <1>1, <1>2 DEF StretchInv
<1>4. /\ u \in [Cell -> Nat] /\ cells \in SUBSET Cell /\ t = Ledger!Charged(stretch[f], cells, u)
      /\ t = Ledger!Charged(r, cells, u)
  BY <1>2 DEF Ledger!Used, LeafRow
<1>10. \A c \in Cell : (c \in cells <=> c = d) /\ u[c] = leaf[f][c].used
  BY DEF Ledger!Used
<1> HIDE DEF u, cells, t
<1>5. /\ t \in StretchRow /\ t.accounted = r.accounted /\ t.pc = r.pc
      /\ t.settled = r.settled /\ t.final = r.final
  <2>1. r.tokens = r.seed + SumFunction(r.applied)
    BY <1>2 DEF StretchInv
  <2> HIDE DEF r
  <2> QED BY <1>2, <1>4, <2>1, ChargeAdds
<1>6. /\ s \in StretchRow /\ s.pc = r.pc /\ s.settled = r.settled /\ s.final = r.final
      /\ s.accounted = r.accounted \cup {d}
      /\ s.seed = t.seed /\ s.tokens = t.tokens /\ s.applied = t.applied
      /\ s.received = t.received /\ s.blind = t.blind
  <2>1. t.accounted \cup {d} \in SUBSET Cell
    BY <1>5 DEF StretchRow
  <2> QED BY <1>5, <2>1 DEF StretchRow
<1> HIDE DEF s
<1>7. \A c \in cells : u[c] <= leaf[f][c].used
  BY <1>2, <1>4, <1>10 DEF LeafRow
<1>8. \A c \in s.accounted \ stretch[f].accounted :
        c \in cells /\ leaf[f][c].used <= u[c] /\ leaf[f][c].pc \in {"ended", "told"}
  BY <1>1, <1>2, <1>4, <1>6, <1>10 DEF LeafRow
<1>9. Debit(f, cells, u, t, s)
  BY <1>1, <1>3, <1>4, <1>6, <1>7, <1>8 DEF Debit
<1> QED BY <1>1, <1>4, <1>6, <1>9, DebitMoves

\* Both outcomes of a pass over the receipts.
LEMMA ReceiptsCharged ==
    ASSUME Ledger!LedgerAssumption, LedgerInv, NEW f \in Ledger!Fence,
           NEW cells \in SUBSET Ledger!Receipts(f),
           stretch[f].pc = "finalize",
           NEW t, t = Ledger!Charged(stretch[f], cells, stretch[f].received)
    PROVE  /\ t \in StretchRow /\ t.tries = stretch[f].tries /\ t.final = Ledger!None
           /\ t.settled \in {"no", "refused", "unconfirmed"}
           /\ t.accounted = stretch[f].accounted /\ t.received = stretch[f].received
<1> DEFINE r == stretch[f]
<1>1. r \in StretchRow /\ StretchInv(r, leaf[f])
  BY Own
<1>2. r.received \in [Cell -> Nat] /\ cells \in SUBSET Cell
      /\ r.tokens = r.seed + SumFunction(r.applied) /\ t = Ledger!Charged(r, cells, r.received)
  BY <1>1 DEF StretchRow, Ledger!Receipts, StretchInv
<1>3. r.final = Ledger!None /\ r.settled \in {"no", "refused", "unconfirmed"}
  BY <1>1 DEF StretchInv, StretchRow
<1> HIDE DEF r
<1>4. /\ t \in StretchRow /\ t.tries = r.tries /\ t.final = r.final /\ t.settled = r.settled
      /\ t.accounted = r.accounted /\ t.received = r.received
  BY <1>1, <1>2, ChargeAdds
<1> QED BY <1>3, <1>4 DEF r

LEMMA PassKeeps ==
    ASSUME Ledger!LedgerAssumption, LedgerInv, NEW f \in Ledger!Fence,
           NEW cells \in SUBSET Ledger!Receipts(f),
           stretch[f].pc = "finalize", store' = store, leaf' = leaf,
           NEW t, t = Ledger!Charged(stretch[f], cells, stretch[f].received),
           NEW s \in StretchRow, stretch' = [stretch EXCEPT ![f] = s],
           s.seed = t.seed, s.tokens = t.tokens, s.applied = t.applied, s.received = t.received,
           s.accounted = t.accounted, s.blind = t.blind,
           s.pc \in {"finalize", "write", "release"}, s.settled # "committed",
           s.pc = "write" <=> s.final # Ledger!None,
           s.pc = "write" => cells = Ledger!Receipts(f) /\ s.final = s.tokens
    PROVE  LedgerInv'
<1> DEFINE r == stretch[f]
           meter == r.received
<1>1. r \in StretchRow /\ StretchInv(r, leaf[f])
  BY Own
<1>2. r.final = Ledger!None /\ meter \in [Cell -> Nat] /\ cells \in SUBSET Cell
  BY <1>1 DEF StretchInv, StretchRow, Ledger!Receipts
<1>3. t.accounted = r.accounted /\ t.received = meter
  BY ReceiptsCharged
<1>4. \A c \in cells : meter[c] <= leaf[f][c].used
  BY <1>1, <1>2 DEF StretchInv
<1>5. ASSUME s.pc = "write", NEW c \in Cell \ cells PROVE meter[c] = 0
  BY <1>2, <1>5 DEF Ledger!Receipts
<1>6. s.accounted \ r.accounted = {} /\ s.received = meter
  BY <1>3
<1>7. Debit(f, cells, meter, t, s)
  BY <1>2, <1>4, <1>5, <1>6 DEF Debit
<1> HIDE DEF meter
<1> QED BY <1>2, <1>7, DebitMoves

LEMMA FinalizeKeeps ==
    ASSUME Ledger!LedgerAssumption, LedgerInv, NEW f \in Ledger!Fence, Ledger!Finalize(f)
    PROVE  LedgerInv'
<1> DEFINE t == Ledger!Charged(stretch[f], Ledger!Receipts(f), stretch[f].received)
           s == [t EXCEPT !.final = t.tokens, !.pc = "write", !.tries = 0]
<1>1. /\ stretch[f].pc = "finalize" /\ store' = store /\ leaf' = leaf
      /\ stretch' = [stretch EXCEPT ![f] = s]
      /\ t = Ledger!Charged(stretch[f], Ledger!Receipts(f), stretch[f].received)
      /\ Ledger!Receipts(f) \in SUBSET Ledger!Receipts(f)
  BY DEF Ledger!Finalize, Ledger!At
<1> HIDE DEF t
<1>2. t \in StretchRow /\ t.settled \in {"no", "refused", "unconfirmed"}
  BY <1>1, ReceiptsCharged
<1>3. /\ s \in StretchRow /\ s.seed = t.seed /\ s.tokens = t.tokens /\ s.applied = t.applied
      /\ s.received = t.received /\ s.accounted = t.accounted /\ s.blind = t.blind
      /\ s.pc = "write" /\ s.settled = t.settled /\ s.final = t.tokens
  BY <1>2 DEF StretchRow, Ledger!PC
<1>4. t.tokens # Ledger!None
  BY <1>2 DEF StretchRow, Ledger!None
<1> HIDE DEF s
<1> QED BY <1>1, <1>2, <1>3, <1>4, PassKeeps

LEMMA FinalizeRaisesKeeps ==
    ASSUME Ledger!LedgerAssumption, LedgerInv, NEW f \in Ledger!Fence, Ledger!FinalizeRaises(f)
    PROVE  LedgerInv'
<1>1. stretch[f].pc = "finalize" /\ store' = store /\ leaf' = leaf
  BY DEF Ledger!FinalizeRaises, Ledger!At
<1>2. PICK cells \in SUBSET Ledger!Receipts(f) :
        LET t == Ledger!Charged(stretch[f], cells, stretch[f].received) IN
        stretch' = [stretch EXCEPT ![f] =
                      [t EXCEPT !.tries = t.tries + 1,
                                !.settled = IF Ledger!LastTry(f) THEN "unconfirmed" ELSE "no",
                                !.pc = IF Ledger!LastTry(f) THEN "release" ELSE "finalize"]]
  BY DEF Ledger!FinalizeRaises
<1> DEFINE t == Ledger!Charged(stretch[f], cells, stretch[f].received)
           settled == IF Ledger!LastTry(f) THEN "unconfirmed" ELSE "no"
           pc == IF Ledger!LastTry(f) THEN "release" ELSE "finalize"
           s == [t EXCEPT !.tries = t.tries + 1, !.settled = settled, !.pc = pc]
<1>3. stretch' = [stretch EXCEPT ![f] = s]
      /\ t = Ledger!Charged(stretch[f], cells, stretch[f].received)
  BY <1>2
<1>4. settled \in {"no", "unconfirmed"} /\ pc \in {"finalize", "release"} /\ pc \in Ledger!PC
  BY DEF Ledger!PC
<1> HIDE DEF t, settled, pc
<1>5. t \in StretchRow /\ t.final = Ledger!None
  BY <1>1, <1>3, ReceiptsCharged
<1>6. /\ s \in StretchRow /\ s.seed = t.seed /\ s.tokens = t.tokens /\ s.applied = t.applied
      /\ s.received = t.received /\ s.accounted = t.accounted /\ s.blind = t.blind
      /\ s.pc = pc /\ s.settled = settled /\ s.final = t.final
  <2> DEFINE tries == t.tries + 1
  <2>1. tries \in Nat
    BY <1>5 DEF StretchRow
  <2> HIDE DEF tries
  <2> QED BY <1>4, <1>5, <2>1 DEF StretchRow, tries
<1> HIDE DEF s
<1> QED BY <1>1, <1>3, <1>4, <1>5, <1>6, PassKeeps

\* A write of the final, that is over or failed.
LEMMA SettleMoves ==
    ASSUME Ledger!LedgerAssumption, LedgerInv,
           NEW f \in Ledger!Fence, stretch[f].pc = "write", leaf' = leaf,
           store' \in {store, Ledger!RowWritten(f, stretch[f].final)},
           NEW s \in StretchRow, stretch' = [stretch EXCEPT ![f] = s],
           s.pc \in {"write", "release"}, s.seed = stretch[f].seed,
           s.tokens = stretch[f].tokens, s.applied = stretch[f].applied,
           s.received = stretch[f].received, s.accounted = stretch[f].accounted,
           s.final = stretch[f].final, s.blind = stretch[f].blind,
           s.settled = "committed" =>
             s.pc = "release" /\ Ledger!Owns(f) /\ store' = Ledger!RowWritten(f, stretch[f].final)
    PROVE  LedgerInv'
<1> DEFINE r == stretch[f]
<1>1. /\ store \in StoreRow /\ r \in StretchRow /\ leaf[f] \in [Cell -> LeafRow]
      /\ StretchInv(r, leaf[f]) /\ leaf' = [leaf EXCEPT ![f] = leaf[f]]
  BY Own
<1>2. r.final \in Nat /\ r.final = r.tokens
  BY <1>1 DEF StretchInv, StretchRow
<1>3. StretchInv(s, leaf[f])
  BY <1>1 DEF StretchInv, Young
<1>4. /\ store' \in StoreRow /\ store'.fence = store.fence /\ store'.price = store.price
      /\ RowMoves(f, s)
      /\ s.settled = "committed" => store'.row = s.final
  BY <1>1, <1>2, RowIsWritten DEF RowMoves
<1>5. \A c \in Cell : r.applied[c] \in Nat
  BY <1>1 DEF StretchRow
<1>6. \A c \in Cell : leaf[f][c].used = leaf[f][c].used /\ stretch[f].applied[c] <= s.applied[c]
  BY <1>5
<1>7. (Seeded(s) => Seeded(stretch[f])) /\ s.pc # "free"
  BY DEF Seeded
<1> QED BY <1>1, <1>2, <1>3, <1>4, <1>6, <1>7, StretchMoves

LEMMA WriteKeeps ==
    ASSUME Ledger!LedgerAssumption, LedgerInv, NEW f \in Ledger!Fence, Ledger!WriteFinal(f)
    PROVE  LedgerInv'
<1> DEFINE r == stretch[f]
           settled == IF Ledger!Owns(f) THEN "committed" ELSE "refused"
           s == [r EXCEPT !.settled = settled, !.pc = "release"]
<1>1. r \in StretchRow
  BY Own
<1>2. /\ r.pc = "write" /\ leaf' = leaf /\ store' = Ledger!RowWritten(f, r.final)
      /\ stretch' = [stretch EXCEPT ![f].settled = settled, ![f].pc = "release"]
  BY DEF Ledger!WriteFinal, Ledger!At
<1>3. settled \in {"committed", "refused"} /\ (settled = "committed" => Ledger!Owns(f))
  OBVIOUS
<1> HIDE DEF settled
<1>4. /\ s \in StretchRow /\ s.seed = r.seed /\ s.tokens = r.tokens /\ s.applied = r.applied
      /\ s.received = r.received /\ s.accounted = r.accounted /\ s.blind = r.blind
      /\ s.pc = "release" /\ s.settled = settled /\ s.final = r.final
  BY <1>1, <1>3 DEF StretchRow, Ledger!PC
<1>5. stretch' = [stretch EXCEPT ![f] = s]
  BY <1>1, <1>2 DEF LedgerInv, Types, StretchRow
<1> HIDE DEF s
<1> QED BY <1>2, <1>3, <1>4, <1>5, SettleMoves

LEMMA WriteRaisesKeeps ==
    ASSUME Ledger!LedgerAssumption, LedgerInv, NEW f \in Ledger!Fence, Ledger!WriteRaises(f)
    PROVE  LedgerInv'
<1> DEFINE r == stretch[f]
           tries == r.tries + 1
           settled == IF Ledger!LastTry(f) THEN "unconfirmed" ELSE "no"
           pc == IF Ledger!LastTry(f) THEN "release" ELSE "write"
           s == [r EXCEPT !.tries = tries, !.settled = settled, !.pc = pc]
<1>1. r \in StretchRow /\ stretch \in [Ledger!Fence -> StretchRow]
  BY Own DEF LedgerInv, Types
<1>2. /\ r.pc = "write" /\ leaf' = leaf
      /\ store' \in {store, Ledger!RowWritten(f, r.final)}
      /\ stretch' = [stretch EXCEPT ![f].tries = tries, ![f].settled = settled, ![f].pc = pc]
  BY DEF Ledger!WriteRaises, Ledger!At
<1>3. settled \in {"unconfirmed", "no"} /\ pc \in {"write", "release"} /\ pc \in Ledger!PC
  BY DEF Ledger!PC
<1>4. tries \in Nat
  BY <1>1 DEF StretchRow
<1> HIDE DEF settled, pc, tries
<1>5. stretch' = [stretch EXCEPT ![f] = s]
  BY <1>1, <1>2 DEF StretchRow
<1>6. /\ s \in StretchRow /\ s.seed = r.seed /\ s.tokens = r.tokens /\ s.applied = r.applied
      /\ s.received = r.received /\ s.accounted = r.accounted /\ s.blind = r.blind
      /\ s.pc = pc /\ s.settled = settled /\ s.final = r.final
  BY <1>1, <1>3, <1>4 DEF StretchRow
<1> HIDE DEF s
<1> QED BY <1>2, <1>3, <1>5, <1>6, SettleMoves

-------------------------------------------------------------------------------
(* The invariant, and what it says *)

LEMMA LedgerInitially == Ledger!LedgerAssumption /\ Ledger!Init => LedgerInv
<1> SUFFICES ASSUME Ledger!LedgerAssumption, Ledger!Init PROVE LedgerInv
  OBVIOUS
<1>1. Types
  BY DEF Ledger!Init, Types, StoreRow, StretchRow, LeafRow, Ledger!PC, Ledger!Nothing,
         Ledger!LedgerAssumption, Ledger!None
<1>2. ASSUME NEW f \in Ledger!Fence
      PROVE  /\ stretch[f].pc = "free" /\ stretch[f].seed = 0 /\ stretch[f].tokens = 0
             /\ stretch[f].applied = Ledger!Nothing /\ stretch[f].received = Ledger!Nothing
             /\ stretch[f].accounted = {} /\ stretch[f].final = Ledger!None
             /\ stretch[f].settled = "no" /\ ~stretch[f].blind
             /\ \A c \in Cell : leaf[f][c].pc = "none" /\ leaf[f][c].used = 0
  BY DEF Ledger!Init
<1>3. SumFunction(Ledger!Nothing) = 0
  <2>1. DOMAIN Ledger!Nothing = Cell /\ \A c \in Cell : Ledger!Nothing[c] = 0
    BY DEF Ledger!Nothing
  <2>2. SumFunctionOnSet(Ledger!Nothing, Cell) = 0
    BY <2>1, Finite, SumZero
  <2> QED BY <2>1, <2>2 DEF SumFunction
<1>4. ASSUME NEW f \in Ledger!Fence PROVE StretchInv(stretch[f], leaf[f])
  <2>1. \A c \in Cell : Ledger!Nothing[c] = 0
    BY DEF Ledger!Nothing
  <2> QED BY <1>2, <1>3, <2>1 DEF StretchInv, Young
<1>5. \A f \in Ledger!Fence : Ledger!Usage(f) = 0
  <2> SUFFICES ASSUME NEW f \in Ledger!Fence PROVE Ledger!Usage(f) = 0
    OBVIOUS
  <2> DEFINE u == [c \in Cell |-> leaf[f][c].used]
  <2>1. \A c \in Cell : u[c] = 0
    BY <1>2
  <2>2. Ledger!Usage(f) = SumFunctionOnSet(u, Cell)
    BY LedgerSums DEF Ledger!Usage, SumFunction
  <2> HIDE DEF u
  <2> QED BY <2>1, <2>2, Finite, SumZero
<1>6. Ledger!Total \in Nat
  BY <1>1, SumsTyped
<1>7. store.row = Ledger!None /\ store.fence = 0 /\ Ledger!CellTotal = 0
  <2>1. store.row = Ledger!None /\ store.fence = 0 /\ \A c \in Cell : store.price[c] = Ledger!None
    BY DEF Ledger!Init
  <2> DEFINE u == [c \in Cell |-> Ledger!Bigger(0, store.price[c])]
  <2>2. \A c \in Cell : u[c] = 0
    BY <2>1 DEF Ledger!Bigger, Ledger!None
  <2>3. Ledger!CellTotal = SumFunctionOnSet(u, Cell)
    BY LedgerSums DEF Ledger!CellTotal, SumFunction
  <2> HIDE DEF u
  <2> QED BY <2>1, <2>2, <2>3, Finite, SumZero
<1>8. \A f \in Ledger!Fence : f \in Nat /\ f > store.fence
  BY <1>7 DEF Ledger!Fence
<1>9. DurableInv
  BY <1>2, <1>5, <1>6, <1>7, <1>8 DEF DurableInv, Seeded, Ledger!None
<1> QED BY <1>1, <1>4, <1>9 DEF LedgerInv

LEMMA LedgerStep == Ledger!LedgerAssumption /\ LedgerInv /\ [Ledger!LedgerNext]_(Ledger!vars) =>
                      LedgerInv'
<1> SUFFICES ASSUME Ledger!LedgerAssumption, LedgerInv, [Ledger!LedgerNext]_(Ledger!vars)
             PROVE  LedgerInv'
  OBVIOUS
<1>1. CASE UNCHANGED Ledger!vars
  <2>1. store' = store /\ stretch' = stretch /\ leaf' = leaf
    BY <1>1 DEF Ledger!vars
  <2>2. /\ \A f \in Ledger!Fence : Ledger!Usage(f)' = Ledger!Usage(f)
             /\ Excess(stretch[f])' = Excess(stretch[f])
        /\ Ledger!Total' = Ledger!Total /\ Ledger!CellTotal' = Ledger!CellTotal
    BY <2>1, SameUsage DEF Ledger!CellTotal, Excess
  <2> QED BY <2>1, <2>2 DEF LedgerInv, Types, DurableInv, Ledger!Owns
<1>2. CASE Ledger!Acquire
  BY <1>2, AcquireKeeps
<1>3. CASE Ledger!LeaseLapses
  BY <1>3, LapseKeeps
<1>4. ASSUME NEW f \in Ledger!Fence,
             \/ Ledger!Seed(f) \/ Ledger!OpenLedger(f) \/ Ledger!Close(f) \/ Ledger!Drain(f)
             \/ Ledger!Finalize(f)
             \/ Ledger!FinalizeRaises(f) \/ Ledger!WriteFinal(f) \/ Ledger!WriteRaises(f)
             \/ Ledger!Release(f) \/ Ledger!Crash(f)
      PROVE  LedgerInv'
  BY <1>4, SeedKeeps, OpenKeeps, CloseKeeps, DrainKeeps, FinalizeKeeps, FinalizeRaisesKeeps,
     WriteKeeps, WriteRaisesKeeps, ReleaseKeeps, CrashKeeps
<1>5. ASSUME NEW f \in Ledger!Fence, NEW c \in Cell,
             \/ Ledger!Spawn(f, c) \/ Ledger!TurnEnds(f, c) \/ Ledger!Observe(f, c)
             \/ Ledger!Account(f, c) \/ Ledger!Correct(f, c) \/ Ledger!StoreCell(f, c)
      PROVE  LedgerInv'
  BY <1>5, SpawnKeeps, TurnKeeps, ObserveKeeps, AccountKeeps, CorrectKeeps, StoreCellKeeps
<1> QED BY <1>1, <1>2, <1>3, <1>4, <1>5 DEF Ledger!LedgerNext

\* What was committed was charged whole, leaf by leaf.
LEMMA InvSpends == Ledger!LedgerAssumption /\ LedgerInv => Ledger!SpendIsNeverForgotten
<1> SUFFICES ASSUME Ledger!LedgerAssumption, LedgerInv PROVE Ledger!SpendIsNeverForgotten
  OBVIOUS
<1>1. ASSUME NEW f \in Ledger!Fence, Ledger!Committed(f)
      PROVE  stretch[f].final = stretch[f].seed + Ledger!Usage(f)
  <2>1. /\ stretch[f] \in StretchRow /\ leaf[f] \in [Cell -> LeafRow]
        /\ StretchInv(stretch[f], leaf[f])
    BY Own
  <2>2. /\ stretch[f].final = stretch[f].tokens
        /\ stretch[f].tokens = stretch[f].seed + SumFunction(stretch[f].applied)
        /\ \A c \in Cell : stretch[f].applied[c] <= leaf[f][c].used
        /\ \A c \in Cell : leaf[f][c].used <= stretch[f].applied[c]
    BY <1>1, <2>1 DEF StretchInv, Ledger!Committed
  <2>3. SumFunction(stretch[f].applied) = Spend(leaf[f])
    BY <2>1, <2>2, ChargedSum
  <2>4. Ledger!Usage(f) = Spend(leaf[f])
    BY SumsTyped DEF LedgerInv
  <2> QED BY <2>2, <2>3, <2>4
<1>2. Ledger!Bigger(store.row, Ledger!CellTotal) <= Ledger!Total
  BY DEF Ledger!Bigger, LedgerInv, DurableInv
<1>3. ASSUME NEW f \in Ledger!Fence, NEW g \in Ledger!Fence, f < g, Ledger!Committed(f),
             stretch[g].pc \notin {"free", "seed", "dead"}
      PROVE  stretch[g].seed >= stretch[f].final
  <2>1. stretch[f].final <= stretch[g].seed
    BY <1>3 DEF Ledger!Committed, Seeded, LedgerInv, DurableInv
  <2>2. stretch[f].final \in Int /\ stretch[g].seed \in Int
    BY DEF LedgerInv, Types, StretchRow, Ledger!None
  <2> QED BY <2>1, <2>2
<1>4. ASSUME NEW f \in Ledger!Fence, Ledger!Owns(f), Ledger!Committed(f)
      PROVE  store.row = stretch[f].final /\ store.row >= Ledger!CellTotal
  <2>1. store.row = stretch[f].final /\ Ledger!CellTotal <= store.row
    BY <1>4 DEF Ledger!Committed, LedgerInv, DurableInv
  <2>2. store.row \in Int /\ Ledger!CellTotal \in Int
    BY SumsTyped DEF LedgerInv, Types, StoreRow, Ledger!None
  <2> QED BY <2>1, <2>2
<1> QED BY <1>1, <1>2, <1>3, <1>4 DEF Ledger!SpendIsNeverForgotten

-------------------------------------------------------------------------------
(* MCRecords' part *)

LedgerPart == part = "ledger" => LedgerInv

\* The ledger's part never leaves the invariant.
LEMMA LedgerHolds == Spec => []LedgerPart
<1> USE RecordsAssumption
<1>1. Init => LedgerPart
  BY LedgerInitially DEF Init, LedgerPart
<1>2. LedgerPart /\ [Next]_vars => LedgerPart'
  <2> SUFFICES ASSUME LedgerPart, [Next]_vars, part' = "ledger" PROVE LedgerInv'
    BY DEF LedgerPart
  <2>1. part = "ledger" /\ [Ledger!LedgerNext]_(Ledger!vars)
    <3>1. CASE Next
      BY <3>1 DEF Next
    <3>2. CASE UNCHANGED vars
      BY <3>2 DEF vars, after4, Ledger!vars
    <3> QED BY <3>1, <3>2
  <2> QED BY <2>1, LedgerStep DEF LedgerPart
<1> QED BY <1>1, <1>2, PTL DEF Spec

\* A settlement counts each leaf once and whole, whatever was retried; nothing
\* durable says more than was spent; and no stale owner or crash makes a later
\* acquisition start from less than an earlier one committed.
THEOREM RecordsRememberSpend == Spec => []SpendIsNeverForgotten
<1>1. LedgerPart => SpendIsNeverForgotten
  BY RecordsAssumption, InvSpends DEF LedgerPart, SpendIsNeverForgotten
<1> QED BY <1>1, LedgerHolds, PTL

-------------------------------------------------------------------------------
(* The notices of gateway sessions, in the names of GatewaySessions. *)

board == v1
trail == v2
nextId == v3
sessions == v4
lock == v5
live == v6
agents == v7
turn == v8
faults == v9

USE DEF board, trail, nextId, sessions, lock, live, agents, turn, faults

\* What the constants of GatewaySessions are assumed to be.
LEMMA GatewayConstants ==
    /\ TrailCap \in Nat \ {0} /\ NoToken \notin Token
    /\ {Root} \cup Turn \subseteq Owner /\ Turn \subseteq Token /\ Root \notin Turn
    /\ {"report", "error", "interrupted"} \subseteq Fact
  BY RecordsAssumption DEF Gateway!GatewayAssumption, Gateway!NoticeAssumption

(* What GatewaySessions counts with; the library's facts about it. *)
Card(S) == Gateway!Cardinality(S)

LEMMA Counts == \A S : Card(S) = Cardinality(S)
  BY DEF Card, Gateway!Cardinality, Cardinality

LEMMA CardType ==
    ASSUME NEW S, IsFiniteSet(S) PROVE Card(S) \in Nat
  BY Counts, FS_CardinalityType

LEMMA CardSubset ==
    ASSUME NEW S, IsFiniteSet(S), NEW T \in SUBSET S
    PROVE  IsFiniteSet(T) /\ Card(T) <= Card(S) /\ (Card(S) = Card(T) => S = T)
  BY Counts, FS_Subset

LEMMA CardRemoveElement ==
    ASSUME NEW S, NEW x, IsFiniteSet(S)
    PROVE  IsFiniteSet(S \ {x}) /\ Card(S \ {x}) = IF x \in S THEN Card(S) - 1 ELSE Card(S)
  BY Counts, FS_RemoveElement

LEMMA CardInterval ==
    ASSUME NEW a \in Int, NEW b \in Int
    PROVE  IsFiniteSet(a..b) /\ Card(a..b) = IF a > b THEN 0 ELSE b - a + 1
  BY Counts, FS_Interval

LEMMA CardBijection ==
    ASSUME NEW S, NEW T, IsFiniteSet(S), ExistsBijection(S, T)
    PROVE  IsFiniteSet(T) /\ Card(T) = Card(S)
  BY Counts, FS_Bijection

LEMMA CardInjection ==
    ASSUME NEW S, NEW T, NEW f \in Injection(S, T), IsFiniteSet(T)
    PROVE  /\ IsFiniteSet(S) /\ Card(S) <= Card(T)
           /\ Card(S) = Card(T) <=> f \in Surjection(S, T)
  BY Counts, FS_Injection

LEMMA CardEmptySet == Card({}) = 0
  BY Counts, FS_EmptySet

USE DEF Card

(* Ranks *)

\* Counting the smaller ones numbers the members of a finite set from zero.
LEMMA Ranks ==
    ASSUME NEW S, IsFiniteSet(S), NEW key \in [S -> Int],
           \A x, y \in S : key[x] = key[y] => x = y
    PROVE  [x \in S |-> Card({y \in S : key[y] < key[x]})]
             \in Bijection(S, 0..(Card(S) - 1))
<1> DEFINE Below(x) == {y \in S : key[y] < key[x]}
           T == 0..(Card(S) - 1)
           rank == [x \in S |-> Card(Below(x))]
<1>1. Card(S) \in Nat
  BY CardType
<1>2. ASSUME NEW x \in S
      PROVE  /\ IsFiniteSet(Below(x)) /\ Card(Below(x)) \in Nat
             /\ Card(Below(x)) < Card(S)
  <2>1. IsFiniteSet(S \ {x}) /\ Card(S \ {x}) = Card(S) - 1
    BY CardRemoveElement
  <2>2. Below(x) \in SUBSET (S \ {x})
    OBVIOUS
  <2>3. IsFiniteSet(Below(x)) /\ Card(Below(x)) <= Card(S \ {x})
    BY <2>1, <2>2, CardSubset
  <2>4. Card(Below(x)) \in Nat
    BY <2>3, CardType
  <2> HIDE DEF Below
  <2> QED BY <1>1, <2>1, <2>3, <2>4
<1>3. rank \in [S -> T]
  <2> HIDE DEF Below
  <2> QED BY <1>1, <1>2
<1>4. ASSUME NEW x \in S, NEW y \in S, key[x] < key[y]
      PROVE  Card(Below(x)) < Card(Below(y))
  <2>1. Below(x) \in SUBSET Below(y) /\ x \in Below(y) /\ x \notin Below(x)
    BY <1>4
  <2>2. Card(Below(x)) <= Card(Below(y)) /\ Card(Below(x)) # Card(Below(y))
    <3> HIDE DEF Below
    <3> QED BY <1>2, <2>1, CardSubset
  <2> HIDE DEF Below
  <2> QED BY <1>2, <2>2
<1>5. \A x, y \in S : rank[x] = rank[y] => x = y
  <2> SUFFICES ASSUME NEW x \in S, NEW y \in S, rank[x] = rank[y], x # y PROVE FALSE
    OBVIOUS
  <2>1. key[x] < key[y] \/ key[y] < key[x]
    OBVIOUS
  <2>2. Card(Below(x)) = Card(Below(y)) /\ Card(Below(x)) \in Nat
    BY <1>2
  <2> HIDE DEF Below
  <2> QED BY <1>4, <2>1, <2>2
<1>6. rank \in Injection(S, T)
  BY <1>3, <1>5, Fun_IsInj
<1>7. IsFiniteSet(T) /\ Card(T) = Card(S)
  BY <1>1, CardInterval
<1>8. rank \in Surjection(S, T)
  <2> HIDE DEF rank, T
  <2> QED BY <1>6, <1>7, CardInjection
<1>9. rank \in Bijection(S, T)
  <2> HIDE DEF rank, T
  <2> QED BY <1>6, <1>8, Fun_IsBij
<1> QED BY <1>9

\* So there is a member of each rank, and choosing one for each numbers them.
LEMMA NthExists ==
    ASSUME NEW S, IsFiniteSet(S), NEW key \in [S -> Int],
           \A x, y \in S : key[x] = key[y] => x = y
    PROVE  /\ \A i \in 1..Card(S) :
                \E x \in S : Card({y \in S : key[y] < key[x]}) = i - 1
           /\ \A nth \in [1..Card(S) -> S] :
                (\A i \in 1..Card(S) :
                   Card({y \in S : key[y] < key[nth[i]]}) = i - 1)
                => nth \in Bijection(1..Card(S), S)
<1> DEFINE rank == [x \in S |-> Card({y \in S : key[y] < key[x]})]
           T == 0..(Card(S) - 1)
<1>1. Card(S) \in Nat
  BY CardType
<1>2. rank \in Bijection(S, T)
  BY Ranks
<1>3. \A x \in S : rank[x] = Card({y \in S : key[y] < key[x]})
  OBVIOUS
<1> HIDE DEF rank
<1>4. /\ rank \in [S -> T]
      /\ \A x, y \in S : rank[x] = rank[y] => x = y
      /\ \A n \in T : \E x \in S : rank[x] = n
  <2> HIDE DEF T
  <2> QED BY <1>2, Fun_BijectionProperties
<1>5. \A i \in 1..Card(S) : i - 1 \in T
  BY <1>1
<1>6. \A n \in T : n + 1 \in 1..Card(S) /\ (n + 1) - 1 = n
  BY <1>1
<1>7. \A i \in 1..Card(S) : \E x \in S : rank[x] = i - 1
  BY <1>4, <1>5
<1>8. ASSUME NEW nth \in [1..Card(S) -> S],
             \A i \in 1..Card(S) : rank[nth[i]] = i - 1
      PROVE  nth \in Bijection(1..Card(S), S)
  <2>1. ASSUME NEW i \in 1..Card(S), NEW j \in 1..Card(S), nth[i] = nth[j]
        PROVE  i = j
    <3>1. i - 1 = j - 1
      BY <1>8, <2>1
    <3> QED BY <1>1, <3>1
  <2>2. ASSUME NEW x \in S PROVE \E i \in 1..Card(S) : nth[i] = x
    <3>1. rank[x] \in T
      BY <1>4
    <3>2. rank[x] + 1 \in 1..Card(S) /\ (rank[x] + 1) - 1 = rank[x]
      BY <1>6, <3>1
    <3>3. nth[rank[x] + 1] \in S /\ rank[nth[rank[x] + 1]] = rank[x]
      BY <1>8, <3>2
    <3> QED BY <1>4, <3>2, <3>3
  <2> QED BY <2>1, <2>2, Fun_IsBij
<1>9. \A i \in 1..Card(S) :
        \E x \in S : Card({y \in S : key[y] < key[x]}) = i - 1
  BY <1>3, <1>7
<1>10. ASSUME NEW nth \in [1..Card(S) -> S],
              \A i \in 1..Card(S) :
                 Card({y \in S : key[y] < key[nth[i]]}) = i - 1
       PROVE  nth \in Bijection(1..Card(S), S)
  BY <1>3, <1>8, <1>10
<1> QED BY <1>9, <1>10

(* Trails *)

\* The ids of some rows.
Ids(rows) == {r.id : r \in rows}

\* Rows of a board whose next id is n.
BoardRows(rows, n) ==
    /\ rows \subseteq Gateway!Row
    /\ \A r \in rows : r.id \in 1..(n - 1)
    /\ \A r, q \in rows : r.id = q.id => r = q

LEMMA BoardFinite ==
    ASSUME NEW n \in Nat, NEW rows, BoardRows(rows, n)
    PROVE  IsFiniteSet(rows)
<1> DEFINE key == [r \in rows |-> r.id]
           T == 1..(n - 1)
<1>1. IsFiniteSet(T)
  BY CardInterval
<1>2. key \in [rows -> T] /\ \A x, y \in rows : key[x] = key[y] => x = y
  BY DEF BoardRows
<1>3. key \in Injection(rows, T)
  <2> HIDE DEF key, T
  <2> QED BY <1>2, Fun_IsInj
<1> HIDE DEF key, T
<1> QED BY <1>1, <1>3, CardInjection

\* What Recorded appends: the rows in the order of their ids.
LEMMA InOrder ==
    ASSUME NEW n \in Nat, NEW rows, BoardRows(rows, n), NEW nth,
           nth = [i \in 1..Card(rows) |->
                    CHOOSE q \in rows : Card({x \in rows : x.id < q.id}) = i - 1]
    PROVE  nth \in Bijection(1..Card(rows), rows)
<1> DEFINE key == [r \in rows |-> r.id]
<1>1. IsFiniteSet(rows)
  BY BoardFinite
<1>2. key \in [rows -> Int] /\ \A x, y \in rows : key[x] = key[y] => x = y
  BY DEF BoardRows
<1>3. \A q \in rows : {y \in rows : key[y] < key[q]} = {x \in rows : x.id < q.id}
  OBVIOUS
<1> HIDE DEF key
<1>4. /\ \A i \in 1..Card(rows) :
            \E x \in rows : Card({y \in rows : key[y] < key[x]}) = i - 1
      /\ \A f \in [1..Card(rows) -> rows] :
            (\A i \in 1..Card(rows) :
               Card({y \in rows : key[y] < key[f[i]]}) = i - 1)
            => f \in Bijection(1..Card(rows), rows)
  BY <1>1, <1>2, NthExists
<1>5. ASSUME NEW i \in 1..Card(rows)
      PROVE  nth[i] \in rows /\ Card({x \in rows : x.id < nth[i].id}) = i - 1
  <2>1. \E q \in rows : Card({x \in rows : x.id < q.id}) = i - 1
    BY <1>3, <1>4
  <2>2. nth[i] = CHOOSE q \in rows : Card({x \in rows : x.id < q.id}) = i - 1
    OBVIOUS
  <2> QED BY <2>1, <2>2
<1>6. nth \in [1..Card(rows) -> rows]
  <2> DEFINE at(i) == CHOOSE q \in rows : Card({x \in rows : x.id < q.id}) = i - 1
  <2>1. nth = [i \in 1..Card(rows) |-> at(i)]
    OBVIOUS
  <2> HIDE DEF at
  <2>2. \A i \in 1..Card(rows) : at(i) \in rows
    BY <1>5, <2>1
  <2> QED BY <2>1, <2>2
<1> QED BY <1>3, <1>4, <1>5, <1>6

\* The tombstone of a row that goes, for this reason and of this turn.
Stone(r, why, tok) ==
    [id |-> r.id, owner |-> r.owner, reason |-> why,
     token |-> IF why = "acked" THEN tok ELSE r.token]

LEMMA Concatenated ==
    ASSUME NEW S, NEW a \in Seq(S), NEW b \in Seq(S)
    PROVE  a \o b \in Seq(S) /\ Len(a \o b) = Len(a) + Len(b)
  OBVIOUS

\* new is log with a tombstone for each of the rows, at the places of nth.
Numbered(nth, rows) ==
    /\ nth \in [1..Card(rows) -> rows]
    /\ \A i, j \in 1..Card(rows) : nth[i] = nth[j] => i = j
    /\ \A r \in rows : \E i \in 1..Card(rows) : nth[i] = r

Grown(log, rows, why, tok, new) ==
    \E nth : /\ Numbered(nth, rows)
             /\ new \in Seq(Gateway!Tombstone)
             /\ Len(new) = Len(log) + Card(rows)
             /\ \A k \in 1..Len(log) : new[k] = log[k]
             /\ \A i \in 1..Card(rows) : new[Len(log) + i] = Stone(nth[i], why, tok)

LEMMA RecordedRows ==
    ASSUME NEW n \in Nat, NEW log \in Seq(Gateway!Tombstone), NEW rows, BoardRows(rows, n),
           NEW why \in {"acked", "expired", "evicted"}, NEW tok \in Token \cup {NoToken}
    PROVE  Grown(log, rows, why, tok, Gateway!Recorded(log, rows, why, tok))
<1> DEFINE at(i) == CHOOSE q \in rows : Card({x \in rows : x.id < q.id}) = i - 1
           nth == [i \in 1..Card(rows) |-> at(i)]
           N == 1..Card(rows)
           new == Gateway!Recorded(log, rows, why, tok)
           tail == [i \in N |-> Stone(at(i), why, tok)]
<1>1. Card(rows) \in Nat
  BY BoardFinite, CardType
<1>2. nth \in Bijection(N, rows)
  BY InOrder
<1>3. nth \in [N -> rows] /\ Numbered(nth, rows)
  <2> HIDE DEF nth
  <2>1. /\ nth \in [N -> rows]
        /\ \A i, j \in N : nth[i] = nth[j] => i = j
        /\ \A r \in rows : \E i \in N : nth[i] = r
    <3> HIDE DEF N
    <3> QED BY <1>2, Fun_BijectionProperties
  <2> QED BY <2>1 DEF Numbered
<1>4. new = log \o tail
  BY DEF Gateway!Recorded, Stone
<1> HIDE DEF at
<1>5. \A i \in N : at(i) \in rows /\ tail[i] = Stone(nth[i], why, tok)
  BY <1>3
<1>6. \A i \in N : tail[i] \in Gateway!Tombstone
  BY <1>5 DEF BoardRows, Stone, Gateway!Row, Gateway!Tombstone
<1>7. tail \in Seq(Gateway!Tombstone) /\ Len(tail) = Card(rows)
  BY <1>1, <1>6
<1> HIDE DEF nth, tail, new
<1>8. new \in Seq(Gateway!Tombstone) /\ Len(new) = Len(log) + Card(rows)
  BY <1>4, <1>7, Concatenated
<1>9. \A k \in 1..Len(log) : new[k] = log[k]
  BY <1>4, <1>7
<1>10. \A i \in N : new[Len(log) + i] = tail[i]
  BY <1>1, <1>4, <1>7
<1> QED BY <1>3, <1>5, <1>8, <1>9, <1>10 DEF Grown, new

(* The tombstones of an owner. *)
Of(log, o) == {k \in DOMAIN log : log[k].owner = o}

LEMMA OfFinite ==
    ASSUME NEW log \in Seq(Gateway!Tombstone), NEW o
    PROVE  IsFiniteSet(Of(log, o)) /\ Card(Of(log, o)) \in Nat
<1>1. IsFiniteSet(1..Len(log)) /\ Of(log, o) \in SUBSET (1..Len(log))
  BY CardInterval DEF Of
<1> QED BY <1>1, CardSubset, CardType

(* A trail against the board whose ids are live, when the next id is n:    *)
(* no id twice, and none that is missing without an owner's trail full.    *)
TrailRows(log, ids, n) ==
    /\ log \in Seq(Gateway!Tombstone)
    /\ \A k \in DOMAIN log : log[k].id \in 1..(n - 1) /\ log[k].id \notin ids
    /\ \A j, k \in DOMAIN log : log[j].id = log[k].id => j = k

\* An issued id is live, in the trail, or past the cap of some owner's trail.
Explains(log, ids, n) ==
    \A i \in 1..(n - 1) :
       \/ i \in ids
       \/ \E k \in DOMAIN log : log[k].id = i
       \/ \E o \in Owner : TrailCap <= Card(Of(log, o))

\* Only these turns acknowledged anything.
AckedBy(log, turns) == \A k \in DOMAIN log : log[k].reason = "acked" => log[k].token \in turns

Books(log, ids, n, turns) ==
    TrailRows(log, ids, n) /\ Explains(log, ids, n) /\ AckedBy(log, turns)

\* Rows that go leave a tombstone each, and only the owners' trails that they
\* are of grow.
Departure(log, ids, n, turns, rows, why, tok) ==
    /\ n \in Nat /\ Books(log, ids, n, turns)
    /\ BoardRows(rows, n) /\ Ids(rows) \subseteq ids
    /\ why \in {"acked", "expired", "evicted"} /\ tok \in Token \cup {NoToken}
    /\ why = "acked" => tok \in turns

\* Recording what goes keeps the books, of the rows that stay.
LEMMA RecordedBooks ==
    ASSUME NEW log, NEW ids, NEW n, NEW turns, NEW rows, NEW why, NEW tok,
           Departure(log, ids, n, turns, rows, why, tok)
    PROVE  /\ Books(Gateway!Recorded(log, rows, why, tok), ids \ Ids(rows), n, turns)
           /\ \A o : o \notin Gateway!Owners(rows) =>
                Of(Gateway!Recorded(log, rows, why, tok), o) = Of(log, o)
<1> DEFINE new == Gateway!Recorded(log, rows, why, tok)
<1> USE DEF Departure
<1>1. log \in Seq(Gateway!Tombstone)
  BY DEF Books, TrailRows
<1>2. Grown(log, rows, why, tok, new)
  BY <1>1, RecordedRows
<1> HIDE DEF new
<1>3. PICK nth :
        /\ Numbered(nth, rows)
        /\ new \in Seq(Gateway!Tombstone)
        /\ Len(new) = Len(log) + Card(rows)
        /\ \A k \in 1..Len(log) : new[k] = log[k]
        /\ \A i \in 1..Card(rows) : new[Len(log) + i] = Stone(nth[i], why, tok)
  BY <1>2 DEF Grown
<1>4. Card(rows) \in Nat
  BY BoardFinite, CardType
<1>5. log \in Seq(Gateway!Tombstone) /\ Len(log) \in Nat
  BY DEF Books, TrailRows
<1> DEFINE L == Len(log)
           K == Card(rows)
<1>6. DOMAIN log = 1..L /\ DOMAIN new = 1..(L + K)
  BY <1>3, <1>5
<1>7. ASSUME NEW k \in DOMAIN new
      PROVE  \/ k \in DOMAIN log /\ new[k] = log[k]
             \/ \E i \in 1..K : k = L + i /\ nth[i] \in rows /\ new[k] = Stone(nth[i], why, tok)
  <2>1. CASE k <= L
    BY <1>3, <1>5, <1>6, <2>1
  <2>2. CASE ~(k <= L)
    <3>1. k - L \in 1..K /\ k = L + (k - L)
      BY <1>4, <1>5, <1>6, <2>2
    <3> QED BY <1>3, <3>1 DEF Numbered
  <2> QED BY <2>1, <2>2
<1>8. \A i \in 1..K : L + i \in DOMAIN new /\ L + i \notin DOMAIN log
  BY <1>4, <1>5, <1>6
<1>9. \A k \in DOMAIN log : k \in DOMAIN new /\ new[k] = log[k]
  BY <1>3, <1>4, <1>5, <1>6
<1> HIDE DEF L, K
<1>10. TrailRows(new, ids \ Ids(rows), n)
  <2>1. ASSUME NEW k \in DOMAIN new
        PROVE  new[k].id \in 1..(n - 1) /\ new[k].id \notin ids \ Ids(rows)
    <3>1. CASE k \in DOMAIN log /\ new[k] = log[k]
      BY <3>1 DEF Books, TrailRows
    <3>2. CASE \E i \in 1..K : nth[i] \in rows /\ new[k] = Stone(nth[i], why, tok)
      BY <3>2 DEF BoardRows, Stone, Ids
    <3> QED BY <1>7, <3>1, <3>2
  <2>2. ASSUME NEW j \in DOMAIN new, NEW k \in DOMAIN new, new[j].id = new[k].id
        PROVE  j = k
    <3>1. CASE j \in DOMAIN log /\ new[j] = log[j] /\ k \in DOMAIN log /\ new[k] = log[k]
      BY <2>2, <3>1 DEF Books, TrailRows
    <3>2. ASSUME NEW a \in DOMAIN log, NEW i \in 1..K, nth[i] \in rows,
                 log[a].id = Stone(nth[i], why, tok).id
          PROVE  FALSE
      BY <3>2 DEF Books, TrailRows, Stone, Ids
    <3>3. ASSUME NEW i \in 1..K, NEW h \in 1..K, nth[i] \in rows, nth[h] \in rows,
                 Stone(nth[i], why, tok).id = Stone(nth[h], why, tok).id
          PROVE  i = h
      BY <1>3, <3>3 DEF BoardRows, Stone, K, Numbered
    <3> QED BY <1>7, <2>2, <3>1, <3>2, <3>3
  <2> QED BY <1>3, <2>1, <2>2 DEF TrailRows
<1>11. \A o : Of(log, o) \subseteq Of(new, o)
  BY <1>9 DEF Of
<1>12. Explains(new, ids \ Ids(rows), n)
  <2> SUFFICES ASSUME NEW i \in 1..(n - 1), i \notin ids \ Ids(rows)
               PROVE  \/ \E k \in DOMAIN new : new[k].id = i
                      \/ \E o \in Owner : TrailCap <= Card(Of(new, o))
    BY DEF Explains
  <2>1. CASE i \in Ids(rows)
    <3>1. PICK h \in 1..K : nth[h].id = i
      BY <1>3, <2>1 DEF Ids, K, Numbered
    <3>2. new[L + h] = Stone(nth[h], why, tok)
      BY <1>3 DEF L, K
    <3> QED BY <1>8, <3>1, <3>2 DEF Stone
  <2>2. CASE \E k \in DOMAIN log : log[k].id = i
    BY <1>9, <2>2
  <2>3. ASSUME NEW o \in Owner, TrailCap <= Card(Of(log, o))
        PROVE  TrailCap <= Card(Of(new, o))
    <3>1. /\ IsFiniteSet(Of(new, o)) /\ Card(Of(new, o)) \in Nat
          /\ Card(Of(log, o)) \in Nat
      BY <1>3, <1>5, OfFinite
    <3>2. Card(Of(log, o)) <= Card(Of(new, o))
      BY <1>11, <3>1, CardSubset
    <3> QED BY <2>3, <3>1, <3>2, GatewayConstants
  <2> QED BY <2>1, <2>2, <2>3 DEF Books, Explains
<1>13. AckedBy(new, turns)
  <2> SUFFICES ASSUME NEW k \in DOMAIN new, new[k].reason = "acked" PROVE new[k].token \in turns
    BY DEF AckedBy
  <2>1. CASE k \in DOMAIN log /\ new[k] = log[k]
    BY <2>1 DEF Books, AckedBy
  <2>2. CASE \E i \in 1..K : nth[i] \in rows /\ new[k] = Stone(nth[i], why, tok)
    BY <2>2 DEF Stone
  <2> QED BY <1>7, <2>1, <2>2
<1>14. ASSUME NEW o, o \notin Gateway!Owners(rows) PROVE Of(new, o) = Of(log, o)
  <2>1. ASSUME NEW k \in Of(new, o) PROVE k \in Of(log, o)
    <3>1. CASE k \in DOMAIN log /\ new[k] = log[k]
      BY <2>1, <3>1 DEF Of
    <3>2. CASE \E i \in 1..K : nth[i] \in rows /\ new[k] = Stone(nth[i], why, tok)
      BY <1>14, <2>1, <3>2 DEF Of, Stone, Gateway!Owners
    <3> QED BY <1>7, <2>1, <3>1, <3>2 DEF Of
  <2> QED BY <1>11, <2>1
<1> QED BY <1>10, <1>12, <1>13, <1>14 DEF Books, new

\* Counting the greater ones numbers a finite set of numbers, too.
LEMMA RanksFromAbove ==
    ASSUME NEW S \in SUBSET Nat, IsFiniteSet(S)
    PROVE  [x \in S |-> Card({y \in S : y > x})] \in Bijection(S, 0..(Card(S) - 1))
<1> DEFINE key == [x \in S |-> 0 - x]
<1>1. \A x \in S : x \in Nat /\ key[x] = 0 - x
  OBVIOUS
<1>2. key \in [S -> Int] /\ \A x, y \in S : key[x] = key[y] => x = y
  <2>1. key \in [S -> Int]
    BY <1>1
  <2> HIDE DEF key
  <2>2. \A x, y \in S : key[x] = key[y] => x = y
    BY <1>1
  <2> QED BY <2>1, <2>2
<1>3. \A x \in S : {y \in S : key[y] < key[x]} = {y \in S : y > x}
  <2> HIDE DEF key
  <2>1. \A x, y \in S : key[y] < key[x] <=> y > x
    BY <1>1
  <2> QED BY <2>1
<1> HIDE DEF key
<1>4. [x \in S |-> Card({y \in S : key[y] < key[x]})] \in Bijection(S, 0..(Card(S) - 1))
  BY <1>2, Ranks
<1>5. [x \in S |-> Card({y \in S : key[y] < key[x]})] = [x \in S |-> Card({y \in S : y > x})]
  BY <1>3
<1> QED BY <1>4, <1>5

\* The first m of a numbering.
LEMMA FirstNumbers ==
    ASSUME NEW m \in Nat
    PROVE  Card(0..(m - 1)) = m
  BY CardInterval

\* The members ranked below c are c, or all there are.
LEMMA FirstOf ==
    ASSUME NEW S, IsFiniteSet(S), NEW c \in Nat, NEW m \in Nat,
           m <= c, m <= Card(S), m = c \/ m = Card(S),
           NEW rank, rank \in Bijection(S, 0..(Card(S) - 1))
    PROVE  Card({x \in S : rank[x] < c}) = m
<1> DEFINE few == {x \in S : rank[x] < c}
           all == 0..(Card(S) - 1)
           low == 0..(m - 1)
           f == [x \in few |-> rank[x]]
<1>1. Card(S) \in Nat
  BY CardType
<1>2. /\ rank \in [S -> all]
      /\ \A x, y \in S : rank[x] = rank[y] => x = y
      /\ \A k \in all : \E x \in S : rank[x] = k
  <2>1. rank \in Bijection(S, all)
    OBVIOUS
  <2> HIDE DEF all
  <2> QED BY <2>1, Fun_BijectionProperties
<1>3. f \in [few -> low]
  BY <1>1, <1>2
<1>4. \A x, y \in few : f[x] = f[y] => x = y
  BY <1>2
<1>5. \A k \in low : \E x \in few : f[x] = k
  BY <1>1, <1>2
<1>6. f \in Bijection(few, low)
  <2> HIDE DEF f, low, few
  <2> QED BY <1>3, <1>4, <1>5, Fun_IsBij
<1>7. IsFiniteSet(few)
  BY CardSubset
<1>8. Card(low) = m
  BY FirstNumbers
<1>9. Card(few) = Card(low)
  <2> HIDE DEF f, low, few
  <2>1. ExistsBijection(few, low)
    BY <1>6 DEF ExistsBijection
  <2> QED BY <1>7, <2>1, CardBijection
<1> QED BY <1>8, <1>9

\* The members fewer than c others exceed: all of a small set, c of a larger.
LEMMA Newest ==
    ASSUME NEW S \in SUBSET Nat, IsFiniteSet(S), NEW c \in Nat
    PROVE  Card({i \in S : Card({j \in S : j > i}) < c})
             = IF Card(S) <= c THEN Card(S) ELSE c
<1> DEFINE rank == [x \in S |-> Card({y \in S : y > x})]
           m == IF Card(S) <= c THEN Card(S) ELSE c
<1>1. m \in Nat
  BY CardType
<1>2. rank \in Bijection(S, 0..(Card(S) - 1))
  BY RanksFromAbove
<1>3. {i \in S : Card({j \in S : j > i}) < c} = {x \in S : rank[x] < c}
  OBVIOUS
<1>4. Card({x \in S : rank[x] < c}) = m
  <2>1. m <= c /\ m <= Card(S) /\ (m = c \/ m = Card(S))
    BY CardType
  <2> HIDE DEF rank, m
  <2> QED BY <1>1, <1>2, <2>1, FirstOf
<1> QED BY <1>3, <1>4

\* new is the kept places of log, in some order.
Picked(log, kept, new) ==
    \E nth : Numbered(nth, kept) /\ new = [k \in 1..Card(kept) |-> log[nth[k]]]

\* What Pruned keeps, in the order it was in.
LEMMA PrunedInOrder ==
    ASSUME NEW log \in Seq(Gateway!Tombstone), NEW kept \in SUBSET DOMAIN log
    PROVE  /\ IsFiniteSet(kept) /\ Card(kept) \in Nat
           /\ Picked(log, kept, [k \in 1..Card(kept) |->
                  log[CHOOSE i \in kept : Card({j \in kept : j < i}) = k - 1]])
<1> DEFINE key == [i \in kept |-> i]
           at(k) == CHOOSE i \in kept : Card({j \in kept : j < i}) = k - 1
           N == 1..Card(kept)
           nth == [k \in N |-> at(k)]
<1>1. kept \in SUBSET Nat /\ IsFiniteSet(kept)
  <2>1. IsFiniteSet(1..Len(log)) /\ kept \in SUBSET (1..Len(log))
    BY CardInterval
  <2> QED BY <2>1, CardSubset
<1>2. Card(kept) \in Nat
  BY <1>1, CardType
<1>3. key \in [kept -> Int] /\ \A x, y \in kept : key[x] = key[y] => x = y
  BY <1>1
<1>4. \A i \in kept : {y \in kept : key[y] < key[i]} = {j \in kept : j < i}
  OBVIOUS
<1> HIDE DEF key
<1>5. /\ \A k \in N : \E x \in kept : Card({y \in kept : key[y] < key[x]}) = k - 1
      /\ \A f \in [N -> kept] :
            (\A k \in N : Card({y \in kept : key[y] < key[f[k]]}) = k - 1)
            => f \in Bijection(N, kept)
  BY <1>1, <1>3, NthExists
<1>6. ASSUME NEW k \in N
      PROVE  at(k) \in kept /\ Card({j \in kept : j < at(k)}) = k - 1
  <2>1. \E i \in kept : Card({j \in kept : j < i}) = k - 1
    BY <1>4, <1>5
  <2> QED BY <2>1
<1>7. \A k \in N : log[at(k)] = log[nth[k]]
  OBVIOUS
<1> HIDE DEF at
<1>8. nth \in [N -> kept] /\ \A k \in N : Card({j \in kept : j < nth[k]}) = k - 1
  BY <1>6
<1>9. nth \in Bijection(N, kept)
  <2> HIDE DEF nth
  <2> QED BY <1>4, <1>5, <1>8
<1>10. Numbered(nth, kept)
  <2> HIDE DEF nth
  <2>1. /\ nth \in [N -> kept]
        /\ \A i, j \in N : nth[i] = nth[j] => i = j
        /\ \A r \in kept : \E i \in N : nth[i] = r
    <3> HIDE DEF N
    <3> QED BY <1>9, Fun_BijectionProperties
  <2> QED BY <2>1 DEF Numbered
<1>11. [k \in N |-> log[at(k)]] = [k \in N |-> log[nth[k]]]
  <2> HIDE DEF nth, N
  <2> QED BY <1>7
<1> QED BY <1>1, <1>2, <1>10, <1>11 DEF at, Picked

\* The newest tombstones of the given owners and all of the others'.
Kept(log, owners) ==
    {i \in DOMAIN log :
       log[i].owner \in owners
       => Card({j \in DOMAIN log : j > i /\ log[j].owner = log[i].owner}) < TrailCap}

\* Of an owner that is pruned, the newest up to the cap are kept.
LEMMA KeptOf ==
    ASSUME NEW log \in Seq(Gateway!Tombstone), NEW owners, NEW o
    PROVE  Card(Of(log, o) \cap Kept(log, owners))
             = IF o \in owners /\ TrailCap < Card(Of(log, o))
               THEN TrailCap ELSE Card(Of(log, o))
<1> DEFINE S == Of(log, o)
<1>1. S \in SUBSET Nat /\ IsFiniteSet(S) /\ Card(S) \in Nat /\ TrailCap \in Nat
  <2>1. IsFiniteSet(S) /\ Card(S) \in Nat
    BY OfFinite
  <2>2. S \in SUBSET Nat
    BY DEF Of
  <2> QED BY <2>1, <2>2, GatewayConstants
<1>2. CASE o \in owners
  <2>1. S \cap Kept(log, owners) = {i \in S : Card({j \in S : j > i}) < TrailCap}
    <3>1. \A i \in S :
            {j \in DOMAIN log : j > i /\ log[j].owner = log[i].owner} = {j \in S : j > i}
      BY DEF Of
    <3>2. \A i \in S : i \in DOMAIN log /\ log[i].owner = o
      BY DEF Of
    <3> HIDE DEF S
    <3> QED BY <1>2, <3>1, <3>2 DEF Kept
  <2>2. Card({i \in S : Card({j \in S : j > i}) < TrailCap})
          = IF Card(S) <= TrailCap THEN Card(S) ELSE TrailCap
    <3> HIDE DEF S
    <3> QED BY <1>1, Newest
  <2> HIDE DEF S
  <2>3. Card(S \cap Kept(log, owners))
          = IF Card(S) <= TrailCap THEN Card(S) ELSE TrailCap
    BY <2>1, <2>2
  <2> QED BY <1>1, <1>2, <2>3 DEF S
<1>3. CASE o \notin owners
  <2>1. S \cap Kept(log, owners) = S
    BY <1>3 DEF Of, Kept
  <2> QED BY <1>3, <2>1
<1> QED BY <1>2, <1>3

\* Pruning forgets a tombstone only of an owner whose trail stays full.
LEMMA PrunedBooks ==
    ASSUME NEW n \in Nat, NEW log, NEW ids, NEW turns, Books(log, ids, n, turns), NEW owners,
           \A o \in Owner \ owners : Card(Of(log, o)) <= TrailCap,
           NEW new, new = Gateway!Pruned(log, owners)
    PROVE  /\ Books(new, ids, n, turns)
           /\ \A o \in Owner : Card(Of(new, o)) <= TrailCap
<1> DEFINE kept == Kept(log, owners)
           K == Card(kept)
<1>1. log \in Seq(Gateway!Tombstone) /\ TrailCap \in Nat \ {0}
  BY GatewayConstants DEF Books, TrailRows
<1>2. kept \in SUBSET DOMAIN log
  BY DEF Kept
<1>3. new = [k \in 1..K |-> log[CHOOSE i \in kept : Card({j \in kept : j < i}) = k - 1]]
  BY DEF Gateway!Pruned, Kept
<1> HIDE DEF kept
<1>4. PICK nth : Numbered(nth, kept) /\ new = [k \in 1..K |-> log[nth[k]]]
  <2>1. Picked(log, kept, new)
    BY <1>1, <1>2, <1>3, PrunedInOrder
  <2> QED BY <2>1 DEF Picked
<1>5. K \in Nat
  BY <1>1, <1>2, PrunedInOrder
<1>6. /\ \A k \in 1..K : nth[k] \in kept /\ new[k] = log[nth[k]]
      /\ \A i, j \in 1..K : nth[i] = nth[j] => i = j
      /\ \A i \in kept : \E k \in 1..K : nth[k] = i
  BY <1>4 DEF Numbered
<1>7. \A i \in kept : i \in DOMAIN log /\ log[i] \in Gateway!Tombstone
  BY <1>1, <1>2
<1>8. new \in Seq(Gateway!Tombstone) /\ DOMAIN new = 1..K
  BY <1>4, <1>5, <1>6, <1>7
<1> HIDE DEF K
<1>9. TrailRows(new, ids, n)
  BY <1>6, <1>7, <1>8 DEF Books, TrailRows
<1>10. AckedBy(new, turns)
  BY <1>6, <1>7, <1>8 DEF Books, AckedBy
<1>11. ASSUME NEW o PROVE Card(Of(new, o)) = Card(Of(log, o) \cap kept)
  <2> DEFINE f == [k \in Of(new, o) |-> nth[k]]
             there == Of(log, o) \cap kept
  <2>1. f \in [Of(new, o) -> there]
    BY <1>6, <1>7, <1>8 DEF Of
  <2>2. \A i, j \in Of(new, o) : f[i] = f[j] => i = j
    BY <1>6, <1>8 DEF Of
  <2>3. \A i \in there : \E k \in Of(new, o) : f[k] = i
    <3> SUFFICES ASSUME NEW i \in there PROVE \E k \in Of(new, o) : f[k] = i
      OBVIOUS
    <3>1. PICK k \in 1..K : nth[k] = i
      BY <1>6
    <3>2. k \in Of(new, o)
      BY <1>6, <1>8, <3>1 DEF Of
    <3> QED BY <3>1, <3>2
  <2>4. f \in Bijection(Of(new, o), there)
    <3> HIDE DEF f, there
    <3> QED BY <2>1, <2>2, <2>3, Fun_IsBij
  <2>5. IsFiniteSet(Of(new, o))
    BY <1>8, OfFinite
  <2>6. Card(Of(new, o)) = Card(there)
    <3> HIDE DEF f, there
    <3>1. ExistsBijection(Of(new, o), there)
      BY <2>4 DEF ExistsBijection
    <3> QED BY <2>5, <3>1, CardBijection
  <2> QED BY <2>6
<1>12. ASSUME NEW o
       PROVE  Card(Of(new, o)) = IF o \in owners /\ TrailCap < Card(Of(log, o))
                                        THEN TrailCap ELSE Card(Of(log, o))
  BY <1>1, <1>11, KeptOf DEF kept
<1>13. \A o : Card(Of(log, o)) \in Nat
  BY <1>1, OfFinite
<1>14. \A o \in Owner : Card(Of(new, o)) <= TrailCap
  BY <1>1, <1>12, <1>13
<1>15. ASSUME NEW o \in Owner, TrailCap <= Card(Of(log, o))
       PROVE  TrailCap <= Card(Of(new, o))
  BY <1>1, <1>12, <1>13, <1>15
<1>16. ASSUME NEW k \in DOMAIN log, k \notin kept
       PROVE  \E o \in Owner : TrailCap <= Card(Of(log, o))
  <2> DEFINE o == log[k].owner
             newer == {j \in DOMAIN log : j > k /\ log[j].owner = log[k].owner}
  <2>0. log[k] \in Gateway!Tombstone
    BY <1>1
  <2>1. o \in Owner /\ ~(Card(newer) < TrailCap)
    <3>1. o \in Owner
      BY <2>0 DEF Gateway!Tombstone
    <3>2. ~(Card(newer) < TrailCap)
      BY <1>16 DEF kept, Kept
    <3> QED BY <3>1, <3>2
  <2>2. newer \in SUBSET Of(log, o)
    BY DEF Of
  <2>3. IsFiniteSet(Of(log, o)) /\ Card(Of(log, o)) \in Nat
    BY <1>1, OfFinite
  <2> HIDE DEF newer, o
  <2>4. Card(newer) <= Card(Of(log, o)) /\ Card(newer) \in Nat
    BY <2>2, <2>3, CardSubset, CardType
  <2> QED BY <1>1, <2>1, <2>3, <2>4
<1>17. Explains(new, ids, n)
  <2> SUFFICES ASSUME NEW i \in 1..(n - 1), i \notin ids
               PROVE  \/ \E k \in DOMAIN new : new[k].id = i
                      \/ \E o \in Owner : TrailCap <= Card(Of(new, o))
    BY DEF Explains
  <2>1. ASSUME NEW k \in kept, log[k].id = i PROVE \E m \in DOMAIN new : new[m].id = i
    <3>1. PICK m \in 1..K : nth[m] = k
      BY <1>6
    <3> QED BY <1>6, <1>8, <2>1, <3>1
  <2>2. (\E k \in DOMAIN log : log[k].id = i) \/ \E o \in Owner : TrailCap <= Card(Of(log, o))
    BY DEF Books, Explains
  <2> QED BY <1>15, <1>16, <2>1, <2>2
<1> QED BY <1>9, <1>10, <1>14, <1>17 DEF Books

(* Boards *)

\* A board, its trail, the next id, and the turns that may have acknowledged.
Noted(rows, log, n, turns) ==
    /\ n \in Nat \ {0} /\ BoardRows(rows, n)
    /\ Books(log, Ids(rows), n, turns)
    /\ \A o \in Owner : Card(Of(log, o)) <= TrailCap

\* Some rows of a board, and the others.
LEMMA IdsLeft ==
    ASSUME NEW n, NEW rows, BoardRows(rows, n), NEW gone \in SUBSET rows
    PROVE  /\ BoardRows(gone, n) /\ BoardRows(rows \ gone, n)
           /\ Ids(gone) \subseteq Ids(rows) /\ Ids(rows \ gone) = Ids(rows) \ Ids(gone)
  BY DEF BoardRows, Ids

\* Rows may be marked, as long as they keep their ids.
LEMMA Marked ==
    ASSUME NEW n, NEW rows, BoardRows(rows, n), NEW m \in [rows -> Gateway!Row],
           \A r \in rows : m[r].id = r.id, NEW new, new = {m[r] : r \in rows}
    PROVE  BoardRows(new, n) /\ Ids(new) = Ids(rows)
  BY DEF BoardRows, Ids

\* Rows that leave the board and are recorded keep what is noted.
LEMMA RowsGo ==
    ASSUME NEW rows, NEW log, NEW n, NEW turns, Noted(rows, log, n, turns),
           NEW gone \in SUBSET rows, NEW why, NEW tok,
           Departure(log, Ids(rows), n, turns, gone, why, tok)
    PROVE  Noted(rows \ gone,
                 Gateway!Pruned(Gateway!Recorded(log, gone, why, tok), Gateway!Owners(gone)),
                 n, turns)
<1> DEFINE full == Gateway!Recorded(log, gone, why, tok)
           new == Gateway!Pruned(full, Gateway!Owners(gone))
<1>1. /\ BoardRows(gone, n) /\ BoardRows(rows \ gone, n)
      /\ Ids(gone) \subseteq Ids(rows) /\ Ids(rows \ gone) = Ids(rows) \ Ids(gone)
  BY IdsLeft DEF Noted
<1>2. n \in Nat /\ Books(log, Ids(rows), n, turns)
  BY DEF Noted
<1>3. /\ Books(full, Ids(rows) \ Ids(gone), n, turns)
      /\ \A o : o \notin Gateway!Owners(gone) => Of(full, o) = Of(log, o)
  BY RecordedBooks
<1> HIDE DEF full
<1>4. \A o \in Owner \ Gateway!Owners(gone) : Card(Of(full, o)) <= TrailCap
  BY <1>3 DEF Noted
<1>6. /\ Books(new, Ids(rows) \ Ids(gone), n, turns)
      /\ \A o \in Owner : Card(Of(new, o)) <= TrailCap
  BY <1>2, <1>3, <1>4, PrunedBooks
<1> QED BY <1>1, <1>6 DEF Noted, full

\* claim: the expired go with a tombstone, the won are leased.
LEMMA ClaimKeepsNotes ==
    ASSUME NEW turns, Noted(board, trail, nextId, turns), NEW owners, NEW tok \in Token,
           Gateway!Claim(owners, tok)
    PROVE  Noted(board', trail', nextId', turns)
<1> DEFINE expired == {r \in board : r.expired}
           won == Gateway!Claimable(owners)
           left == board \ expired
           m == [r \in left |-> IF r \in won THEN [Gateway!Unleased(r) EXCEPT !.token = tok]
                                ELSE IF r.lapsed THEN Gateway!Unleased(r) ELSE r]
<1>1. won \in SUBSET left
  BY DEF Gateway!Claimable, Gateway!Oldest
<1>2. /\ board' = {[Gateway!Unleased(r) EXCEPT !.token = tok] : r \in won}
                  \cup {IF r.lapsed THEN Gateway!Unleased(r) ELSE r : r \in board \ (expired \cup won)}
      /\ trail' = Gateway!Pruned(Gateway!Recorded(trail, expired, "expired", NoToken),
                                 Gateway!Owners(expired))
      /\ nextId' = nextId
  BY DEF Gateway!Claim
<1>3. Noted(left, trail', nextId, turns)
  <2>1. BoardRows(expired, nextId) /\ Ids(expired) \subseteq Ids(board)
    BY IdsLeft DEF Noted
  <2>2. Departure(trail, Ids(board), nextId, turns, expired, "expired", NoToken)
    BY <2>1 DEF Departure, Noted
  <2> HIDE DEF expired
  <2>3. expired \in SUBSET board
    BY DEF expired
  <2> QED BY <1>2, <2>2, <2>3, RowsGo
<1>4. left \subseteq Gateway!Row
  BY DEF Noted, BoardRows
<1>5. \A r \in left : m[r] \in Gateway!Row /\ m[r].id = r.id
  <2> SUFFICES ASSUME NEW r \in left PROVE m[r] \in Gateway!Row /\ m[r].id = r.id
    OBVIOUS
  <2>1. r \in Gateway!Row
    BY <1>4
  <2> HIDE DEF won
  <2> QED BY <2>1 DEF Gateway!Row, Gateway!Unleased
<1> HIDE DEF won
<1>6. board' = {m[r] : r \in left}
  BY <1>1, <1>2
<1> HIDE DEF left, m
<1>7. m \in [left -> Gateway!Row]
  BY <1>5 DEF m
<1>8. BoardRows(board', nextId) /\ Ids(board') = Ids(left)
  <2>1. BoardRows(left, nextId)
    BY <1>3 DEF Noted
  <2> QED BY <1>5, <1>6, <1>7, <2>1, Marked
<1> QED BY <1>2, <1>3, <1>8 DEF Noted

\* ack, of a turn that is saved.
LEMMA AckKeepsNotes ==
    ASSUME NEW turns, Noted(board, trail, nextId, turns),
           NEW tok \in Token, tok \in turns, Gateway!Ack(tok)
    PROVE  Noted(board', trail', nextId', turns)
<1> DEFINE done == Gateway!UnderToken(tok)
<1>1. done \in SUBSET board
  BY DEF Gateway!UnderToken
<1>2. /\ board' = board \ done /\ nextId' = nextId
      /\ trail' = Gateway!Pruned(Gateway!Recorded(trail, done, "acked", tok), Gateway!Owners(done))
  BY DEF Gateway!Ack
<1> HIDE DEF done
<1>3. BoardRows(done, nextId) /\ Ids(done) \subseteq Ids(board)
  BY <1>1, IdsLeft DEF Noted
<1>4. Departure(trail, Ids(board), nextId, turns, done, "acked", tok)
  BY <1>3 DEF Departure, Noted
<1> QED BY <1>1, <1>2, <1>4, RowsGo

\* A step that marks rows and leaves the trail alone.
LEMMA MarksKeepNotes ==
    ASSUME NEW turns, Noted(board, trail, nextId, turns), NEW m \in [board -> Gateway!Row],
           \A r \in board : m[r].id = r.id, board' = {m[r] : r \in board},
           UNCHANGED <<trail, nextId>>
    PROVE  Noted(board', trail', nextId', turns)
<1>1. BoardRows(board, nextId)
  BY DEF Noted
<1>2. BoardRows(board', nextId) /\ Ids(board') = Ids(board)
  BY <1>1, Marked
<1> QED BY <1>2 DEF Noted

\* release takes no row away.
LEMMA ReleaseKeepsNotes ==
    ASSUME NEW turns, Noted(board, trail, nextId, turns), NEW tok, Gateway!Release(tok)
    PROVE  Noted(board', trail', nextId', turns)
<1> DEFINE m == [r \in board |-> IF r.token = tok THEN Gateway!Unleased(r) ELSE r]
<1>1. \A r \in board : r \in Gateway!Row
  BY DEF Noted, BoardRows
<1>2. \A r \in board : m[r] \in Gateway!Row /\ m[r].id = r.id
  BY <1>1 DEF Gateway!Row, Gateway!Unleased
<1>3. board' = {m[r] : r \in board} /\ UNCHANGED <<trail, nextId>>
  BY DEF Gateway!Release
<1>4. m \in [board -> Gateway!Row]
  BY <1>2
<1> HIDE DEF m
<1> QED BY <1>2, <1>3, <1>4, MarksKeepNotes

\* A lapsed lease takes no row away.
LEMMA LapseKeepsNotes ==
    ASSUME NEW turns, Noted(board, trail, nextId, turns), NEW tok, Gateway!Lapse(tok)
    PROVE  Noted(board', trail', nextId', turns)
<1> DEFINE m == [r \in board |-> IF r.token = tok THEN [r EXCEPT !.lapsed = TRUE] ELSE r]
<1>1. \A r \in board : r \in Gateway!Row
  BY DEF Noted, BoardRows
<1>2. \A r \in board : m[r] \in Gateway!Row /\ m[r].id = r.id
  BY <1>1 DEF Gateway!Row
<1>3. board' = {m[r] : r \in board} /\ UNCHANGED <<trail, nextId>>
  BY DEF Gateway!Lapse
<1>4. m \in [board -> Gateway!Row]
  BY <1>2
<1> HIDE DEF m
<1> QED BY <1>2, <1>3, <1>4, MarksKeepNotes

\* Nor does a lifetime that ends, before somebody looks.
LEMMA ExpireKeepsNotes ==
    ASSUME NEW turns, Noted(board, trail, nextId, turns), NEW row, Gateway!Expire(row)
    PROVE  Noted(board', trail', nextId', turns)
<1> DEFINE m == [r \in board |-> IF r = row THEN [r EXCEPT !.expired = TRUE] ELSE r]
<1>1. \A r \in board : r \in Gateway!Row
  BY DEF Noted, BoardRows
<1>2. \A r \in board : m[r] \in Gateway!Row /\ m[r].id = r.id
  BY <1>1 DEF Gateway!Row
<1>3. board' = {m[r] : r \in board} /\ UNCHANGED <<trail, nextId>>
  BY DEF Gateway!Expire
<1>4. m \in [board -> Gateway!Row]
  BY <1>2
<1> HIDE DEF m
<1> QED BY <1>2, <1>3, <1>4, MarksKeepNotes

\* The next notice is explained by being on the board.
LEMMA OneMore ==
    ASSUME NEW n \in Nat \ {0}, NEW log, NEW ids, NEW turns, Books(log, ids, n, turns)
    PROVE  Books(log, ids \cup {n}, n + 1, turns)
<1>1. \A i : i \in 1..(n + 1 - 1) <=> i \in 1..(n - 1) \/ i = n
  OBVIOUS
<1>2. n \notin 1..(n - 1)
  OBVIOUS
<1>3. TrailRows(log, ids \cup {n}, n + 1)
  BY <1>1, <1>2 DEF Books, TrailRows
<1>4. Explains(log, ids \cup {n}, n + 1)
  BY <1>1 DEF Books, Explains
<1> QED BY <1>3, <1>4 DEF Books

\* publish: the expired and the evicted go, the new row has a new id.
LEMMA PublishKeepsNotes ==
    ASSUME NEW turns, Noted(board, trail, nextId, turns), NEW o \in Owner, NEW f \in Fact,
           Gateway!Publish(o, f)
    PROVE  Noted(board', trail', nextId', turns)
<1> DEFINE dead == {r \in board : r.owner = o /\ r.fact = f /\ r.expired}
           kept == board \ dead
           mine == {r \in kept : r.owner = o}
           overflow == Card(mine) + 1 - Cap
           victims == Gateway!Oldest({r \in mine : Gateway!Evictable(r)}, overflow)
           once == Gateway!Recorded(trail, dead, "expired", NoToken)
           log == Gateway!Recorded(once, victims, "evicted", NoToken)
           new == [id |-> nextId, owner |-> o, fact |-> f, token |-> NoToken,
                   lapsed |-> FALSE, expired |-> FALSE]
<1>1. CASE UNCHANGED Gateway!noticeVars
  BY <1>1 DEF Gateway!noticeVars
<1>2. CASE /\ board' = (kept \ victims) \cup {new}
           /\ trail' = Gateway!Pruned(log, {o})
           /\ nextId' = nextId + 1
  <2>1. /\ dead \in SUBSET board /\ Gateway!Owners(dead) \subseteq {o}
        /\ victims \in SUBSET kept /\ Gateway!Owners(victims) \subseteq {o}
    BY DEF Gateway!Oldest, Gateway!Owners
  <2>2. new \in Gateway!Row /\ new.id = nextId
    BY DEF Gateway!Row, Noted
  <2> HIDE DEF dead, kept, victims, new
  <2>3. BoardRows(board, nextId) /\ nextId \in Nat \ {0}
        /\ Books(trail, Ids(board), nextId, turns)
    BY DEF Noted
  <2>4. /\ BoardRows(dead, nextId) /\ BoardRows(kept, nextId)
        /\ Ids(dead) \subseteq Ids(board) /\ Ids(kept) = Ids(board) \ Ids(dead)
    BY <2>1, <2>3, IdsLeft DEF kept
  <2>5. /\ BoardRows(victims, nextId) /\ BoardRows(kept \ victims, nextId)
        /\ Ids(victims) \subseteq Ids(kept) /\ Ids(kept \ victims) = Ids(kept) \ Ids(victims)
    BY <2>1, <2>4, IdsLeft
  <2>6. /\ Books(once, Ids(kept), nextId, turns)
        /\ \A p : p \notin Gateway!Owners(dead) => Of(once, p) = Of(trail, p)
    <3>1. Departure(trail, Ids(board), nextId, turns, dead, "expired", NoToken)
      BY <2>3, <2>4 DEF Departure
    <3>2. /\ Books(once, Ids(board) \ Ids(dead), nextId, turns)
          /\ \A p : p \notin Gateway!Owners(dead) => Of(once, p) = Of(trail, p)
      BY <3>1, RecordedBooks, SMTT(30)
    <3> QED BY <2>4, <3>2
  <2> HIDE DEF once
  <2>7. /\ Books(log, Ids(kept \ victims), nextId, turns)
        /\ \A p : p \notin Gateway!Owners(victims) => Of(log, p) = Of(once, p)
    <3>1. Departure(once, Ids(kept), nextId, turns, victims, "evicted", NoToken)
      BY <2>3, <2>5, <2>6 DEF Departure
    <3>2. /\ Books(log, Ids(kept) \ Ids(victims), nextId, turns)
          /\ \A p : p \notin Gateway!Owners(victims) => Of(log, p) = Of(once, p)
      BY <3>1, RecordedBooks, SMTT(30)
    <3> QED BY <2>5, <3>2
  <2> HIDE DEF log
  <2>8. \A p \in Owner \ {o} : Card(Of(log, p)) <= TrailCap
    BY <2>1, <2>6, <2>7 DEF Noted
  <2>9. /\ Books(trail', Ids(kept \ victims), nextId, turns)
        /\ \A p \in Owner : Card(Of(trail', p)) <= TrailCap
    BY <1>2, <2>3, <2>7, <2>8, PrunedBooks
  <2>10. Ids(board') = Ids(kept \ victims) \cup {nextId}
    BY <1>2, <2>2 DEF Ids
  <2>11. BoardRows(board', nextId')
    BY <1>2, <2>2, <2>3, <2>5 DEF BoardRows
  <2>12. Books(trail', Ids(board'), nextId', turns)
    <3>1. Books(trail', Ids(kept \ victims) \cup {nextId}, nextId + 1, turns)
      BY <2>3, <2>9, OneMore
    <3> QED BY <1>2, <2>10, <3>1
  <2>13. nextId' \in Nat \ {0}
    BY <1>2, <2>3
  <2> QED BY <2>9, <2>11, <2>12, <2>13 DEF Noted
<1> QED BY <1>1, <1>2 DEF Gateway!Publish

(* Turns *)

\* A session, as create, end and the appends leave it.
SessionRow == [parent : Gateway!Session \cup {Gateway!NoSession}, ended : BOOLEAN,
               transcript : Seq(Turn), cost : SUBSET Turn]

\* Every part of the state in its type, and live objects of sessions that exist.
Shapes ==
    /\ sessions \in [DOMAIN sessions -> SessionRow] /\ DOMAIN sessions \subseteq Gateway!Session
    /\ live \in [Process -> SUBSET Gateway!Object] /\ agents \in Nat
    /\ turn \in [Turn -> Gateway!TurnRow]
    /\ \A p \in Process : \A o \in live[p] : o.session \in DOMAIN sessions

\* The turn's messages are in some transcript.
InTranscript(t) == \E s \in DOMAIN sessions : t \in Gateway!Range(sessions[s].transcript)

(* What a turn relies on: its session exists, its child does only once it  *)
(* made it, and it is committed, or about to acknowledge, when its         *)
(* messages are in a transcript.                                           *)
TurnInv(t) ==
    /\ turn[t].pc # "new" => turn[t].object.session \in DOMAIN sessions
    /\ turn[t].pc \in {"new", "got", "loaded", "talking", "persist", "locked", "ended"}
         => t \notin DOMAIN sessions
    /\ turn[t].pc \in {"created", "saved"} => t \in DOMAIN sessions
    /\ turn[t].committed => InTranscript(t)
    /\ turn[t].pc = "ack" => turn[t].committed
    /\ turn[t].pc = "publish" => turn[t].outcome \in {"error", "interrupted"}

\* The turns an acknowledgement may name.
Saved == {t \in Turn : turn[t].committed /\ InTranscript(t)}

\* The invariant of the gateway.
GatewayInv ==
    /\ Shapes
    /\ \A t \in Turn : TurnInv(t)
    /\ Noted(board, trail, nextId, Saved)

\* No transcript loses a message.
Grow ==
    /\ DOMAIN sessions \subseteq DOMAIN sessions'
    /\ \A s \in DOMAIN sessions :
          Gateway!Range(sessions[s].transcript) \subseteq Gateway!Range(sessions'[s].transcript)

\* What is in a transcript stays in one.
LEMMA GrowWritten ==
    ASSUME Grow, NEW t, InTranscript(t) PROVE InTranscript(t)'
  BY DEF Grow, InTranscript

\* What a step needs to say when it is one turn's.
LEMMA TurnMoves ==
    ASSUME GatewayInv, Shapes', Grow, NEW t \in Turn, TurnInv(t)',
           turn[t].committed => turn'[t].committed,
           \A u \in Turn \ {t} : turn'[u] = turn[u],
           DOMAIN sessions' \subseteq DOMAIN sessions \cup {t}
    PROVE  (\A u \in Turn : TurnInv(u)') /\ Saved \subseteq Saved'
<1>1. ASSUME NEW u \in Turn \ {t} PROVE TurnInv(u)'
  <2>1. TurnInv(u) /\ turn'[u] = turn[u]
    BY DEF GatewayInv
  <2>2. u \in DOMAIN sessions <=> u \in DOMAIN sessions'
    BY DEF Grow
  <2>3. InTranscript(u) => InTranscript(u)'
    BY GrowWritten
  <2>4. turn[u].object.session \in DOMAIN sessions => turn[u].object.session \in DOMAIN sessions'
    BY DEF Grow
  <2> QED BY <2>1, <2>2, <2>3, <2>4 DEF TurnInv
<1>2. ASSUME NEW u \in Saved PROVE u \in Saved'
  <2>1. u \in Turn /\ turn[u].committed /\ InTranscript(u)'
    BY GrowWritten DEF Saved
  <2>2. turn'[u].committed
    BY <2>1
  <2> QED BY <2>1, <2>2 DEF Saved
<1> QED BY <1>1, <1>2

\* More turns saved contradict no acknowledgement.
LEMMA MoreSaved ==
    ASSUME NEW rows, NEW log, NEW n, NEW turns, NEW more, turns \subseteq more,
           Noted(rows, log, n, turns)
    PROVE  Noted(rows, log, n, more)
  BY DEF Noted, Books, AckedBy

\* A step of one turn that leaves the notices alone.
LEMMA QuietTurn ==
    ASSUME GatewayInv, Shapes', Grow, NEW t \in Turn, TurnInv(t)',
           turn[t].committed => turn'[t].committed,
           \A u \in Turn \ {t} : turn'[u] = turn[u],
           DOMAIN sessions' \subseteq DOMAIN sessions \cup {t},
           UNCHANGED Gateway!noticeVars
    PROVE  GatewayInv'
<1>1. (\A u \in Turn : TurnInv(u)') /\ Saved \subseteq Saved'
  BY TurnMoves
<1>2. Noted(board', trail', nextId', Saved)
  BY DEF GatewayInv, Gateway!noticeVars
<1>3. Noted(board', trail', nextId', Saved')
  BY <1>1, <1>2, MoreSaved
<1> QED BY <1>1, <1>3 DEF GatewayInv

LEMMA StillGrow == ASSUME UNCHANGED sessions PROVE Grow
  BY DEF Grow

\* The steps of a turn that change its own row, and perhaps the lock.
LEMMA TalkKeeps ==
    ASSUME GatewayInv, NEW t \in Turn,
           Gateway!Submit(t) \/ Gateway!Converse(t) \/ Gateway!TryLock(t)
           \/ Gateway!Unlock(t) \/ Gateway!PersistFails(t)
    PROVE  GatewayInv'
<1>1. /\ turn \in [Turn -> Gateway!TurnRow] /\ turn[t] \in Gateway!TurnRow
      /\ \A s \in DOMAIN sessions : sessions[s] \in SessionRow
  BY DEF GatewayInv, Shapes
<1>2. /\ UNCHANGED <<Gateway!noticeVars, sessions, live, agents>>
      /\ turn' \in [Turn -> Gateway!TurnRow]
      /\ turn'[t].object = turn[t].object /\ turn'[t].committed = turn[t].committed
      /\ \A u \in Turn \ {t} : turn'[u] = turn[u]
      /\ turn[t].pc \in {"got", "talking", "persist", "locked", "ended", "created", "unlock"}
      /\ turn'[t].pc \in {"loaded", "busy", "persist", "cost", "release", "locked", "unlock"}
      /\ turn'[t].pc \in {"loaded", "persist", "locked"} =>
           turn[t].pc \in {"got", "talking", "persist"}
  <2>1. CASE Gateway!Submit(t)
    <3>1. turn[t].object.session \in DOMAIN sessions
      BY <2>1 DEF Gateway!Submit, GatewayInv, TurnInv
    <3>2. sessions[turn[t].object.session].transcript \in Seq(Turn)
      BY <1>1, <3>1 DEF SessionRow
    <3> QED BY <1>1, <2>1, <3>2 DEF Gateway!Submit, Gateway!TurnRow, Gateway!PC
  <2>2. CASE Gateway!Converse(t)
    <3>1. PICK out \in Gateway!Outcome, pc \in {"release", "cost", "persist"} :
             turn' = [turn EXCEPT ![t].outcome = out, ![t].pc = pc]
      BY <2>2 DEF Gateway!Converse, Gateway!Outcome
    <3>2. turn[t].pc = "talking" /\ UNCHANGED <<Gateway!noticeVars, sessions, live, agents>>
      BY <2>2 DEF Gateway!Converse
    <3> QED BY <1>1, <3>1, <3>2 DEF Gateway!TurnRow, Gateway!PC
  <2>3. CASE Gateway!TryLock(t)
    <3>1. PICK pc \in {"locked", "cost"} : turn' = [turn EXCEPT ![t].pc = pc]
      BY <2>3 DEF Gateway!TryLock, Gateway!Goto
    <3>2. turn[t].pc = "persist" /\ UNCHANGED <<Gateway!noticeVars, sessions, live, agents>>
      BY <2>3 DEF Gateway!TryLock
    <3> QED BY <1>1, <3>1, <3>2 DEF Gateway!TurnRow, Gateway!PC
  <2>4. CASE Gateway!Unlock(t)
    BY <1>1, <2>4 DEF Gateway!Unlock, Gateway!Goto, Gateway!TurnRow, Gateway!PC
  <2>5. CASE Gateway!PersistFails(t)
    BY <1>1, <2>5 DEF Gateway!PersistFails, Gateway!Goto, Gateway!TurnRow, Gateway!PC
  <2> QED BY <2>1, <2>2, <2>3, <2>4, <2>5
<1>3. Shapes'
  BY <1>2 DEF GatewayInv, Shapes
<1>4. Grow
  BY <1>2, StillGrow
<1>5. TurnInv(t)'
  BY <1>2 DEF GatewayInv, TurnInv, InTranscript
<1> QED BY <1>2, <1>3, <1>4, <1>5, QuietTurn

\* The steps of a turn that write a session.
LEMMA Appended ==
    ASSUME NEW a \in Seq(Turn), NEW t \in Turn
    PROVE  /\ Append(a, t) \in Seq(Turn) /\ t \in Gateway!Range(Append(a, t))
           /\ Gateway!Range(a) \subseteq Gateway!Range(Append(a, t))
<1>1. Append(a, t) \in Seq(Turn) /\ Len(Append(a, t)) = Len(a) + 1
  OBVIOUS
<1>2. Append(a, t)[Len(a) + 1] = t /\ Len(a) + 1 \in DOMAIN Append(a, t)
  BY <1>1
<1>3. \A k \in DOMAIN a : k \in DOMAIN Append(a, t) /\ Append(a, t)[k] = a[k]
  BY <1>1
<1> QED BY <1>1, <1>2, <1>3 DEF Gateway!Range

\* What the members of a concatenation are.
LEMMA JoinedRange ==
    ASSUME NEW a \in Seq(Turn), NEW b \in Seq(Turn)
    PROVE  /\ a \o b \in Seq(Turn)
           /\ Gateway!Range(a) \subseteq Gateway!Range(a \o b)
           /\ Gateway!Range(b) \subseteq Gateway!Range(a \o b)
<1>1. a \o b \in Seq(Turn) /\ Len(a \o b) = Len(a) + Len(b)
  OBVIOUS
<1>2. \A k \in DOMAIN a : k \in DOMAIN (a \o b) /\ (a \o b)[k] = a[k]
  BY <1>1
<1>3. \A k \in DOMAIN b : Len(a) + k \in DOMAIN (a \o b) /\ (a \o b)[Len(a) + k] = b[k]
  BY <1>1
<1> QED BY <1>1, <1>2, <1>3 DEF Gateway!Range

\* A turn that did not compact appends to its own session.
LEMMA AppendKeeps ==
    ASSUME GatewayInv, NEW t \in Turn, Gateway!Append1(t) PROVE GatewayInv'
<1> DEFINE s == turn[t].object.session
<1>1. /\ turn \in [Turn -> Gateway!TurnRow] /\ turn[t] \in Gateway!TurnRow /\ TurnInv(t)
      /\ sessions \in [DOMAIN sessions -> SessionRow]
  BY DEF GatewayInv, Shapes
<1>2. s \in DOMAIN sessions /\ t \notin DOMAIN sessions
  BY <1>1 DEF Gateway!Append1, TurnInv
<1>3. sessions[s] \in SessionRow /\ sessions[s].transcript \in Seq(Turn)
  BY <1>1, <1>2 DEF SessionRow
<1>4. /\ sessions' = [sessions EXCEPT ![s].transcript = Append(@, t)]
      /\ turn' = [turn EXCEPT ![t].pc = "cost", ![t].committed = TRUE]
      /\ UNCHANGED <<Gateway!noticeVars, lock, live, agents, faults>>
  BY DEF Gateway!Append1
<1> HIDE DEF s
<1>5. /\ DOMAIN sessions' = DOMAIN sessions
      /\ sessions'[s].transcript = Append(sessions[s].transcript, t)
      /\ \A x \in DOMAIN sessions \ {s} : sessions'[x] = sessions[x]
      /\ sessions' \in [DOMAIN sessions -> SessionRow]
  <2>1. Append(sessions[s].transcript, t) \in Seq(Turn)
    BY <1>3, Appended
  <2> QED BY <1>1, <1>2, <1>3, <1>4, <2>1 DEF SessionRow
<1>6. /\ turn' \in [Turn -> Gateway!TurnRow] /\ \A u \in Turn \ {t} : turn'[u] = turn[u]
      /\ turn'[t].object = turn[t].object /\ turn'[t].committed /\ turn'[t].pc = "cost"
  BY <1>1, <1>4 DEF Gateway!TurnRow, Gateway!PC
<1>7. Grow
  BY <1>3, <1>5, Appended DEF Grow
<1>8. t \in Gateway!Range(sessions'[s].transcript)
  BY <1>3, <1>5, Appended
<1>9. TurnInv(t)'
  BY <1>2, <1>5, <1>6, <1>8 DEF TurnInv, InTranscript, s
<1>10. Shapes'
  BY <1>4, <1>5, <1>6 DEF GatewayInv, Shapes
<1> QED BY <1>4, <1>5, <1>6, <1>7, <1>9, <1>10, QuietTurn

\* A fork ends its parent,
LEMMA EndParentKeeps ==
    ASSUME GatewayInv, NEW t \in Turn, Gateway!EndParent(t) PROVE GatewayInv'
<1> DEFINE s == turn[t].object.session
<1>1. /\ turn \in [Turn -> Gateway!TurnRow] /\ turn[t] \in Gateway!TurnRow /\ TurnInv(t)
      /\ sessions \in [DOMAIN sessions -> SessionRow]
  BY DEF GatewayInv, Shapes
<1>2. s \in DOMAIN sessions /\ t \notin DOMAIN sessions /\ sessions[s] \in SessionRow
  BY <1>1 DEF Gateway!EndParent, TurnInv
<1>3. /\ sessions' = [sessions EXCEPT ![s].ended = TRUE]
      /\ turn' = [turn EXCEPT ![t].pc = "ended"]
      /\ UNCHANGED <<Gateway!noticeVars, lock, live, agents, faults>>
  BY DEF Gateway!EndParent, Gateway!Goto
<1> HIDE DEF s
<1>4. /\ DOMAIN sessions' = DOMAIN sessions
      /\ \A x \in DOMAIN sessions : sessions'[x].transcript = sessions[x].transcript
      /\ sessions' \in [DOMAIN sessions -> SessionRow]
  BY <1>1, <1>2, <1>3 DEF SessionRow
<1>5. /\ turn' \in [Turn -> Gateway!TurnRow] /\ \A u \in Turn \ {t} : turn'[u] = turn[u]
      /\ turn'[t].object = turn[t].object /\ turn'[t].committed = turn[t].committed
      /\ turn'[t].pc = "ended"
  BY <1>1, <1>3 DEF Gateway!TurnRow, Gateway!PC
<1>6. Grow
  BY <1>4 DEF Grow
<1>7. TurnInv(t)'
  <2>1. InTranscript(t) => InTranscript(t)'
    BY <1>6, GrowWritten
  <2> QED BY <1>1, <1>2, <1>4, <1>5, <2>1 DEF TurnInv, s
<1>8. Shapes'
  BY <1>3, <1>4, <1>5 DEF GatewayInv, Shapes
<1> QED BY <1>3, <1>4, <1>5, <1>6, <1>7, <1>8, QuietTurn

\* creates the child it is named for,
LEMMA CreateChildKeeps ==
    ASSUME GatewayInv, NEW t \in Turn, Gateway!CreateChild(t) PROVE GatewayInv'
<1>1. /\ turn \in [Turn -> Gateway!TurnRow] /\ turn[t] \in Gateway!TurnRow /\ TurnInv(t)
      /\ sessions \in [DOMAIN sessions -> SessionRow]
  BY DEF GatewayInv, Shapes
<1>2. turn[t].pc = "ended" /\ turn[t].object.session \in DOMAIN sessions
      /\ t \notin DOMAIN sessions
  BY <1>1 DEF Gateway!CreateChild, TurnInv
<1>3. /\ sessions' = [x \in DOMAIN sessions \cup {t} |->
                        IF x = t THEN Gateway!Fresh(turn[t].object.session) ELSE sessions[x]]
      /\ turn' = [turn EXCEPT ![t].pc = "created", ![t].child = TRUE]
      /\ UNCHANGED <<Gateway!noticeVars, lock, live, agents, faults>>
  BY DEF Gateway!CreateChild
<1>4. turn[t].object.session \in Gateway!Session
  BY <1>1 DEF Gateway!TurnRow, Gateway!Object
<1>5. Gateway!Fresh(turn[t].object.session) \in SessionRow
  BY <1>4 DEF Gateway!Fresh, SessionRow
<1>6. /\ DOMAIN sessions' = DOMAIN sessions \cup {t}
      /\ \A x \in DOMAIN sessions : sessions'[x] = sessions[x]
      /\ sessions' \in [DOMAIN sessions' -> SessionRow]
      /\ DOMAIN sessions' \subseteq Gateway!Session
  BY <1>1, <1>2, <1>3, <1>5 DEF GatewayInv, Shapes, Gateway!Session
<1>7. /\ turn' \in [Turn -> Gateway!TurnRow] /\ \A u \in Turn \ {t} : turn'[u] = turn[u]
      /\ turn'[t].object = turn[t].object /\ turn'[t].committed = turn[t].committed
      /\ turn'[t].pc = "created"
  BY <1>1, <1>3 DEF Gateway!TurnRow, Gateway!PC
<1>8. Grow
  BY <1>6 DEF Grow
<1>9. TurnInv(t)'
  <2>1. InTranscript(t) => InTranscript(t)'
    BY <1>8, GrowWritten
  <2> QED BY <1>1, <1>2, <1>6, <1>7, <2>1 DEF TurnInv
<1>10. Shapes'
  BY <1>3, <1>6, <1>7 DEF GatewayInv, Shapes
<1> QED BY <1>3, <1>6, <1>7, <1>8, <1>9, <1>10, QuietTurn

\* and saves the summary and its messages there.
LEMMA SaveChildKeeps ==
    ASSUME GatewayInv, NEW t \in Turn, Gateway!SaveChild(t) PROVE GatewayInv'
<1>1. /\ turn \in [Turn -> Gateway!TurnRow] /\ turn[t] \in Gateway!TurnRow /\ TurnInv(t)
      /\ sessions \in [DOMAIN sessions -> SessionRow]
  BY DEF GatewayInv, Shapes
<1>2. turn[t].pc = "created" /\ turn[t].object.session \in DOMAIN sessions
      /\ t \in DOMAIN sessions
  BY <1>1 DEF Gateway!SaveChild, TurnInv
<1>3. sessions[t] \in SessionRow /\ sessions[t].transcript \in Seq(Turn)
      /\ turn[t].prior \in Seq(Turn)
  BY <1>1, <1>2 DEF SessionRow, Gateway!TurnRow
<1> DEFINE what == sessions[t].transcript \o Append(turn[t].prior, t)
<1>4. what \in Seq(Turn) /\ t \in Gateway!Range(what)
      /\ Gateway!Range(sessions[t].transcript) \subseteq Gateway!Range(what)
  <2>1. Append(turn[t].prior, t) \in Seq(Turn) /\ t \in Gateway!Range(Append(turn[t].prior, t))
    BY <1>3, Appended
  <2> QED BY <1>3, <2>1, JoinedRange
<1>5. /\ sessions' = [sessions EXCEPT ![t].transcript = what]
      /\ turn' = [turn EXCEPT ![t].pc = "saved", ![t].committed = TRUE]
      /\ UNCHANGED <<Gateway!noticeVars, lock, live, agents, faults>>
  BY DEF Gateway!SaveChild
<1> HIDE DEF what
<1>6. /\ DOMAIN sessions' = DOMAIN sessions
      /\ sessions'[t].transcript = what
      /\ \A x \in DOMAIN sessions \ {t} : sessions'[x] = sessions[x]
      /\ sessions' \in [DOMAIN sessions -> SessionRow]
  BY <1>1, <1>2, <1>3, <1>4, <1>5 DEF SessionRow
<1>7. /\ turn' \in [Turn -> Gateway!TurnRow] /\ \A u \in Turn \ {t} : turn'[u] = turn[u]
      /\ turn'[t].object = turn[t].object /\ turn'[t].committed /\ turn'[t].pc = "saved"
  BY <1>1, <1>5 DEF Gateway!TurnRow, Gateway!PC
<1>8. Grow
  BY <1>4, <1>6 DEF Grow
<1>9. TurnInv(t)'
  BY <1>2, <1>4, <1>6, <1>7 DEF TurnInv, InTranscript
<1>10. Shapes'
  BY <1>5, <1>6, <1>7 DEF GatewayInv, Shapes
<1> QED BY <1>5, <1>6, <1>7, <1>8, <1>9, <1>10, QuietTurn

\* The cost is no part of what the notices rely on.
LEMMA RecordCostKeeps ==
    ASSUME GatewayInv, NEW t \in Turn, Gateway!RecordCost(t) PROVE GatewayInv'
<1> DEFINE s == IF turn[t].child THEN t ELSE turn[t].object.session
           pc == Gateway!Fate(turn[t])
<1>1. /\ turn \in [Turn -> Gateway!TurnRow] /\ turn[t] \in Gateway!TurnRow /\ TurnInv(t)
      /\ sessions \in [DOMAIN sessions -> SessionRow]
  BY DEF GatewayInv, Shapes
<1>2. /\ turn[t].pc = "cost" /\ turn[t].object.session \in DOMAIN sessions
      /\ pc \in {"ack", "release"} /\ (pc = "ack" => turn[t].committed)
  BY <1>1 DEF Gateway!RecordCost, TurnInv, Gateway!Fate
<1>3. /\ sessions' = [sessions EXCEPT ![s].cost = @ \cup {t}]
      /\ turn' = [turn EXCEPT ![t].pc = pc]
      /\ UNCHANGED <<Gateway!noticeVars, lock, live, agents, faults>>
  BY DEF Gateway!RecordCost, Gateway!Goto
<1> HIDE DEF s, pc
<1>4. /\ DOMAIN sessions' = DOMAIN sessions
      /\ \A x \in DOMAIN sessions : sessions'[x].transcript = sessions[x].transcript
      /\ sessions' \in [DOMAIN sessions -> SessionRow]
  <2>1. CASE s \in DOMAIN sessions
    <3>1. sessions[s] \in SessionRow
      BY <1>1, <2>1
    <3> QED BY <1>1, <1>3, <2>1, <3>1 DEF SessionRow
  <2>2. CASE s \notin DOMAIN sessions
    BY <1>1, <1>3, <2>2
  <2> QED BY <2>1, <2>2
<1>5. /\ turn' \in [Turn -> Gateway!TurnRow] /\ \A u \in Turn \ {t} : turn'[u] = turn[u]
      /\ turn'[t].object = turn[t].object /\ turn'[t].committed = turn[t].committed
      /\ turn'[t].pc = pc
  BY <1>1, <1>2, <1>3 DEF Gateway!TurnRow, Gateway!PC
<1>6. Grow
  BY <1>4 DEF Grow
<1>7. TurnInv(t)'
  <2>1. InTranscript(t) => InTranscript(t)'
    BY <1>6, GrowWritten
  <2> QED BY <1>1, <1>2, <1>4, <1>5, <2>1 DEF TurnInv
<1>8. Shapes'
  BY <1>3, <1>4, <1>5 DEF GatewayInv, Shapes
<1> QED BY <1>3, <1>4, <1>5, <1>6, <1>7, <1>8, QuietTurn

\* The steps that make an object for a session.
LEMMA CreateKeeps ==
    ASSUME GatewayInv, NEW p \in Process, NEW s, Gateway!Create(p, s) PROVE GatewayInv'
<1>1. /\ live \in [Process -> SUBSET Gateway!Object] /\ agents \in Nat
      /\ \A q \in Process : \A o \in live[q] : o.session \in DOMAIN sessions
      /\ s \in DOMAIN sessions
      /\ live' = [live EXCEPT ![p] = @ \cup {Gateway!Made(s)}] /\ agents' = agents + 1
      /\ UNCHANGED <<Gateway!noticeVars, sessions, lock, turn, faults>>
  BY DEF Gateway!Create, GatewayInv, Shapes
<1>2. DOMAIN sessions \subseteq Gateway!Session
  BY DEF GatewayInv, Shapes
<1>3. Gateway!Made(s) \in Gateway!Object /\ Gateway!Made(s).session = s
  BY <1>1, <1>2 DEF Gateway!Made, Gateway!Object
<1>4. live' \in [Process -> SUBSET Gateway!Object] /\ live'[p] = live[p] \cup {Gateway!Made(s)}
  BY <1>1, <1>3
<1>5. Shapes'
  BY <1>1, <1>3, <1>4 DEF GatewayInv, Shapes
<1>6. (\A t \in Turn : TurnInv(t)') /\ Saved' = Saved
  BY <1>1 DEF GatewayInv, TurnInv, InTranscript, Saved
<1>7. Noted(board', trail', nextId', Saved')
  BY <1>1, <1>6 DEF GatewayInv, Gateway!noticeVars
<1> QED BY <1>5, <1>6, <1>7 DEF GatewayInv

\* A turn takes a live object of its session, or makes one.
LEMMA GetKeeps ==
    ASSUME GatewayInv, NEW t \in Turn, NEW s, Gateway!Get(t, s) PROVE GatewayInv'
<1> DEFINE p == turn[t].process
           o == IF Gateway!ObjectOf(p, s) = {} THEN Gateway!Made(s)
                ELSE CHOOSE x \in Gateway!ObjectOf(p, s) : TRUE
           pc == IF Gateway!Busy(p, o) THEN "busy" ELSE "got"
<1>1. /\ turn \in [Turn -> Gateway!TurnRow] /\ turn[t] \in Gateway!TurnRow /\ TurnInv(t)
      /\ live \in [Process -> SUBSET Gateway!Object] /\ agents \in Nat /\ p \in Process
      /\ \A q \in Process : \A x \in live[q] : x.session \in DOMAIN sessions
      /\ DOMAIN sessions \subseteq Gateway!Session
  BY DEF GatewayInv, Shapes, Gateway!TurnRow
<1>2. /\ turn[t].pc = "new" /\ s \in DOMAIN sessions
      /\ live' = [live EXCEPT ![p] = @ \cup {o}]
      /\ agents' = IF o \in live[p] THEN agents ELSE agents + 1
      /\ turn' = [turn EXCEPT ![t].pc = pc, ![t].object = o]
      /\ UNCHANGED <<Gateway!noticeVars, sessions, lock, faults>>
  BY DEF Gateway!Get
<1>3. o \in Gateway!Object /\ o.session = s
  <2>1. CASE Gateway!ObjectOf(p, s) = {}
    BY <1>1, <1>2, <2>1 DEF Gateway!Made, Gateway!Object
  <2>2. CASE Gateway!ObjectOf(p, s) # {}
    <3>1. o \in Gateway!ObjectOf(p, s)
      BY <2>2
    <3> QED BY <1>1, <3>1 DEF Gateway!ObjectOf
  <2> QED BY <2>1, <2>2
<1>4. pc \in {"busy", "got"}
  OBVIOUS
<1> HIDE DEF o, pc
<1>5. /\ turn' \in [Turn -> Gateway!TurnRow] /\ \A u \in Turn \ {t} : turn'[u] = turn[u]
      /\ turn'[t].object = o /\ turn'[t].committed = turn[t].committed
      /\ turn'[t].pc = pc
  BY <1>1, <1>2, <1>3, <1>4 DEF Gateway!TurnRow, Gateway!PC
<1>6. /\ live' \in [Process -> SUBSET Gateway!Object] /\ agents' \in Nat
      /\ \A q \in Process : \A x \in live'[q] : x.session \in DOMAIN sessions
  <2> HIDE DEF p
  <2> QED BY <1>1, <1>2, <1>3
<1>7. Shapes'
  BY <1>2, <1>5, <1>6 DEF GatewayInv, Shapes
<1>8. Grow
  BY <1>2, StillGrow
<1>9. TurnInv(t)'
  BY <1>1, <1>2, <1>3, <1>4, <1>5 DEF TurnInv, InTranscript
<1> QED BY <1>2, <1>5, <1>7, <1>8, <1>9, QuietTurn

\* The child's object takes its parent's place.
LEMMA RegisterKeeps ==
    ASSUME GatewayInv, NEW t \in Turn, Gateway!Register(t) PROVE GatewayInv'
<1> DEFINE p == turn[t].process
           registered == Gateway!ObjectOf(p, turn[t].object.session)
           heir == Gateway!Heir(turn[t].object, registered, t)
<1>1. /\ turn \in [Turn -> Gateway!TurnRow] /\ turn[t] \in Gateway!TurnRow /\ TurnInv(t)
      /\ live \in [Process -> SUBSET Gateway!Object] /\ agents \in Nat /\ p \in Process
      /\ \A q \in Process : \A x \in live[q] : x.session \in DOMAIN sessions
      /\ turn[t].object \in Gateway!Object
  BY DEF GatewayInv, Shapes, Gateway!TurnRow
<1>2. /\ turn[t].pc = "saved"
      /\ live' = [live EXCEPT ![p] = (@ \ registered) \cup {heir}]
      /\ agents' = agents + 1
      /\ turn' = [turn EXCEPT ![t].pc = "unlock"]
      /\ UNCHANGED <<Gateway!noticeVars, sessions, lock, faults>>
  BY DEF Gateway!Register, Gateway!Goto
<1>3. heir \in Gateway!Object /\ heir.session = t
  <2>1. registered # {} => (CHOOSE x \in registered : TRUE) \in Gateway!Object
    BY <1>1 DEF Gateway!ObjectOf
  <2> HIDE DEF registered
  <2> QED BY <1>1, <2>1 DEF Gateway!Heir, Gateway!Object, Gateway!Session
<1> HIDE DEF registered, heir
<1>4. /\ turn' \in [Turn -> Gateway!TurnRow] /\ \A u \in Turn \ {t} : turn'[u] = turn[u]
      /\ turn'[t].object = turn[t].object /\ turn'[t].committed = turn[t].committed
      /\ turn'[t].pc = "unlock"
  BY <1>1, <1>2 DEF Gateway!TurnRow, Gateway!PC
<1>5. t \in DOMAIN sessions
  BY <1>1, <1>2 DEF TurnInv
<1>6. /\ live' \in [Process -> SUBSET Gateway!Object] /\ agents' \in Nat
      /\ \A q \in Process : \A x \in live'[q] : x.session \in DOMAIN sessions
  <2> HIDE DEF p
  <2> QED BY <1>1, <1>2, <1>3, <1>5
<1>7. Shapes'
  BY <1>2, <1>4, <1>6 DEF GatewayInv, Shapes
<1>8. Grow
  BY <1>2, StillGrow
<1>9. TurnInv(t)'
  BY <1>1, <1>2, <1>4 DEF TurnInv, InTranscript
<1> QED BY <1>2, <1>4, <1>7, <1>8, <1>9, QuietTurn

\* The steps of a turn that touch the notices, and nothing of the sessions.
LEMMA NoticeTurn ==
    ASSUME GatewayInv, NEW t \in Turn, NEW row, row \in Gateway!TurnRow,
           turn' = [turn EXCEPT ![t] = row],
           row.object = turn[t].object, row.committed = turn[t].committed,
           turn[t].pc \in {"loaded", "release", "publish", "ack"},
           row.pc \in {"talking", "publish", "done"}, row.pc = "talking" => turn[t].pc = "loaded",
           row.pc = "publish" => row.outcome \in {"error", "interrupted"},
           UNCHANGED <<sessions, lock, live, agents, faults>>,
           \A turns : Noted(board, trail, nextId, turns) /\ turns = Saved
                      => Noted(board', trail', nextId', turns)
    PROVE  GatewayInv'
<1>1. turn \in [Turn -> Gateway!TurnRow] /\ TurnInv(t)
  BY DEF GatewayInv, Shapes
<1>2. turn'[t] = row /\ (\A u \in Turn \ {t} : turn'[u] = turn[u])
      /\ turn' \in [Turn -> Gateway!TurnRow]
  BY <1>1
<1>3. Shapes'
  BY <1>2 DEF GatewayInv, Shapes
<1>4. Grow
  BY StillGrow
<1>5. TurnInv(t)'
  BY <1>1, <1>2 DEF TurnInv, InTranscript
<1>6. (\A u \in Turn : TurnInv(u)') /\ Saved \subseteq Saved'
  BY <1>2, <1>3, <1>4, <1>5, TurnMoves
<1>7. Noted(board', trail', nextId', Saved)
  BY DEF GatewayInv
<1>8. Noted(board', trail', nextId', Saved')
  BY <1>6, <1>7, MoreSaved
<1> QED BY <1>3, <1>6, <1>8 DEF GatewayInv

\* The steps of a turn on its notices.
LEMMA NoticesKeep ==
    ASSUME GatewayInv, NEW t \in Turn,
           Gateway!ClaimNotices(t) \/ Gateway!ReleaseNotices(t) \/ Gateway!PublishDeadTurn(t)
           \/ Gateway!AckNotices(t)
    PROVE  GatewayInv'
<1>1. /\ turn \in [Turn -> Gateway!TurnRow] /\ turn[t] \in Gateway!TurnRow /\ TurnInv(t)
      /\ turn[t].object.session \in Owner /\ t \in Token
  BY GatewayConstants DEF GatewayInv, Shapes, Gateway!TurnRow, Gateway!Object, Gateway!Session
<1>2. ASSUME Gateway!ClaimNotices(t) PROVE GatewayInv'
  <2> DEFINE row == [turn[t] EXCEPT !.pc = "talking",
                        !.token = Gateway!Claimable(Gateway!Lineage(turn[t].object.session)) # {}]
  <2>1. /\ turn[t].pc = "loaded" /\ Gateway!Claim(Gateway!Lineage(turn[t].object.session), t)
        /\ turn' = [turn EXCEPT ![t] = row]
        /\ UNCHANGED <<sessions, lock, live, agents, faults>>
    BY <1>1, <1>2 DEF Gateway!ClaimNotices
  <2>2. \A turns : Noted(board, trail, nextId, turns) => Noted(board', trail', nextId', turns)
    BY <1>1, <2>1, ClaimKeepsNotes
  <2>3. /\ row \in Gateway!TurnRow /\ row.pc = "talking"
        /\ row.object = turn[t].object /\ row.committed = turn[t].committed
    BY <1>1 DEF Gateway!TurnRow, Gateway!PC
  <2> HIDE DEF row
  <2> QED BY <2>1, <2>2, <2>3, NoticeTurn
<1>3. ASSUME Gateway!ReleaseNotices(t) PROVE GatewayInv'
  <2> DEFINE pc == IF turn[t].outcome \in {"error", "interrupted"} THEN "publish" ELSE "done"
             row == [turn[t] EXCEPT !.pc = pc]
  <2>1. /\ turn[t].pc = "release" /\ (Gateway!Release(t) \/ UNCHANGED Gateway!noticeVars)
        /\ turn' = [turn EXCEPT ![t] = row]
        /\ UNCHANGED <<sessions, lock, live, agents, faults>>
    BY <1>1, <1>3 DEF Gateway!ReleaseNotices, Gateway!Goto
  <2>2. \A turns : Noted(board, trail, nextId, turns) => Noted(board', trail', nextId', turns)
    BY <2>1, ReleaseKeepsNotes DEF Gateway!noticeVars
  <2>3. /\ row \in Gateway!TurnRow /\ row.pc \in {"publish", "done"}
        /\ row.pc = "publish" => row.outcome \in {"error", "interrupted"}
        /\ row.object = turn[t].object /\ row.committed = turn[t].committed
    BY <1>1 DEF Gateway!TurnRow, Gateway!PC
  <2> HIDE DEF row
  <2> QED BY <2>1, <2>2, <2>3, NoticeTurn
<1>4. ASSUME Gateway!PublishDeadTurn(t) PROVE GatewayInv'
  <2> DEFINE row == [turn[t] EXCEPT !.pc = "done"]
  <2>1. /\ turn[t].pc = "publish" /\ Gateway!Publish(turn[t].object.session, turn[t].outcome)
        /\ turn' = [turn EXCEPT ![t] = row]
        /\ UNCHANGED <<sessions, lock, live, agents, faults>>
    BY <1>1, <1>4 DEF Gateway!PublishDeadTurn, Gateway!Goto
  <2>2. turn[t].outcome \in Fact
    BY <1>1, <2>1, GatewayConstants DEF TurnInv
  <2>3. \A turns : Noted(board, trail, nextId, turns) => Noted(board', trail', nextId', turns)
    BY <1>1, <2>1, <2>2, PublishKeepsNotes
  <2>4. /\ row \in Gateway!TurnRow /\ row.pc = "done"
        /\ row.object = turn[t].object /\ row.committed = turn[t].committed
    BY <1>1 DEF Gateway!TurnRow, Gateway!PC
  <2> HIDE DEF row
  <2> QED BY <2>1, <2>3, <2>4, NoticeTurn
<1>5. ASSUME Gateway!AckNotices(t) PROVE GatewayInv'
  <2> DEFINE row == [turn[t] EXCEPT !.pc = "done"]
  <2>1. /\ turn[t].pc = "ack" /\ (Gateway!Ack(t) \/ UNCHANGED Gateway!noticeVars)
        /\ turn' = [turn EXCEPT ![t] = row]
        /\ UNCHANGED <<sessions, lock, live, agents, faults>>
    BY <1>1, <1>5 DEF Gateway!AckNotices, Gateway!Goto
  <2>2. t \in Saved
    BY <1>1, <2>1 DEF TurnInv, Saved
  <2>3. \A turns : Noted(board, trail, nextId, turns) /\ turns = Saved
                   => Noted(board', trail', nextId', turns)
    BY <1>1, <2>1, <2>2, AckKeepsNotes DEF Gateway!noticeVars
  <2>4. /\ row \in Gateway!TurnRow /\ row.pc = "done"
        /\ row.object = turn[t].object /\ row.committed = turn[t].committed
    BY <1>1 DEF Gateway!TurnRow, Gateway!PC
  <2> HIDE DEF row
  <2> QED BY <2>1, <2>3, <2>4, NoticeTurn
<1> QED BY <1>2, <1>3, <1>4, <1>5

\* A crash leaves a turn alone or kills it.
SameOrDead(row, next) ==
    /\ next \in Gateway!TurnRow /\ next.object = row.object /\ next.committed = row.committed
    /\ next = row \/ (next.pc = "dead" /\ row.pc # "new")

LEMMA DeadRow ==
    ASSUME NEW row \in Gateway!TurnRow
    PROVE  /\ SameOrDead(row, row)
           /\ row.pc # "new" => SameOrDead(row, [row EXCEPT !.pc = "dead"])
<1>1. SameOrDead(row, row)
  BY DEF SameOrDead
<1>2. ASSUME row.pc # "new" PROVE SameOrDead(row, [row EXCEPT !.pc = "dead"])
  BY <1>2 DEF SameOrDead, Gateway!TurnRow, Gateway!PC
<1> QED BY <1>1, <1>2

\* The steps of nobody's turn.
LEMMA WorldKeeps ==
    ASSUME GatewayInv,
           \/ \E o \in Owner : Gateway!PublishFact(o, "report")
           \/ \E p \in Process : Gateway!Crash(p)
           \/ \E s \in Gateway!Session : Gateway!LockLapses(s)
           \/ Gateway!ClockMoves
           \/ UNCHANGED Gateway!vars
    PROVE  GatewayInv'
<1>1. Noted(board, trail, nextId, Saved) /\ Shapes /\ turn \in [Turn -> Gateway!TurnRow]
  BY DEF GatewayInv, Shapes
<1>2. ASSUME UNCHANGED <<sessions, live, agents, turn>>, Noted(board', trail', nextId', Saved)
      PROVE  GatewayInv'
  <2>1. Saved' = Saved /\ Shapes' /\ \A t \in Turn : TurnInv(t)'
    BY <1>2 DEF GatewayInv, Shapes, Saved, TurnInv, InTranscript
  <2> QED BY <1>2, <2>1 DEF GatewayInv
<1>3. ASSUME NEW o \in Owner, Gateway!PublishFact(o, "report") PROVE GatewayInv'
  <2>1. Gateway!Publish(o, "report") /\ UNCHANGED <<sessions, live, agents, turn>>
    BY <1>3 DEF Gateway!PublishFact, Gateway!sessionVars
  <2>2. Noted(board', trail', nextId', Saved)
    BY <1>1, <2>1, GatewayConstants, PublishKeepsNotes
  <2> QED BY <1>2, <2>1, <2>2
<1>4. ASSUME NEW p \in Process, Gateway!Crash(p) PROVE GatewayInv'
  <2>1. /\ turn' = [t \in Turn |-> IF turn[t].process = p /\ turn[t].pc # "done"
                                      /\ turn[t].pc # "new"
                                   THEN [turn[t] EXCEPT !.pc = "dead"] ELSE turn[t]]
        /\ live' = [live EXCEPT ![p] = {}]
        /\ UNCHANGED <<Gateway!noticeVars, sessions, lock, agents>>
    BY <1>4 DEF Gateway!Crash
  <2>2. \A t \in Turn : SameOrDead(turn[t], turn'[t])
    <3> SUFFICES ASSUME NEW t \in Turn PROVE SameOrDead(turn[t], turn'[t])
      OBVIOUS
    <3>1. turn[t] \in Gateway!TurnRow
      BY <1>1
    <3>2. \/ turn'[t] = turn[t]
          \/ turn'[t] = [turn[t] EXCEPT !.pc = "dead"] /\ turn[t].pc # "new"
      BY <2>1
    <3> QED BY <3>1, <3>2, DeadRow
  <2>3. Shapes'
    <3>1. turn' \in [Turn -> Gateway!TurnRow]
      BY <2>1, <2>2 DEF SameOrDead
    <3> QED BY <1>1, <2>1, <3>1 DEF Shapes
  <2>4. \A t \in Turn : TurnInv(t)'
    BY <2>1, <2>2 DEF GatewayInv, TurnInv, InTranscript, SameOrDead
  <2>5. Saved' = Saved
    BY <2>1, <2>2 DEF Saved, InTranscript, SameOrDead
  <2> QED BY <1>1, <2>1, <2>3, <2>4, <2>5 DEF GatewayInv, Gateway!noticeVars
<1>5. ASSUME NEW s \in Gateway!Session, Gateway!LockLapses(s) PROVE GatewayInv'
  <2>1. UNCHANGED <<Gateway!noticeVars, sessions, live, agents, turn>>
    BY <1>5 DEF Gateway!LockLapses
  <2> QED BY <1>1, <1>2, <2>1 DEF Gateway!noticeVars
<1>6. ASSUME Gateway!ClockMoves PROVE GatewayInv'
  <2>1. UNCHANGED <<sessions, live, agents, turn>>
    BY <1>6 DEF Gateway!ClockMoves, Gateway!sessionVars
  <2>2. Noted(board', trail', nextId', Saved)
    <3>1. CASE \E r \in board : Gateway!Expire(r)
      BY <1>1, <3>1, ExpireKeepsNotes
    <3>2. CASE \E t \in Turn : Gateway!Lapse(t)
      BY <1>1, <3>2, LapseKeepsNotes
    <3> QED BY <1>6, <3>1, <3>2 DEF Gateway!ClockMoves
  <2> QED BY <1>2, <2>1, <2>2
<1>7. CASE UNCHANGED Gateway!vars
  <2>1. UNCHANGED <<Gateway!noticeVars, sessions, live, agents, turn>>
    BY <1>7 DEF Gateway!vars, Gateway!sessionVars
  <2> QED BY <1>1, <1>2, <2>1 DEF Gateway!noticeVars
<1> QED BY <1>3, <1>4, <1>5, <1>6, <1>7

\* Every step of the gateway keeps the invariant,
LEMMA GatewayStep == GatewayInv /\ [Gateway!Next]_(Gateway!vars) => GatewayInv'
<1> SUFFICES ASSUME GatewayInv, [Gateway!Next]_(Gateway!vars) PROVE GatewayInv'
  OBVIOUS
<1>1. ASSUME NEW t \in Turn, Gateway!Step(t) PROVE GatewayInv'
  <2>1. CASE \E s \in Gateway!Session : Gateway!Get(t, s)
    BY <2>1, GetKeeps
  <2>2. CASE Gateway!Submit(t) \/ Gateway!Converse(t) \/ Gateway!TryLock(t)
        \/ Gateway!Unlock(t) \/ Gateway!PersistFails(t)
    BY <2>2, TalkKeeps
  <2>3. CASE Gateway!ClaimNotices(t) \/ Gateway!ReleaseNotices(t)
        \/ Gateway!PublishDeadTurn(t) \/ Gateway!AckNotices(t)
    BY <2>3, NoticesKeep
  <2>4. CASE Gateway!Append1(t)
    BY <2>4, AppendKeeps
  <2>5. CASE Gateway!EndParent(t)
    BY <2>5, EndParentKeeps
  <2>6. CASE Gateway!CreateChild(t)
    BY <2>6, CreateChildKeeps
  <2>7. CASE Gateway!SaveChild(t)
    BY <2>7, SaveChildKeeps
  <2>8. CASE Gateway!Register(t)
    BY <2>8, RegisterKeeps
  <2>9. CASE Gateway!RecordCost(t)
    BY <2>9, RecordCostKeeps
  <2> QED BY <1>1, <2>1, <2>2, <2>3, <2>4, <2>5, <2>6, <2>7, <2>8, <2>9 DEF Gateway!Step
<1>2. ASSUME NEW p \in Process, NEW s \in Gateway!Session, Gateway!Create(p, s) PROVE GatewayInv'
  BY <1>2, CreateKeeps
<1> QED BY <1>1, <1>2, WorldKeeps DEF Gateway!Next

\* which holds at the start
LEMMA GatewayInitially == Gateway!Init => GatewayInv
<1> SUFFICES ASSUME Gateway!Init PROVE GatewayInv
  OBVIOUS
<1>1. /\ board = {} /\ trail = <<>> /\ nextId = 1
      /\ sessions = [s \in {Root} |-> Gateway!Fresh(Gateway!NoSession)]
      /\ live = [p \in Process |-> {}] /\ agents = 0
  BY DEF Gateway!Init, Gateway!NoticeInit
<1>2. turn \in [Turn -> {[pc |-> "new", process |-> p, object |-> Gateway!NoObject, prior |-> <<>>,
                           token |-> FALSE, outcome |-> "none", child |-> FALSE,
                           committed |-> FALSE] : p \in Process}]
  BY DEF Gateway!Init
<1>3. Gateway!NoObject \in Gateway!Object
  BY DEF Gateway!NoObject, Gateway!Object, Gateway!Session
<1>4. \A t \in Turn : turn[t] \in Gateway!TurnRow /\ turn[t].pc = "new" /\ ~turn[t].committed
  <2> SUFFICES ASSUME NEW t \in Turn
               PROVE  turn[t] \in Gateway!TurnRow /\ turn[t].pc = "new" /\ ~turn[t].committed
    OBVIOUS
  <2>1. PICK p \in Process :
          turn[t] = [pc |-> "new", process |-> p, object |-> Gateway!NoObject, prior |-> <<>>,
                     token |-> FALSE, outcome |-> "none", child |-> FALSE, committed |-> FALSE]
    BY <1>2
  <2> QED BY <1>3, <2>1 DEF Gateway!TurnRow, Gateway!PC, Gateway!Outcome
<1>5. turn \in [Turn -> Gateway!TurnRow]
  BY <1>2, <1>4
<1>6. Gateway!Fresh(Gateway!NoSession) \in SessionRow
  BY DEF Gateway!Fresh, SessionRow
<1>7. Shapes
  BY <1>1, <1>5, <1>6 DEF Shapes, Gateway!Session
<1>8. \A t \in Turn : TurnInv(t)
  BY <1>1, <1>4, GatewayConstants DEF TurnInv
<1>9. Noted({}, <<>>, 1, Saved)
  <2>1. \A o : Of(<<>>, o) = {}
    BY DEF Of
  <2>2. \A o \in Owner : Card(Of(<<>>, o)) <= TrailCap
    <3>1. TrailCap \in Nat \ {0}
      BY GatewayConstants
    <3>2. Card({}) = 0
      BY CardEmptySet
    <3> QED BY <2>1, <3>1, <3>2
  <2> QED BY <2>2 DEF Noted, BoardRows, Books, TrailRows, Explains, AckedBy
<1> QED BY <1>1, <1>7, <1>8, <1>9 DEF GatewayInv

\* and says what NoticesExplained says.
LEMMA InvExplains == GatewayInv => Gateway!NoticesExplained
<1> SUFFICES ASSUME GatewayInv PROVE Gateway!NoticesExplained
  OBVIOUS
<1>1. Noted(board, trail, nextId, Saved) /\ TrailCap \in Nat
  BY GatewayConstants DEF GatewayInv
<1>2. trail \in Seq(Gateway!Tombstone)
  BY <1>1 DEF Noted, Books, TrailRows
<1>3. ASSUME NEW i \in 1..(nextId - 1)
      PROVE  \/ \E r \in board : r.id = i
             \/ \E k \in DOMAIN trail : trail[k].id = i
             \/ \E o \in Owner : Card({k \in DOMAIN trail : trail[k].owner = o}) = TrailCap
  <2>1. ASSUME NEW o \in Owner, TrailCap <= Card(Of(trail, o))
        PROVE  Card({k \in DOMAIN trail : trail[k].owner = o}) = TrailCap
    <3>1. Card(Of(trail, o)) <= TrailCap /\ Card(Of(trail, o)) \in Nat
      BY <1>1, <1>2, OfFinite DEF Noted
    <3>2. Card(Of(trail, o)) = TrailCap
      BY <1>1, <2>1, <3>1
    <3> QED BY <3>2 DEF Of
  <2> QED BY <1>1, <2>1 DEF Noted, Books, Explains, Ids
<1>4. ASSUME NEW k \in DOMAIN trail, trail[k].reason = "acked" PROVE Gateway!AckedOnce(k)
  <2>1. trail[k].token \in Saved
    BY <1>1, <1>4 DEF Noted, Books, AckedBy
  <2>2. \A j \in DOMAIN trail : trail[j].id = trail[k].id => j = k
    BY <1>1 DEF Noted, Books, TrailRows
  <2> QED BY <2>1, <2>2 DEF Saved, InTranscript, Gateway!AckedOnce
<1> QED BY <1>3, <1>4 DEF Gateway!NoticesExplained

\* The invariant, of the part that is about the gateway.
GatewayPart == part = "gateway" => GatewayInv

\* The gateway's part never leaves the invariant.
LEMMA GatewayHolds == Spec => []GatewayPart
<1>1. Init => GatewayPart
  BY GatewayInitially DEF Init, GatewayPart
<1>2. GatewayPart /\ [Next]_vars => GatewayPart'
  <2> SUFFICES ASSUME GatewayPart, [Next]_vars, part' = "gateway" PROVE GatewayInv'
    BY DEF GatewayPart
  <2>1. part = "gateway" /\ [Gateway!Next]_(Gateway!vars)
    <3>1. CASE Next
      BY <3>1 DEF Next
    <3>2. CASE UNCHANGED vars
      BY <3>2 DEF vars, after4, after7, Gateway!vars, Gateway!noticeVars, Gateway!sessionVars
    <3> QED BY <3>1, <3>2
  <2> QED BY <2>1, GatewayStep DEF GatewayPart
<1> QED BY <1>1, <1>2, PTL DEF Spec

\* No notice is lost without an explanation, whatever crashes, lapses, evictions
\* and forks come in between, and none is acknowledged twice, or by a turn whose
\* messages were not saved.
THEOREM RecordsExplainNotices == Spec => []NoticesExplained
<1>1. GatewayPart => NoticesExplained
  BY InvExplains DEF GatewayPart, NoticesExplained
<1> QED BY <1>1, GatewayHolds, PTL

-------------------------------------------------------------------------------
(* The books of a pipeline node, in the names of PipelineRun; leaves are   *)
(* its variable leaf.                                                      *)

budget == v1
leaves == v2
book == v3
stop == v4
job == v6
pipe == v7

USE DEF budget, leaves, book, stop, job, pipe

\* Short names for the operators of PipelineRun that the invariant is about.
Thread == Pipeline!Thread
Leaves == Pipeline!Leaves
Item == Pipeline!Item
Stage == Pipeline!Stage
Job == Pipeline!Job
Live(l) == Pipeline!Live(l)
Goto(t, pc) == Pipeline!Goto(t, pc)

USE DEF Thread, Leaves, Item, Stage, Job, Live, Goto

\* What the constants of a pipeline are.
LEMMA PipeConstants ==
    /\ Items \in Nat \ {0} /\ Stages \in Nat \ {0}
    /\ Retries \in Nat /\ SmallLifetime \in Nat
  BY RecordsAssumption DEF Pipeline!BudgetAssumption, Pipeline!PipelineAssumption

(* What PipelineRun counts with; the library's facts about it. *)
Count(S) == Pipeline!Cardinality(S)

\* PipelineRun counts as the library does.
LEMMA Tallies == \A S : Count(S) = Cardinality(S)
  BY DEF Count, Pipeline!Cardinality, Cardinality

LEMMA CountType ==
    ASSUME NEW S, IsFiniteSet(S) PROVE Count(S) \in Nat
  BY Tallies, FS_CardinalityType

LEMMA CountSubset ==
    ASSUME NEW S, IsFiniteSet(S), NEW T \in SUBSET S
    PROVE  IsFiniteSet(T) /\ Count(T) <= Count(S) /\ (Count(S) = Count(T) => S = T)
  BY Tallies, FS_Subset

LEMMA CountAddElement ==
    ASSUME NEW S, NEW x, IsFiniteSet(S)
    PROVE  IsFiniteSet(S \cup {x}) /\ Count(S \cup {x}) = IF x \in S THEN Count(S) ELSE Count(S) + 1
  BY Tallies, FS_AddElement

LEMMA CountRemoveElement ==
    ASSUME NEW S, NEW x, IsFiniteSet(S)
    PROVE  IsFiniteSet(S \ {x}) /\ Count(S \ {x}) = IF x \in S THEN Count(S) - 1 ELSE Count(S)
  BY Tallies, FS_RemoveElement

LEMMA CountInterval ==
    ASSUME NEW a \in Int, NEW b \in Int
    PROVE  IsFiniteSet(a..b) /\ Count(a..b) = IF a > b THEN 0 ELSE b - a + 1
  BY Tallies, FS_Interval

LEMMA CountUnion ==
    ASSUME NEW S, NEW T, IsFiniteSet(S), IsFiniteSet(T)
    PROVE  /\ IsFiniteSet(S \cup T)
           /\ Count(S \cup T) = Count(S) + Count(T) - Count(S \cap T)
  BY Tallies, FS_Union

LEMMA CountEmptySet == IsFiniteSet({}) /\ \A S : IsFiniteSet(S) => (Count(S) = 0 <=> S = {})
  BY Tallies, FS_EmptySet

USE DEF Count

\* The rows of the leaves.
PipeLeaf == [status : Pipeline!Terminal \cup {"queued", "running"},
             says : Pipeline!Answer \cup Pipeline!Death \cup {"nothing"},
             asked : BOOLEAN, turns : Nat]

\* The fields of the books and of the node's state.
BookFields == {"accounted", "pending", "tracked", "stragglers", "sealed", "expired", "tokens",
               "uncertain"}
PipeFields == {"results", "holes", "expired", "retries", "spawned", "sweep", "cells",
               "published", "status"}

\* The shapes of the records the accounts are about.
PipeShapes ==
    /\ budget \in [spawned : Nat, tokens : Nat, charges : Nat]
    /\ leaves \in Seq(PipeLeaf)
    /\ DOMAIN book = BookFields /\ DOMAIN pipe = PipeFields
    /\ book.accounted \subseteq Leaves /\ book.stragglers \subseteq Leaves
    /\ DOMAIN book.pending \subseteq Leaves /\ book.tracked \subseteq Leaves
    /\ book.tokens \in Nat /\ book.uncertain \in Nat /\ book.sealed \in BOOLEAN
    /\ job \in [0..Len(leaves) -> Job]
    /\ pipe.results \in [Item -> {"pending", "null", "answer"}]
    /\ pipe.sweep \subseteq Leaves /\ pipe.spawned \subseteq Leaves

\* Where a thread has an item; where the node's walk over the items is; where a
\* thread has spawned a leaf nobody watches yet; where the node thread is later.
HookPC == {"advance", "claim", "spawn", "drop", "finish", "charge", "accept", "stage", "stopall"}
WalkPC == {"advance", "claim", "spawn", "drop", "finish"}
HandPC == {"track", "append", "strand"}
AfterPC == {"read", "settle", "seal", "verdict", "end"}
NodePC == {"wait", "mark", "sweep"} \cup AfterPC

\* Thread t has its item: it works on it, or is a leaf whose hook has yet to fire.
Unfired(t, row) == t # 0 /\ row.pc = "idle" /\ row.sub = t
Carries(t, row) == row.pc \in HookPC \/ Unfired(t, row)

(* A leaf that runs has its hook before it, and costs nothing yet; it is   *)
(* accounted for when it does no more, and before it is charged.           *)
LeafRight(l) ==
    /\ leaves[l].turns \in {0, 1} /\ (Live(l) => leaves[l].turns = 0 /\ Unfired(l, job[l]))
    /\ l \in book.accounted => ~Live(l)
    /\ job[l].pc = "charge" => l \in book.accounted
    /\ job[l].pc = "idle" \/ job[l].sub # l

\* Slots: the spawns under way, and those given back with their account.
Spawning == {t \in Thread : job[t].pc = "spawn"}
GivenBack == {l \in book.accounted : leaves[l].status = "cancelled" /\ job[l].pc # "charge"}

\* A slot of the lifetime is a leaf or a spawn under way; none is beyond the budget.
Slots ==
    /\ budget.spawned + Count(GivenBack) = Count(Spawning) + Len(leaves)
    /\ budget.spawned <= SmallLifetime

\* The leaves whose turn was charged.
Billed == {l \in book.accounted : leaves[l].turns = 1}

\* What is charged is what was used; what came after the seal is only uncertain.
Balance ==
    /\ book.tokens = Count(Billed)
    /\ Count(book.stragglers) <= book.uncertain
    /\ book.accounted \cap book.stragglers = {}
    /\ ~book.sealed => book.stragglers = {}

(* Who does what.  While the node thread dispatches, the items after its   *)
(* own are nobody's yet.                                                   *)
Dispatching == job[0].pc \in WalkPC \cup HandPC

Roles ==
    /\ job[0].pc \in WalkPC \cup HandPC \cup NodePC
    /\ \A t \in Thread \ {0} : job[t].pc \in {"idle"} \cup HookPC \cup HandPC
    /\ \A t \in Thread : job[t].pc \in HandPC => job[t].sub \in Leaves
    /\ \A t \in Thread : job[t].item \in Item
    /\ Dispatching => /\ \A t \in Thread \ {0} : job[t].item <= job[0].item
                      /\ \A i \in Item : job[0].item < i => pipe.results[i] = "pending"

\* Whose cells are where, of the stages before the thread's own.
StageRight(row, cells) ==
    /\ \A s \in Stage : s < row.stage => <<row.item, s>> \in cells
    /\ row.pc \notin {"advance", "drop", "finish"} => row.stage \in Stage
    /\ row.pc = "finish" => row.stage > Stages

\* An item at work is unsettled, its earlier cells are whole, and one thread has it.
Walks(t) ==
    Carries(t, job[t]) =>
       /\ pipe.results[job[t].item] = "pending"
       /\ StageRight(job[t], pipe.cells)
       /\ \A u \in Thread \ {t} : Carries(u, job[u]) => job[u].item # job[t].item

Jobs == Roles /\ \A t \in Thread : Walks(t)

\* An answer has all its cells; a hole is an item without one.
Holes ==
    /\ \A i \in Item : pipe.results[i] = "answer" => {i} \X Stage \subseteq pipe.cells
    /\ pipe.holes = {i \in Item : \/ pipe.results[i] = "null"
                                  \/ pipe.expired /\ pipe.results[i] = "pending"}

\* Leaf l is over, asked to stop, or in the hands of the thread that spawned it.
Watched(l) ==
    \/ ~Live(l) \/ leaves[l].asked
    \/ \E t \in Thread : job[t].pc \in HandPC /\ job[t].sub = l

(* A leaf that nobody stops is one the sweep of a closed barrier finds.    *)
Barrier ==
    /\ pipe.expired \in BOOLEAN
    /\ Dispatching \/ job[0].pc = "wait" => ~pipe.expired
    /\ job[0].pc \in {"mark", "sweep"} => pipe.expired
    /\ job[0].pc \in AfterPC => pipe.expired \/ Pipeline!Settled = Item
    /\ \A l \in Leaves :
         \/ Watched(l)
         \/ l \in pipe.spawned /\ ~pipe.expired
         \/ l \in pipe.sweep /\ job[0].pc \in {"mark", "sweep"}

\* What is published says where the holes are, and every other item is whole.
Report ==
    /\ book.sealed <=> job[0].pc \in {"verdict", "end"}
    /\ pipe.published # <<>> <=> job[0].pc \in {"settle", "seal", "verdict", "end"}
    /\ \A n \in DOMAIN pipe.published :
         LET p == pipe.published[n] IN
         /\ p.holes = {i \in Item : p.results[i] = "null"}
         /\ \A i \in Item \ p.holes : {i} \X Stage \subseteq pipe.cells

Accounts == (\A l \in Leaves : LeafRight(l)) /\ Slots /\ Balance

\* The inductive invariant of a pipeline node.
PipeInv == PipeShapes /\ Accounts /\ Jobs /\ Holes /\ Barrier /\ Report

\* A node starts with no leaf, and its walk at the first item.
LEMMA PipeInitially == Pipeline!Init => PipeInv
<1> SUFFICES ASSUME Pipeline!Init PROVE PipeInv
  OBVIOUS
<1>1. /\ budget = [spawned |-> 0, tokens |-> 0, charges |-> 0] /\ leaves = <<>>
      /\ book = [accounted |-> {}, pending |-> <<>>, tracked |-> {}, stragglers |-> {},
                 sealed |-> FALSE, expired |-> "no", tokens |-> 0, uncertain |-> 0]
      /\ job = [t \in {0} |-> [pc |-> "advance", item |-> 1, stage |-> 1, again |-> FALSE, sub |-> 0]]
  BY DEF Pipeline!Init, Pipeline!BooksInit, Pipeline!BudgetInit
<1>2. PICK cells \in {{}, {<<1, 1>>}} :
         pipe = [results |-> [i \in Item |-> "pending"], holes |-> {}, expired |-> FALSE,
                 retries |-> [c \in Item \X Stage |-> 0], spawned |-> {}, sweep |-> {},
                 cells |-> cells, published |-> <<>>, status |-> "running"]
  BY DEF Pipeline!Init
<1>3. Len(leaves) = 0 /\ 0..Len(leaves) = {0} /\ Leaves = {} /\ Thread = {0} /\ leaves \in Seq(PipeLeaf)
  BY <1>1 DEF Pipeline!Leaves, Pipeline!Thread
<1>4. job[0] = [pc |-> "advance", item |-> 1, stage |-> 1, again |-> FALSE, sub |-> 0]
  BY <1>1
<1>5. PipeShapes
  <2>1. job \in [0..Len(leaves) -> Job]
    BY <1>1, <1>3, PipeConstants DEF Pipeline!Job, Pipeline!PC
  <2>2. DOMAIN book.pending = {}
    BY <1>1
  <2> QED BY <1>1, <1>2, <1>3, <2>1, <2>2 DEF PipeShapes, BookFields, PipeFields
<1>6. Accounts
  <2>1. GivenBack = {} /\ Spawning = {} /\ Billed = {}
    BY <1>1, <1>3, <1>4 DEF GivenBack, Spawning, Billed
  <2> QED BY <1>1, <1>3, <2>1, CountEmptySet, PipeConstants DEF Accounts, Slots, Balance
<1>7. Jobs
  <2>1. Roles
    BY <1>2, <1>3, <1>4, PipeConstants DEF Roles, WalkPC, HandPC, Dispatching, Pipeline!Item
  <2>2. Walks(0)
    BY <1>2, <1>3, <1>4, PipeConstants DEF Walks, StageRight, Pipeline!Item, Pipeline!Stage
  <2> QED BY <1>3, <2>1, <2>2 DEF Jobs
<1>8. Holes /\ Barrier /\ Report
  BY <1>1, <1>2, <1>3, <1>4
     DEF Holes, Barrier, Report, Dispatching, WalkPC, HandPC, AfterPC, Pipeline!Settled
<1> QED BY <1>5, <1>6, <1>7, <1>8 DEF PipeInv

\* What the invariant says of the books and of the report.
LEMMA PipeSays == PipeInv => Pipeline!BooksAreTheLeaves /\ Pipeline!ReportIsFinal
<1> SUFFICES ASSUME PipeInv PROVE Pipeline!BooksAreTheLeaves /\ Pipeline!ReportIsFinal
  OBVIOUS
<1> USE DEF PipeInv
<1>1. DOMAIN job = 0..Len(leaves) /\ Len(leaves) \in Nat /\ Leaves = 1..Len(leaves)
      /\ IsFiniteSet(Leaves) /\ IsFiniteSet(Thread) /\ Thread = 0..Len(leaves)
  <2>1. DOMAIN job = 0..Len(leaves) /\ Len(leaves) \in Nat
    BY DEF PipeShapes
  <2>2. IsFiniteSet(1..Len(leaves)) /\ IsFiniteSet(0..Len(leaves))
    BY <2>1, CountInterval
  <2> QED BY <2>1, <2>2 DEF Pipeline!Leaves, Pipeline!Thread
<1>2. Pipeline!SlotsAreLeaves
  <2>1. {t \in Thread : Pipeline!At(t, "spawn")} = Spawning
    BY DEF Pipeline!At, Spawning
  <2>2. {l \in book.accounted : leaves[l].status = "cancelled" /\ ~Pipeline!At(l, "charge")} = GivenBack
    BY <1>1 DEF Pipeline!At, GivenBack, PipeShapes
  <2>3. IsFiniteSet(Spawning) /\ IsFiniteSet(GivenBack)
    BY <1>1, CountSubset DEF Spawning, GivenBack, PipeShapes
  <2>4. Count(Spawning) \in Nat /\ Count(GivenBack) \in Nat /\ budget.spawned \in Nat
    BY <2>3, CountType DEF PipeShapes
  <2> QED BY <1>1, <2>1, <2>2, <2>4 DEF Pipeline!SlotsAreLeaves, Accounts, Slots
<1>3. Pipeline!SealedIsFinal
  <2>1. IsFiniteSet(book.accounted) /\ IsFiniteSet(book.stragglers) /\ IsFiniteSet(Pipeline!Costly)
        /\ Pipeline!Costly \subseteq Leaves
    <3>1. Pipeline!Costly \subseteq Leaves
      BY DEF Pipeline!Costly, PipeShapes
    <3> QED BY <1>1, <3>1, CountSubset DEF PipeShapes
  <2>2. /\ Billed \subseteq Pipeline!Costly /\ IsFiniteSet(Billed)
        /\ Pipeline!Costly \subseteq Billed \cup book.stragglers
    <3>1. /\ Billed \subseteq Pipeline!Costly
          /\ Pipeline!Costly \subseteq Billed \cup book.stragglers
      BY DEF Billed, Pipeline!Costly, Pipeline!Cost
    <3> QED BY <2>1, <3>1, CountSubset
  <2>3. Count(Billed) <= Count(Pipeline!Costly)
    BY <2>1, <2>2, CountSubset
  <2>4. Count(Pipeline!Costly) <= Count(Billed) + Count(book.stragglers)
    <3>1. IsFiniteSet(Billed \cup book.stragglers)
          /\ Count(Billed \cup book.stragglers)
               = Count(Billed) + Count(book.stragglers) - Count(Billed \cap book.stragglers)
      BY <2>1, <2>2, CountUnion
    <3>2. Count(Pipeline!Costly) <= Count(Billed \cup book.stragglers)
      BY <2>2, <3>1, CountSubset
    <3>3. Billed \cap book.stragglers = {} /\ Count({}) = 0
      BY CountEmptySet DEF Billed, Accounts, Balance
    <3>4. /\ Count(Billed) \in Nat /\ Count(book.stragglers) \in Nat
          /\ Count(Pipeline!Costly) \in Nat
      BY <2>1, <2>2, CountType
    <3>5. Count(Billed \cup book.stragglers)
            = Count(Billed) + Count(book.stragglers)
      <4>1. Count(Billed \cap book.stragglers) = 0
        BY <3>3
      <4> HIDE DEF Billed
      <4> DEFINE both == Count(Billed \cup book.stragglers)
               none == Count(Billed \cap book.stragglers)
      <4>2. both = Count(Billed) + Count(book.stragglers) - none /\ none = 0
        BY <3>1, <4>1
      <4> HIDE DEF both, none
      <4> QED BY <3>4, <4>2 DEF both
    <3> QED BY <3>2, <3>5
  <2>5. /\ Count(Billed) \in Nat /\ Count(book.stragglers) \in Nat
        /\ Count(Pipeline!Costly) \in Nat
    BY <2>1, <2>2, CountType
  <2> QED BY <2>3, <2>4, <2>5 DEF Pipeline!SealedIsFinal, Accounts, Balance, PipeShapes
<1>4. Pipeline!ReportIsFinal
  <2>1. ASSUME pipe.published # <<>>, NEW l \in Leaves, Live(l), ~leaves[l].asked
        PROVE  \E t \in Thread : /\ job[t].pc \in {"track", "append", "strand"}
                                 /\ job[t].sub = l
    <3>1. job[0].pc \in {"settle", "seal", "verdict", "end"}
      BY <2>1 DEF Report
    <3>2. CASE Pipeline!Settled = Item
      <4>1. l \in Thread /\ Carries(l, job[l])
        BY <1>1, <2>1 DEF Accounts, LeafRight, Carries
      <4>2. pipe.results[job[l].item] = "pending" /\ job[l].item \in Item
        BY <4>1 DEF Jobs, Walks, Roles
      <4> QED BY <3>2, <4>2 DEF Pipeline!Settled
    <3>3. CASE pipe.expired
      BY <2>1, <3>1, <3>3 DEF Barrier, Watched, HandPC
    <3> QED BY <3>1, <3>2, <3>3 DEF Barrier, AfterPC
  <2> QED BY <2>1 DEF Pipeline!ReportIsFinal, Report
<1> QED BY <1>2, <1>3, <1>4 DEF Pipeline!BooksAreTheLeaves

\* What the shapes say of how many there are.
LEMMA PipeBasics ==
    ASSUME PipeShapes
    PROVE  /\ Len(leaves) \in Nat /\ Leaves = 1..Len(leaves) /\ Thread = 0..Len(leaves)
           /\ job \in [Thread -> Job] /\ leaves \in [Leaves -> PipeLeaf]
           /\ IsFiniteSet(Leaves) /\ IsFiniteSet(Thread) /\ IsFiniteSet(Spawning)
           /\ IsFiniteSet(book.accounted) /\ IsFiniteSet(GivenBack) /\ IsFiniteSet(Billed)
           /\ Count(Spawning) \in Nat /\ Count(GivenBack) \in Nat
           /\ Count(Billed) \in Nat /\ Count(Leaves) = Len(leaves)
<1>1. Len(leaves) \in Nat /\ DOMAIN job = 0..Len(leaves) /\ DOMAIN leaves = 1..Len(leaves)
  BY DEF PipeShapes
<1>2. IsFiniteSet(1..Len(leaves)) /\ IsFiniteSet(0..Len(leaves)) /\ Count(1..Len(leaves)) = Len(leaves)
  BY <1>1, CountInterval
<1>3. Leaves = 1..Len(leaves) /\ Thread = 0..Len(leaves)
  BY <1>1 DEF Pipeline!Leaves, Pipeline!Thread
<1>4. Spawning \subseteq Thread /\ book.accounted \subseteq Leaves
      /\ GivenBack \subseteq Leaves /\ Billed \subseteq Leaves
  BY DEF Spawning, GivenBack, Billed, PipeShapes
<1>5. /\ IsFiniteSet(Spawning) /\ IsFiniteSet(book.accounted)
      /\ IsFiniteSet(GivenBack) /\ IsFiniteSet(Billed)
  BY <1>2, <1>3, <1>4, CountSubset
<1>6. /\ Count(Spawning) \in Nat /\ Count(GivenBack) \in Nat
      /\ Count(Billed) \in Nat
  BY <1>5, CountType
<1>7. job \in [Thread -> Job] /\ leaves \in [Leaves -> PipeLeaf]
  BY <1>1, <1>3 DEF PipeShapes
<1> QED BY <1>1, <1>2, <1>3, <1>5, <1>6, <1>7

\* One thread's row changes.
Moves(t, row) ==
    /\ row \in Job /\ job' = [job EXCEPT ![t] = row]

\* The others' rows stay.
LEMMA Moved ==
    ASSUME PipeShapes, NEW t \in Thread, NEW row, Moves(t, row)
    PROVE  /\ job' \in [Thread -> Job] /\ Thread' = Thread
           /\ job'[t] = row /\ \A u \in Thread \ {t} : job'[u] = job[u]
<1>1. job \in [Thread -> Job]
  BY PipeBasics
<1> QED BY <1>1 DEF Moves, Pipeline!Thread

\* A thread that has its item keeps it.
LEMMA ItemGoesOn ==
    ASSUME PipeShapes, Jobs, NEW t \in Thread, NEW row, Moves(t, row),
           Carries(t, job[t]), row.pc \in HookPC, t = 0 => row.pc \in WalkPC,
           row.item = job[t].item, StageRight(row, pipe'.cells),
           pipe'.results = pipe.results, pipe.cells \subseteq pipe'.cells, Leaves \subseteq Leaves'
    PROVE  Jobs'
<1>1. /\ Thread' = Thread /\ job'[t] = row /\ \A u \in Thread \ {t} : job'[u] = job[u]
  BY Moved
<1>2. 0 \in Thread /\ (t = 0 => Dispatching)
  <2>1. t = 0 => job[0].pc \in HookPC /\ job[0].pc \in WalkPC \cup HandPC \cup NodePC
    BY DEF Jobs, Roles, Carries, Unfired
  <2> QED BY <2>1, PipeBasics DEF Dispatching, HookPC, WalkPC, HandPC, NodePC, AfterPC
<1>3. Roles'
  <2>1. job'[0].item = job[0].item /\ (Dispatching' => Dispatching)
    BY <1>1, <1>2 DEF Dispatching
  <2>2. row.pc \notin HandPC
    BY DEF HookPC, HandPC
  <2>3. job'[0].pc \in WalkPC \cup HandPC \cup NodePC
    BY <1>1, <1>2 DEF Jobs, Roles
  <2>4. \A u \in Thread \ {0} : job'[u].pc \in {"idle"} \cup HookPC \cup HandPC
    BY <1>1 DEF Jobs, Roles
  <2>5. /\ \A u \in Thread : job'[u].pc \in HandPC => job'[u].sub \in Leaves'
        /\ \A u \in Thread : job'[u].item = job[u].item
    BY <1>1, <2>2 DEF Jobs, Roles
  <2> QED BY <1>1, <2>1, <2>3, <2>4, <2>5 DEF Jobs, Roles
<1>4. Walks(t)'
  BY <1>1 DEF Jobs, Walks
<1>5. ASSUME NEW u \in Thread \ {t} PROVE Walks(u)'
  <2>1. Walks(u) /\ job'[u] = job[u]
    BY <1>1 DEF Jobs
  <2>2. Carries(u, job[u]) => StageRight(job[u], pipe'.cells)
    BY <2>1 DEF Walks, StageRight
  <2> QED BY <1>1, <2>1, <2>2 DEF Walks
<1> QED BY <1>1, <1>3, <1>4, <1>5 DEF Jobs

\* A thread hands over what it spawned.
LEMMA HandsOver ==
    ASSUME PipeShapes, Jobs, NEW t \in Thread, NEW row, Moves(t, row),
           job[t].pc \in HandPC, row.pc \in HandPC, row.sub = job[t].sub,
           row.item = job[t].item,
           pipe'.results = pipe.results, pipe.cells \subseteq pipe'.cells, Leaves \subseteq Leaves'
    PROVE  Jobs'
<1>1. /\ Thread' = Thread /\ job'[t] = row /\ \A u \in Thread \ {t} : job'[u] = job[u]
  BY Moved
<1>2. 0 \in Thread
  BY PipeBasics
<1>3. Roles'
  <2>1. job'[0].item = job[0].item /\ (Dispatching' => Dispatching)
    BY <1>1, <1>2 DEF Dispatching
  <2>2. job'[0].pc \in WalkPC \cup HandPC \cup NodePC
        /\ \A u \in Thread \ {0} : job'[u].pc \in {"idle"} \cup HookPC \cup HandPC
    BY <1>1, <1>2 DEF Jobs, Roles
  <2>3. /\ \A u \in Thread : job'[u].pc \in HandPC => job'[u].sub \in Leaves'
        /\ \A u \in Thread : job'[u].item = job[u].item
    BY <1>1 DEF Jobs, Roles
  <2> QED BY <1>1, <2>1, <2>2, <2>3 DEF Jobs, Roles
<1>4. ASSUME NEW u \in Thread PROVE Walks(u)'
  <2>1. Walks(u) /\ \A x \in Thread : Carries(x, job'[x]) => job'[x] = job[x]
    BY <1>1 DEF Jobs, Carries, Unfired, HandPC, HookPC
  <2>2. Carries(u, job[u]) => StageRight(job[u], pipe'.cells)
    BY <2>1 DEF Walks, StageRight
  <2> QED BY <1>1, <2>1, <2>2 DEF Walks
<1> QED BY <1>1, <1>3, <1>4 DEF Jobs

\* The row of a thread that returns from its item.
LEMMA ReturnedRow ==
    ASSUME PipeShapes, NEW t \in Thread, job' = Pipeline!Returned(t), Roles
    PROVE  \E row : /\ Moves(t, row) /\ row.sub = job[t].sub
                    /\ t # 0 => row.pc = "idle" /\ row.item = job[t].item
                    /\ t = 0 => \/ row.pc = "wait" /\ row.item = job[0].item
                                \/ /\ row.pc = "advance" /\ row.stage = 1
                                   /\ row.item = job[0].item + 1 /\ row.item \in Item
<1>1. job \in [Thread -> Job] /\ job[t] \in Job
  BY PipeBasics
<1>2. CASE t # 0
  <2> DEFINE row == [job[t] EXCEPT !.pc = "idle"]
  <2>1. row \in Job /\ row.sub = job[t].sub /\ row.pc = "idle" /\ row.item = job[t].item
    BY <1>1 DEF Pipeline!Job, Pipeline!PC
  <2>2. job' = [job EXCEPT ![t] = row]
    BY <1>1, <1>2 DEF Pipeline!Returned
  <2> QED BY <1>2, <2>1, <2>2 DEF Moves
<1>3. CASE t = 0 /\ job[0].item < Items
  <2> DEFINE row == [job[0] EXCEPT !.pc = "advance", !.item = @ + 1, !.stage = 1]
  <2>1. job[0].item \in Item
    BY <1>3 DEF Roles
  <2>2. /\ row \in Job /\ row.sub = job[t].sub /\ row.pc = "advance" /\ row.stage = 1
        /\ row.item = job[0].item + 1 /\ row.item \in Item
    <3>1. job[0] \in Job /\ 1 \in 1..Stages + 1 /\ job[0].item + 1 \in 1..Items
      BY <1>1, <1>3, <2>1, PipeConstants DEF Pipeline!Item
    <3>2. job[0].item + 1 \in 0..Items
      BY <3>1, PipeConstants
    <3> QED BY <1>3, <3>1, <3>2 DEF Pipeline!Job, Pipeline!PC, Pipeline!Item
  <2>3. job' = [job EXCEPT ![t] = row]
    BY <1>1, <1>3 DEF Pipeline!Returned
  <2> QED BY <1>3, <2>2, <2>3 DEF Moves
<1>4. CASE t = 0 /\ ~(job[0].item < Items)
  <2> DEFINE row == [job[0] EXCEPT !.pc = "wait"]
  <2>1. row \in Job /\ row.sub = job[t].sub /\ row.pc = "wait" /\ row.item = job[0].item
    BY <1>1, <1>4 DEF Pipeline!Job, Pipeline!PC
  <2>2. job' = [job EXCEPT ![t] = row]
    BY <1>1, <1>4 DEF Pipeline!Returned
  <2> QED BY <1>4, <2>1, <2>2 DEF Moves
<1> QED BY <1>2, <1>3, <1>4

\* A thread returns from its item, and may have settled it.
LEMMA Returns ==
    ASSUME PipeShapes, Jobs, NEW t \in Thread, job' = Pipeline!Returned(t), t = 0 => Dispatching,
           t # 0 => job[t].sub # t,
           \A i \in Item : pipe'.results[i] # pipe.results[i]
                             => i = job[t].item /\ Carries(t, job[t]),
           pipe.cells \subseteq pipe'.cells, Leaves \subseteq Leaves'
    PROVE  Jobs'
<1>1. PICK row : /\ Moves(t, row) /\ row.sub = job[t].sub
                 /\ t # 0 => row.pc = "idle" /\ row.item = job[t].item
                 /\ t = 0 => \/ row.pc = "wait" /\ row.item = job[0].item
                             \/ /\ row.pc = "advance" /\ row.stage = 1
                                /\ row.item = job[0].item + 1 /\ row.item \in Item
  BY ReturnedRow DEF Jobs
<1>2. /\ Thread' = Thread /\ job'[t] = row /\ \A u \in Thread \ {t} : job'[u] = job[u]
      /\ 0 \in Thread
  BY <1>1, Moved, PipeBasics
<1>3. Carries(t, row) => t = 0 /\ row.pc = "advance" /\ Dispatching
  BY <1>1 DEF Carries, Unfired, HookPC
<1>4. \A u \in Thread : job[u].item \in Item /\ job[u].item \in Int
  BY PipeConstants DEF Jobs, Roles, Pipeline!Item
<1>5. \A u \in Thread : job'[u].item \in Item
  BY <1>1, <1>2, <1>4
<1>6. Dispatching' => Dispatching /\ job[0].item <= job'[0].item
  BY <1>1, <1>2, <1>4 DEF Dispatching
<1>7. Roles'
  <2>1. job'[0].pc \in WalkPC \cup HandPC \cup NodePC
        /\ \A u \in Thread \ {0} : job'[u].pc \in {"idle"} \cup HookPC \cup HandPC
    BY <1>1, <1>2 DEF Jobs, Roles, WalkPC, NodePC
  <2>2. \A u \in Thread : job'[u].pc \in HandPC => job'[u].sub \in Leaves'
    BY <1>1, <1>2 DEF Jobs, Roles, HandPC
  <2>3. ASSUME Dispatching'
        PROVE  \A u \in Thread \ {0} : job'[u].item <= job'[0].item
    <3>1. \A u \in Thread \ {0} : job'[u].item = job[u].item /\ job[u].item <= job[0].item
      BY <1>1, <1>2, <1>6, <2>3 DEF Jobs, Roles
    <3> QED BY <1>2, <1>4, <1>5, <1>6, <2>3, <3>1 DEF Pipeline!Item
  <2>4. ASSUME Dispatching', NEW i \in Item, job'[0].item < i
        PROVE  pipe'.results[i] = "pending"
    <3>1. job[0].item < i
      BY <1>2, <1>4, <1>5, <1>6, <2>4 DEF Pipeline!Item
    <3>2. job[t].item <= job[0].item
      BY <1>2, <1>4, <1>6, <2>4 DEF Jobs, Roles
    <3>3. i # job[t].item
      BY <1>2, <1>4, <3>1, <3>2 DEF Pipeline!Item
    <3> QED BY <1>6, <2>4, <3>1, <3>3 DEF Jobs, Roles
  <2> QED BY <1>2, <1>5, <2>1, <2>2, <2>3, <2>4 DEF Roles
<1>8. Walks(t)'
  <2> SUFFICES ASSUME Carries(t, row) PROVE Walks(t)'
    BY <1>2 DEF Walks
  <2>1. t = 0 /\ row.pc = "advance" /\ row.stage = 1 /\ row.item = job[0].item + 1
        /\ row.item \in Item /\ Dispatching
    BY <1>1, <1>3
  <2>2. job[0].item < row.item /\ row.item # job[t].item
    BY <1>2, <1>4, <2>1
  <2>3. pipe'.results[row.item] = "pending"
    BY <2>1, <2>2 DEF Jobs, Roles
  <2>4. StageRight(row, pipe'.cells)
    BY <2>1, PipeConstants DEF StageRight, Pipeline!Stage
  <2>5. \A u \in Thread \ {t} : job'[u].item # row.item
    BY <1>2, <1>4, <2>1, <2>2 DEF Jobs, Roles
  <2> QED BY <1>2, <2>3, <2>4, <2>5 DEF Walks
<1>9. ASSUME NEW u \in Thread \ {t} PROVE Walks(u)'
  <2> SUFFICES ASSUME Carries(u, job[u]) PROVE Walks(u)'
    BY <1>2 DEF Walks
  <2>1. Walks(u) /\ job'[u] = job[u]
    BY <1>2 DEF Jobs
  <2>2. pipe'.results[job[u].item] = "pending"
    BY <1>4, <2>1 DEF Walks
  <2>3. StageRight(job[u], pipe'.cells)
    BY <2>1 DEF Walks, StageRight
  <2>4. Carries(t, row) => row.item # job[u].item
    <3> SUFFICES ASSUME Carries(t, row) PROVE row.item # job[u].item
      OBVIOUS
    <3>1. t = 0 /\ Dispatching /\ row.item = job[0].item + 1
      BY <1>1, <1>3
    <3>2. job[u].item <= job[0].item
      BY <3>1 DEF Jobs, Roles
    <3> QED BY <1>2, <1>4, <3>1, <3>2
  <2>5. \A x \in Thread \ {u} : Carries(x, job'[x]) => job'[x].item # job[u].item
    BY <1>2, <2>1, <2>4 DEF Walks
  <2> QED BY <1>2, <2>1, <2>2, <2>3, <2>5 DEF Walks
<1> QED BY <1>2, <1>7, <1>8, <1>9 DEF Jobs

\* What the barrier and the report ask of a step of a thread on its item.
Calm(t, row) ==
    /\ Moves(t, row) /\ Leaves' = Leaves
    /\ t = 0 => Dispatching /\ row.pc \in WalkPC \cup HandPC \cup {"wait"}
    /\ \A l \in Leaves : (Live(l)' => Live(l)) /\ (leaves[l].asked => leaves'[l].asked)
    /\ job[t].pc \in HandPC =>
         \/ row.pc \in HandPC /\ row.sub = job[t].sub
         \/ job[t].sub \in pipe'.spawned /\ ~pipe'.expired
         \/ \E l \in Leaves : l = job[t].sub /\ (~Live(l)' \/ leaves'[l].asked)
    /\ pipe'.expired = pipe.expired /\ pipe'.sweep = pipe.sweep
    /\ pipe.spawned \subseteq pipe'.spawned /\ pipe.cells \subseteq pipe'.cells
    /\ pipe'.published = pipe.published /\ book'.sealed = book.sealed
    /\ \A i \in Item : pipe'.results[i] = "pending" => pipe.results[i] = "pending"

\* A calm step opens no barrier and reports nothing: what is left is its own part.
LEMMA Calmly ==
    ASSUME PipeInv, PipeShapes', Accounts', Jobs', Holes',
           NEW t \in Thread, NEW row, Calm(t, row)
    PROVE  PipeInv'
<1>1. /\ Thread' = Thread /\ job'[t] = row /\ \A u \in Thread \ {t} : job'[u] = job[u]
      /\ 0 \in Thread
  BY Moved, PipeBasics DEF Calm, PipeInv
<1>2. \/ job'[0].pc = job[0].pc
      \/ Dispatching /\ job'[0].pc \in WalkPC \cup HandPC \cup {"wait"}
  BY <1>1 DEF Calm
<1>3. Barrier'
  <2>1. /\ pipe'.expired \in BOOLEAN
        /\ Dispatching' \/ job'[0].pc = "wait" => ~pipe'.expired
        /\ job'[0].pc \in {"mark", "sweep"} => job'[0].pc = job[0].pc /\ pipe'.expired
    BY <1>2 DEF Barrier, PipeInv, Calm, Dispatching, WalkPC, HandPC
  <2>2. job'[0].pc \in AfterPC => pipe'.expired \/ Pipeline!Settled' = Item
    <3>1. job'[0].pc \in AfterPC => job'[0].pc = job[0].pc
      BY <1>2 DEF AfterPC, WalkPC, HandPC
    <3>2. Pipeline!Settled = Item => Pipeline!Settled' = Item
      BY DEF Calm, Pipeline!Settled
    <3> QED BY <3>1, <3>2 DEF Barrier, PipeInv, Calm
  <2>3. ASSUME NEW l \in Leaves
        PROVE  \/ Watched(l)'
               \/ l \in pipe'.spawned /\ ~pipe'.expired
               \/ l \in pipe'.sweep /\ job'[0].pc \in {"mark", "sweep"}
    <3>1. CASE ~Live(l) \/ leaves[l].asked
      BY <3>1 DEF Calm, Watched
    <3>2. CASE \E u \in Thread : job[u].pc \in HandPC /\ job[u].sub = l
      <4>1. PICK u \in Thread : job[u].pc \in HandPC /\ job[u].sub = l
        BY <3>2
      <4>2. CASE u = t
        BY <1>1, <4>1, <4>2 DEF Calm, Watched
      <4>3. CASE u # t
        BY <1>1, <4>1, <4>3 DEF Watched
      <4> QED BY <4>2, <4>3
    <3>3. CASE l \in pipe.spawned /\ ~pipe.expired
      BY <3>3 DEF Calm
    <3>4. CASE l \in pipe.sweep /\ job[0].pc \in {"mark", "sweep"}
      <4>1. ~Dispatching
        BY <3>4 DEF Dispatching, WalkPC, HandPC
      <4> QED BY <1>2, <3>4, <4>1 DEF Calm
    <3> QED BY <3>1, <3>2, <3>3, <3>4 DEF Barrier, PipeInv, Watched
  <2> QED BY <2>1, <2>2, <2>3 DEF Barrier, Calm
<1>4. Report'
  <2>1. job'[0].pc \in {"settle", "seal", "verdict", "end"}
          <=> job[0].pc \in {"settle", "seal", "verdict", "end"} /\ job'[0].pc = job[0].pc
    BY <1>2 DEF Dispatching, WalkPC, HandPC
  <2>2. job[0].pc \in {"settle", "seal", "verdict", "end"} => job'[0].pc = job[0].pc
    BY <1>2 DEF Dispatching, WalkPC, HandPC
  <2> QED BY <2>1, <2>2 DEF Report, PipeInv, Calm
<1> QED BY <1>3, <1>4 DEF PipeInv

\* Cells may be added: the holes are the same.
LEMMA HolesStay ==
    ASSUME Holes, pipe'.results = pipe.results, pipe'.holes = pipe.holes,
           pipe'.expired = pipe.expired, pipe.cells \subseteq pipe'.cells
    PROVE  Holes'
  BY DEF Holes

\* A step that opens and closes no account.
LEMMA AccountsStay ==
    ASSUME PipeShapes, Accounts, NEW t \in Thread, NEW row, Moves(t, row),
           UNCHANGED <<budget, leaves>>, book'.accounted = book.accounted,
           book'.stragglers = book.stragglers, book'.tokens = book.tokens,
           book'.uncertain = book.uncertain, book'.sealed = book.sealed,
           job[t].pc \notin {"spawn", "charge"}, row.pc \notin {"spawn", "charge"},
           ~Unfired(t, job[t]), t = 0 \/ row.pc = "idle" \/ row.sub # t
    PROVE  Accounts'
<1>1. /\ Thread' = Thread /\ job'[t] = row /\ \A u \in Thread \ {t} : job'[u] = job[u]
  BY Moved
<1>2. Leaves' = Leaves /\ Leaves \subseteq Thread \ {0}
  BY PipeBasics DEF Pipeline!Leaves
<1>3. ASSUME NEW l \in Leaves PROVE LeafRight(l)'
  BY <1>1, <1>2 DEF Accounts, LeafRight, Pipeline!Live
<1>4. Spawning' = Spawning
  BY <1>1 DEF Spawning
<1>5. GivenBack' = GivenBack
  <2>1. book.accounted \subseteq Thread
    BY <1>2 DEF PipeShapes
  <2> QED BY <1>1, <2>1 DEF GivenBack
<1>6. Billed' = Billed
  BY DEF Billed
<1> QED BY <1>2, <1>3, <1>4, <1>5, <1>6 DEF Accounts, Slots, Balance

\* What a step does to the leaves and the pipe while no item is settled.
Onward ==
    /\ Leaves' = Leaves
    /\ \A l \in Leaves : (Live(l)' => Live(l)) /\ (leaves[l].asked => leaves'[l].asked)
    /\ pipe'.expired = pipe.expired /\ pipe'.sweep = pipe.sweep
    /\ pipe.spawned \subseteq pipe'.spawned /\ pipe.cells \subseteq pipe'.cells
    /\ pipe'.published = pipe.published /\ book'.sealed = book.sealed

\* A thread goes on with its item.
LEMMA WalksOn ==
    ASSUME PipeInv, NEW t \in Thread, NEW row, Moves(t, row), PipeShapes', Accounts', Onward,
           pipe'.results = pipe.results, pipe'.holes = pipe.holes,
           row.item = job[t].item, Carries(t, job[t]),
           row.pc \in HookPC, t = 0 => row.pc \in WalkPC, StageRight(row, pipe'.cells)
    PROVE  PipeInv'
<1> USE DEF PipeInv
<1>1. Jobs'
  BY ItemGoesOn DEF Onward
<1>2. Holes'
  BY HolesStay DEF Onward
<1>3. Calm(t, row)
  <2>1. t = 0 => Dispatching
    <3>1. t = 0 => job[0].pc \in HookPC /\ job[0].pc \in WalkPC \cup HandPC \cup NodePC
      BY DEF Jobs, Roles, Carries, Unfired
    <3> QED BY <3>1 DEF Dispatching, HookPC, WalkPC, HandPC, NodePC, AfterPC
  <2>2. job[t].pc \notin HandPC
    BY DEF Carries, Unfired, HookPC, HandPC
  <2> QED BY <2>1, <2>2 DEF Calm, Onward
<1> QED BY <1>1, <1>2, <1>3, Calmly

\* A thread returns from its item.
LEMMA ReturnsOn ==
    ASSUME PipeInv, NEW t \in Thread, job' = Pipeline!Returned(t), t = 0 => Dispatching,
           PipeShapes', Accounts', Onward, Holes',
           t # 0 => job[t].sub # t,
           job[t].pc \in HandPC =>
             \/ job[t].sub \in pipe'.spawned /\ ~pipe'.expired
             \/ \E l \in Leaves : l = job[t].sub /\ (~Live(l)' \/ leaves'[l].asked),
           \A i \in Item : pipe'.results[i] = "pending" => pipe.results[i] = "pending",
           \A i \in Item : pipe'.results[i] # pipe.results[i]
                             => i = job[t].item /\ Carries(t, job[t])
    PROVE  PipeInv'
<1> USE DEF PipeInv
<1>1. PICK row : /\ Moves(t, row) /\ row.sub = job[t].sub
                 /\ t # 0 => row.pc = "idle" /\ row.item = job[t].item
                 /\ t = 0 => \/ row.pc = "wait" /\ row.item = job[0].item
                             \/ /\ row.pc = "advance" /\ row.stage = 1
                                /\ row.item = job[0].item + 1 /\ row.item \in Item
  BY ReturnedRow DEF Jobs
<1>2. Jobs'
  <2>1. pipe.cells \subseteq pipe'.cells /\ Leaves \subseteq Leaves'
    BY DEF Onward
  <2> QED BY <2>1, Returns
<1>3. Calm(t, row)
  <2>1. /\ Moves(t, row)
        /\ t = 0 => Dispatching /\ row.pc \in WalkPC \cup HandPC \cup {"wait"}
    BY <1>1 DEF WalkPC
  <2> QED BY <2>1 DEF Calm, Onward
<1> QED BY <1>2, <1>3, Calmly

\* Nothing but the threads and the items' cells moves.
Quiet ==
    /\ UNCHANGED <<budget, leaves>> /\ DOMAIN book' = BookFields /\ DOMAIN pipe' = PipeFields
    /\ book'.accounted = book.accounted /\ book'.stragglers = book.stragglers
    /\ book'.tokens = book.tokens /\ book'.uncertain = book.uncertain
    /\ book'.sealed = book.sealed
    /\ DOMAIN book'.pending \subseteq Leaves /\ book'.tracked \subseteq Leaves
    /\ pipe'.expired = pipe.expired /\ pipe'.sweep = pipe.sweep
    /\ pipe.spawned \subseteq pipe'.spawned /\ pipe'.spawned \subseteq Leaves
    /\ pipe.cells \subseteq pipe'.cells
    /\ pipe'.published = pipe.published
    /\ pipe'.results \in [Item -> {"pending", "null", "answer"}]

\* A step that only moves a thread is quiet.
LEMMA StutterIsQuiet ==
    ASSUME PipeShapes, UNCHANGED <<budget, leaves, book, pipe>> PROVE Quiet
  BY DEF Quiet, PipeShapes

\* A quiet step keeps the shapes, and no leaf goes back to life.
LEMMA QuietShapes ==
    ASSUME PipeShapes, NEW t \in Thread, NEW row, Moves(t, row), Quiet
    PROVE  PipeShapes' /\ Onward
<1>1. Leaves' = Leaves /\ job' \in [Thread -> Job] /\ Thread = 0..Len(leaves)
  BY Moved, PipeBasics DEF Pipeline!Leaves, Quiet
<1>2. PipeShapes'
  BY <1>1 DEF PipeShapes, Quiet
<1>3. Onward
  BY <1>1 DEF Onward, Quiet, Pipeline!Live
<1> QED BY <1>2, <1>3

\* A thread goes on with its item in a quiet step.
LEMMA WalksQuietly ==
    ASSUME PipeInv, NEW t \in Thread, NEW row, Moves(t, row), Quiet,
           pipe'.results = pipe.results, pipe'.holes = pipe.holes,
           row.sub = job[t].sub, t # 0 => job[t].sub # t, row.item = job[t].item,
           Carries(t, job[t]), ~Unfired(t, job[t]), job[t].pc \notin {"spawn", "charge"},
           row.pc \in HookPC \ {"spawn", "charge"}, t = 0 => row.pc \in WalkPC,
           StageRight(row, pipe'.cells)
    PROVE  PipeInv'
<1>1. PipeShapes' /\ Onward
  BY QuietShapes DEF PipeInv
<1>2. Accounts'
  BY AccountsStay DEF PipeInv, Quiet
<1> QED BY <1>1, <1>2, WalksOn

\* A thread returns in a quiet step: a hook ends, the walk goes on or waits.
LEMMA ReturnQuietly ==
    ASSUME PipeInv, NEW t \in Thread, job' = Pipeline!Returned(t), t = 0 => Dispatching, Quiet, Holes',
           t # 0 => job[t].sub # t, job[t].pc \notin {"spawn", "charge"},
           ~Unfired(t, job[t]),
           job[t].pc \in HandPC => job[t].sub \in pipe'.spawned /\ ~pipe'.expired,
           \A i \in Item : pipe'.results[i] = "pending" => pipe.results[i] = "pending",
           \A i \in Item : pipe'.results[i] # pipe.results[i]
                             => i = job[t].item /\ Carries(t, job[t])
    PROVE  PipeInv'
<1>1. PICK row : /\ Moves(t, row) /\ row.sub = job[t].sub
                 /\ t # 0 => row.pc = "idle" /\ row.item = job[t].item
                 /\ t = 0 => \/ row.pc = "wait" /\ row.item = job[0].item
                             \/ /\ row.pc = "advance" /\ row.stage = 1
                                /\ row.item = job[0].item + 1 /\ row.item \in Item
  BY ReturnedRow DEF PipeInv, Jobs
<1>2. PipeShapes' /\ Onward
  BY <1>1, QuietShapes DEF PipeInv
<1>3. Accounts'
  <2>1. row.pc \notin {"spawn", "charge"} /\ (t = 0 \/ row.pc = "idle")
    BY <1>1
  <2> QED BY <1>1, <2>1, AccountsStay DEF PipeInv, Quiet
<1> QED BY <1>2, <1>3, ReturnsOn

\* A thread's program counter, in whatever it does next.
LEMMA GotoRow ==
    ASSUME PipeShapes, NEW t \in Thread, NEW pc \in Pipeline!PC, Goto(t, pc)
    PROVE  Moves(t, [job[t] EXCEPT !.pc = pc])
<1>1. job \in [Thread -> Job] /\ job[t] \in Job
  BY PipeBasics
<1> QED BY <1>1 DEF Pipeline!Goto, Moves, Pipeline!Job

(* _advance: its row, and the step. *)
LEMMA AdvanceKeeps == ASSUME PipeInv, NEW t \in Thread, Pipeline!Advance(t) PROVE PipeInv'
<1>1. /\ PipeShapes /\ Accounts /\ Jobs /\ Holes
      /\ job \in [Thread -> Job] /\ job[t] \in Job /\ Walks(t) /\ job[t].item \in Item
      /\ job[t].pc = "advance" /\ Carries(t, job[t]) /\ ~Unfired(t, job[t])
      /\ UNCHANGED <<budget, leaves, book, pipe>>
  <2>1. job[t].pc = "advance" /\ UNCHANGED <<budget, leaves, book, pipe>>
    BY DEF Pipeline!Advance, Pipeline!At, Pipeline!bookVars
  <2>2. Carries(t, job[t]) /\ ~Unfired(t, job[t])
    BY <2>1 DEF Carries, Unfired, HookPC
  <2> QED BY <2>1, <2>2, PipeBasics DEF PipeInv, Jobs, Roles
<1>2. /\ t # 0 => t \in Leaves /\ job[t].sub # t
      /\ t = 0 => Dispatching
  BY <1>1, PipeBasics DEF Accounts, LeafRight, Dispatching, WalkPC
<1>3. \/ job' = Pipeline!Returned(t)
      \/ \E row : /\ Moves(t, row) /\ row.sub = job[t].sub /\ row.item = job[t].item
                  /\ row.pc \in {"advance", "claim", "drop", "finish"}
                  /\ StageRight(row, pipe.cells)
  <2>1. CASE pipe.expired
    BY <1>1, <2>1 DEF Pipeline!Advance, Pipeline!Return, Barrier, PipeInv
  <2>2. CASE ~pipe.expired /\ Pipeline!Stopped
    <3> DEFINE row == [job[t] EXCEPT !.pc = "drop"]
    <3>1. Moves(t, row)
      BY <1>1, <2>2, GotoRow DEF Pipeline!Advance, Pipeline!Halt, Pipeline!PC
    <3>2. /\ row.sub = job[t].sub /\ row.item = job[t].item
          /\ row.pc = "drop" /\ row.stage = job[t].stage
      BY <1>1 DEF Pipeline!Job
    <3>3. StageRight(row, pipe.cells)
      BY <1>1, <3>2 DEF Walks, StageRight
    <3> QED BY <3>1, <3>2, <3>3
  <2>3. CASE ~pipe.expired /\ ~Pipeline!Stopped /\ job[t].stage > Stages
    <3> DEFINE row == [job[t] EXCEPT !.pc = "finish"]
    <3>1. Moves(t, row)
      BY <1>1, <2>3, GotoRow DEF Pipeline!Advance, Pipeline!PC
    <3>2. /\ row.sub = job[t].sub /\ row.item = job[t].item
          /\ row.pc = "finish" /\ row.stage = job[t].stage
      BY <1>1 DEF Pipeline!Job
    <3>3. StageRight(row, pipe.cells)
      BY <1>1, <2>3, <3>2 DEF Walks, StageRight
    <3> QED BY <3>1, <3>2, <3>3
  <2>4. CASE /\ ~pipe.expired /\ ~Pipeline!Stopped /\ ~(job[t].stage > Stages)
             /\ ~job[t].again /\ <<job[t].item, job[t].stage>> \in pipe.cells
    <3> DEFINE row == [job[t] EXCEPT !.stage = @ + 1]
    <3>1. job' = [job EXCEPT ![t] = row]
      BY <1>1, <2>4 DEF Pipeline!Advance
    <3>2. job[t].stage \in 1..Stages + 1 /\ job[t].stage \in Stage
      BY <1>1, <2>4, PipeConstants DEF Pipeline!Job, Pipeline!Stage
    <3>3. row \in Job /\ row.sub = job[t].sub /\ row.item = job[t].item /\ row.pc = "advance"
          /\ row.stage = job[t].stage + 1
      BY <1>1, <3>2, PipeConstants DEF Pipeline!Job, Pipeline!Stage
    <3>4. StageRight(row, pipe.cells)
      BY <1>1, <2>4, <3>2, <3>3 DEF Walks, StageRight, Pipeline!Stage
    <3> QED BY <3>1, <3>3, <3>4 DEF Moves
  <2>5. CASE /\ ~pipe.expired /\ ~Pipeline!Stopped /\ ~(job[t].stage > Stages)
             /\ ~(~job[t].again /\ <<job[t].item, job[t].stage>> \in pipe.cells)
    <3> DEFINE row == [job[t] EXCEPT !.pc = "claim"]
    <3>1. Moves(t, row)
      BY <1>1, <2>5, GotoRow DEF Pipeline!Advance, Pipeline!PC
    <3>2. /\ row.sub = job[t].sub /\ row.item = job[t].item
          /\ row.pc = "claim" /\ row.stage = job[t].stage
      BY <1>1 DEF Pipeline!Job
    <3>3. row.stage \in Stage
      BY <1>1, <2>5, <3>2, PipeConstants DEF Pipeline!Job, Pipeline!Stage
    <3>4. StageRight(row, pipe.cells)
      BY <1>1, <3>2, <3>3 DEF Walks, StageRight
    <3> QED BY <3>1, <3>2, <3>4
  <2> QED BY <2>1, <2>2, <2>3, <2>4, <2>5
<1>4. CASE job' = Pipeline!Returned(t)
  <2>1. Quiet /\ Holes'
    BY <1>1, StutterIsQuiet, HolesStay
  <2>2. job[t].pc \notin {"spawn", "charge"} \cup HandPC
    BY <1>1 DEF HandPC
  <2> QED BY <1>1, <1>2, <1>4, <2>1, <2>2, ReturnQuietly
<1>5. ASSUME NEW row, Moves(t, row), row.sub = job[t].sub, row.item = job[t].item,
             row.pc \in {"advance", "claim", "drop", "finish"}, StageRight(row, pipe.cells)
      PROVE  PipeInv'
  <2>1. Quiet
    BY <1>1, StutterIsQuiet
  <2>2. row.pc \in HookPC \ {"spawn", "charge"} /\ row.pc \in WalkPC
    BY <1>5 DEF HookPC, WalkPC
  <2> QED BY <1>1, <1>2, <1>5, <2>1, <2>2, WalksQuietly
<1> QED BY <1>3, <1>4, <1>5

\* What a thread at work knows of itself.
LEMMA AtWork ==
    ASSUME PipeInv, NEW t \in Thread, job[t].pc \in HookPC
    PROVE  /\ job \in [Thread -> Job] /\ job[t] \in Job /\ job[t].item \in Item
           /\ Carries(t, job[t]) /\ ~Unfired(t, job[t])
           /\ t # 0 => t \in Leaves /\ job[t].sub # t /\ LeafRight(t)
           /\ t = 0 => Dispatching /\ job[t].pc \in WalkPC
           /\ Walks(t) /\ pipe.results[job[t].item] = "pending" /\ StageRight(job[t], pipe.cells)
<1> USE DEF PipeInv
<1>1. /\ job \in [Thread -> Job] /\ job[t] \in Job /\ job[t].item \in Item
      /\ Carries(t, job[t]) /\ ~Unfired(t, job[t]) /\ Walks(t)
  BY PipeBasics DEF Jobs, Roles, Carries, Unfired, HookPC
<1>2. t # 0 => t \in Leaves /\ LeafRight(t)
  BY PipeBasics DEF Accounts
<1>3. t # 0 => job[t].sub # t
  BY <1>2 DEF LeafRight, HookPC
<1>4. t = 0 => Dispatching /\ job[t].pc \in WalkPC
  <2>1. t = 0 => job[0].pc \in WalkPC \cup HandPC \cup NodePC
    BY DEF Jobs, Roles
  <2> QED BY <2>1 DEF Dispatching, HookPC, WalkPC, HandPC, NodePC, AfterPC
<1> QED BY <1>1, <1>2, <1>3, <1>4 DEF Walks

\* Its row when it goes to pc and has the same item and stage.
LEMMA NewRow ==
    ASSUME PipeInv, NEW t \in Thread, job[t].pc \in HookPC, NEW pc \in Pipeline!PC, Goto(t, pc),
           pc \in HookPC, pc # "finish", pc \notin {"advance", "drop"} => job[t].stage \in Stage,
           NEW cells, pipe.cells \subseteq cells
    PROVE  \E row : /\ Moves(t, row) /\ row.pc = pc /\ row.item = job[t].item
                    /\ row.sub = job[t].sub /\ StageRight(row, cells)
<1> DEFINE row == [job[t] EXCEPT !.pc = pc]
<1>1. job[t] \in Job /\ StageRight(job[t], pipe.cells)
  BY AtWork
<1>2. Moves(t, row)
  BY GotoRow DEF PipeInv
<1>3. /\ row.pc = pc /\ row.item = job[t].item /\ row.sub = job[t].sub
      /\ row.stage = job[t].stage
  BY <1>1 DEF Pipeline!Job
<1>4. StageRight(row, cells)
  BY <1>1, <1>3 DEF StageRight
<1> QED BY <1>2, <1>3, <1>4

\* An item is settled, by an answer or by a hole.
LEMMA SettleKeeps ==
    ASSUME PipeInv, NEW t \in Thread, Pipeline!Finish(t) \/ Pipeline!Drop(t) PROVE PipeInv'
<1> DEFINE i == job[t].item
<1>1. PICK value \in {"answer", "null"} :
        /\ Pipeline!Settle(t, value)
        /\ job[t].pc = IF value = "answer" THEN "finish" ELSE "drop"
  BY DEF Pipeline!Finish, Pipeline!Drop, Pipeline!At
<1>2. /\ job[t].pc \in HookPC /\ job[t].pc \notin {"spawn", "charge"} \cup HandPC
  BY <1>1 DEF HookPC, HandPC
<1>3. /\ i \in Item /\ Carries(t, job[t]) /\ ~Unfired(t, job[t])
      /\ t # 0 => job[t].sub # t
      /\ t = 0 => Dispatching
      /\ pipe.results[i] = "pending" /\ StageRight(job[t], pipe.cells)
  BY <1>2, AtWork
<1>4. /\ pipe' = [pipe EXCEPT !.results[i] = IF Pipeline!MaySettle(pipe, i) THEN value ELSE @,
                              !.holes = IF value = "null" THEN @ \cup {i} ELSE @]
      /\ job' = Pipeline!Returned(t) /\ UNCHANGED <<budget, leaves, book>>
  BY <1>1 DEF Pipeline!Settle, Pipeline!Return, Pipeline!bookVars
<1>5. DOMAIN pipe = PipeFields /\ pipe.results \in [Item -> {"pending", "null", "answer"}]
  BY DEF PipeInv, PipeShapes
<1>6. /\ pipe'.results = IF pipe.expired THEN pipe.results ELSE [pipe.results EXCEPT ![i] = value]
      /\ pipe'.holes = IF value = "null" THEN pipe.holes \cup {i} ELSE pipe.holes
      /\ DOMAIN pipe' = PipeFields /\ pipe'.expired = pipe.expired /\ pipe'.sweep = pipe.sweep
      /\ pipe'.spawned = pipe.spawned /\ pipe'.cells = pipe.cells
      /\ pipe'.published = pipe.published
  BY <1>3, <1>4, <1>5 DEF Pipeline!MaySettle, PipeFields
<1>7. Quiet
  <2>1. pipe'.results \in [Item -> {"pending", "null", "answer"}]
    BY <1>1, <1>5, <1>6
  <2> QED BY <1>4, <1>6, <2>1 DEF Quiet, PipeInv, PipeShapes
<1>8. Holes'
  <2>1. value = "answer" => {i} \X Stage \subseteq pipe.cells
    <3>1. job[t].stage \in Int
      BY <1>2, AtWork, PipeConstants DEF Pipeline!Job
    <3>2. value = "answer" => \A s \in Stage : s < job[t].stage
      BY <1>1, <1>3, <3>1, PipeConstants DEF StageRight, Pipeline!Stage
    <3>3. value = "answer" => \A s \in Stage : <<i, s>> \in pipe.cells
      BY <1>3, <3>2 DEF StageRight
    <3> QED BY <3>3
  <2>2. \A j \in Item : pipe'.results[j] = "answer" => {j} \X Stage \subseteq pipe'.cells
    BY <1>1, <1>5, <1>6, <2>1 DEF Holes, PipeInv
  <2>3. pipe'.holes = {j \in Item : \/ pipe'.results[j] = "null"
                                    \/ pipe'.expired /\ pipe'.results[j] = "pending"}
    BY <1>1, <1>3, <1>5, <1>6 DEF Holes, PipeInv, Barrier
  <2> QED BY <2>2, <2>3 DEF Holes
<1>9. /\ \A j \in Item : pipe'.results[j] = "pending" => pipe.results[j] = "pending"
      /\ \A j \in Item : pipe'.results[j] # pipe.results[j]
                            => j = job[t].item /\ Carries(t, job[t])
  BY <1>3, <1>5, <1>6
<1> QED BY <1>2, <1>3, <1>4, <1>7, <1>8, <1>9, ReturnQuietly

\* A leaf accounted for already is not billed again.
LEMMA AcceptKeeps == ASSUME PipeInv, NEW l \in Thread, Pipeline!Accept(l), l # 0 PROVE PipeInv'
<1>1. /\ job[l].pc = "accept" /\ job[l].pc \in HookPC
      /\ job[l].pc \notin {"spawn", "charge"} \cup HandPC
      /\ UNCHANGED <<budget, leaves, book, pipe>>
  BY DEF Pipeline!Accept, Pipeline!At, HookPC, Pipeline!bookVars, HandPC
<1>2. Quiet /\ Holes'
  BY <1>1, StutterIsQuiet, HolesStay DEF PipeInv
<1>3. /\ Carries(l, job[l]) /\ ~Unfired(l, job[l]) /\ job[l].sub # l
      /\ job \in [Thread -> Job] /\ StageRight(job[l], pipe.cells)
  BY <1>1, AtWork
<1>4. CASE Goto(l, "idle")
  <2>1. job' = Pipeline!Returned(l)
    BY <1>4 DEF Pipeline!Goto, Pipeline!Returned
  <2> QED BY <1>1, <1>2, <1>3, <2>1, ReturnQuietly
<1>5. CASE Goto(l, "stage")
  <2>1. job[l].stage \in Stage
    BY <1>1, <1>3 DEF StageRight
  <2>2. PICK row : /\ Moves(l, row) /\ row.pc = "stage" /\ row.item = job[l].item
                   /\ row.sub = job[l].sub /\ StageRight(row, pipe'.cells)
    BY <1>1, <1>5, <2>1, NewRow DEF Pipeline!PC, HookPC
  <2>3. row.pc \in HookPC \ {"spawn", "charge"}
    BY <2>2 DEF HookPC
  <2> QED BY <1>1, <1>2, <1>3, <2>2, <2>3, WalksQuietly
<1> QED BY <1>4, <1>5 DEF Pipeline!Accept

\* Threads that hand over what they spawned.
LEMMA TrackKeeps == ASSUME PipeInv, NEW t \in Thread, Pipeline!Track(t) PROVE PipeInv'
<1>1. /\ job[t].pc = "track" /\ Goto(t, "append") /\ book' = Pipeline!Tracked(book, job[t].sub)
      /\ UNCHANGED <<budget, leaves, pipe>>
  BY DEF Pipeline!Track, Pipeline!At
<1> DEFINE row == [job[t] EXCEPT !.pc = "append"]
<1>2. /\ job[t] \in Job /\ Moves(t, row) /\ row.pc = "append" /\ row.sub = job[t].sub
      /\ row.item = job[t].item /\ job[t].sub \in Leaves
      /\ job[t].pc \in HandPC /\ row.pc \in HandPC
  BY <1>1, GotoRow, PipeBasics DEF PipeInv, Jobs, Roles, HandPC, Pipeline!PC, Pipeline!Job
<1> HIDE DEF row
<1>3. /\ DOMAIN book' = BookFields /\ book'.accounted = book.accounted
      /\ book'.stragglers = book.stragglers /\ book'.tokens = book.tokens
      /\ book'.uncertain = book.uncertain /\ book'.sealed = book.sealed
      /\ book'.tracked \subseteq Leaves /\ DOMAIN book'.pending \subseteq Leaves
  <2>1. /\ DOMAIN book = BookFields /\ book.tracked \subseteq Leaves
        /\ DOMAIN book.pending \subseteq Leaves
    BY DEF PipeInv, PipeShapes
  <2> QED BY <1>1, <1>2, <2>1 DEF Pipeline!Tracked, BookFields
<1>4. Quiet
  BY <1>1, <1>3 DEF Quiet, PipeInv, PipeShapes
<1>5. PipeShapes' /\ Onward
  BY <1>2, <1>4, QuietShapes DEF PipeInv
<1>6. Accounts'
  <2>1. job[t].pc \notin {"spawn", "charge"} /\ row.pc \notin {"spawn", "charge"}
        /\ ~Unfired(t, job[t]) /\ (t = 0 \/ row.sub # t)
    <3>1. t # 0 => LeafRight(t)
      BY PipeBasics DEF PipeInv, Accounts
    <3> QED BY <1>1, <1>2, <3>1 DEF LeafRight, Unfired
  <2> QED BY <1>2, <1>4, <2>1, AccountsStay DEF PipeInv, Quiet
<1>7. Jobs'
  BY <1>1, <1>2, <1>5, HandsOver DEF PipeInv, Onward
<1>8. Holes'
  BY <1>1, HolesStay DEF PipeInv
<1>9. Calm(t, row)
  <2>1. t = 0 => Dispatching
    BY <1>2 DEF Dispatching
  <2> QED BY <1>1, <1>2, <1>5, <2>1 DEF Calm, Onward
<1> QED BY <1>5, <1>6, <1>7, <1>8, <1>9, Calmly

\* A new leaf enters the node's list, or is stranded by a closed barrier.
LEMMA AppendSpawnedKeeps ==
    ASSUME PipeInv, NEW t \in Thread, Pipeline!AppendSpawned(t) PROVE PipeInv'
<1>1. /\ job[t].pc = "append" /\ UNCHANGED <<budget, leaves, book>>
      /\ pipe' = [pipe EXCEPT !.spawned = @ \cup {job[t].sub}]
      /\ IF pipe.expired THEN Goto(t, "strand") ELSE job' = Pipeline!Returned(t)
  BY DEF Pipeline!AppendSpawned, Pipeline!At, Pipeline!bookVars, Pipeline!IsStranded, Pipeline!Return
<1>2. /\ job[t] \in Job /\ job[t].sub \in Leaves /\ job[t].pc \in HandPC
      /\ job[t].pc \notin {"spawn", "charge"} /\ ~Unfired(t, job[t])
      /\ t = 0 => Dispatching
  BY <1>1, PipeBasics DEF PipeInv, Jobs, Roles, HandPC, Dispatching, Unfired
<1>3. t # 0 => job[t].sub # t
  <2>1. t # 0 => LeafRight(t)
    BY PipeBasics DEF PipeInv, Accounts
  <2> QED BY <1>1, <2>1 DEF LeafRight
<1>4. /\ DOMAIN pipe' = PipeFields /\ pipe'.spawned = pipe.spawned \cup {job[t].sub}
      /\ pipe'.results = pipe.results /\ pipe'.holes = pipe.holes
      /\ pipe'.expired = pipe.expired /\ pipe'.sweep = pipe.sweep
      /\ pipe'.cells = pipe.cells /\ pipe'.published = pipe.published
  <2>1. DOMAIN pipe = PipeFields
    BY DEF PipeInv, PipeShapes
  <2> QED BY <1>1, <2>1 DEF PipeFields
<1>5. Quiet
  BY <1>1, <1>2, <1>4 DEF Quiet, PipeInv, PipeShapes
<1>6. Holes'
  BY <1>4, HolesStay DEF PipeInv
<1>7. CASE pipe.expired
  <2> DEFINE row == [job[t] EXCEPT !.pc = "strand"]
  <2>1. /\ Moves(t, row) /\ row.pc = "strand" /\ row.sub = job[t].sub
        /\ row.item = job[t].item /\ row.pc \in HandPC
    BY <1>1, <1>2, <1>7, GotoRow DEF PipeInv, HandPC, Pipeline!PC, Pipeline!Job
  <2> HIDE DEF row
  <2>2. PipeShapes' /\ Onward
    BY <1>5, <2>1, QuietShapes DEF PipeInv
  <2>3. Accounts'
    <3>1. row.pc \notin {"spawn", "charge"}
      BY <2>1
    <3> QED BY <1>2, <1>3, <1>5, <2>1, <3>1, AccountsStay DEF PipeInv, Quiet
  <2>4. Jobs'
    BY <1>2, <1>4, <2>1, <2>2, HandsOver DEF PipeInv, Onward
  <2>5. Calm(t, row)
    BY <1>2, <1>4, <2>1, <2>2 DEF Calm, Onward
  <2> QED BY <1>6, <2>2, <2>3, <2>4, <2>5, Calmly
<1>8. CASE ~pipe.expired
  <2>1. job' = Pipeline!Returned(t) /\ job[t].sub \in pipe'.spawned /\ ~pipe'.expired
    BY <1>1, <1>4, <1>8
  <2> QED BY <1>2, <1>3, <1>4, <1>5, <1>6, <2>1, ReturnQuietly
<1> QED BY <1>7, <1>8

\* How many threads spawn, when one begins or stops to.
LEMMA SpawningMoves ==
    ASSUME PipeShapes, NEW t \in Thread, NEW row, Moves(t, row)
    PROVE  /\ job[t].pc = "spawn" /\ row.pc # "spawn"
                => Count(Spawning') = Count(Spawning) - 1
           /\ job[t].pc # "spawn" /\ row.pc = "spawn"
                => Count(Spawning') = Count(Spawning) + 1
           /\ job[t].pc # "spawn" /\ row.pc # "spawn" => Spawning' = Spawning
<1>1. /\ Thread' = Thread /\ job'[t] = row /\ \A u \in Thread \ {t} : job'[u] = job[u]
      /\ IsFiniteSet(Spawning)
  BY Moved, PipeBasics
<1>2. ASSUME job[t].pc = "spawn", row.pc # "spawn"
      PROVE  Count(Spawning') = Count(Spawning) - 1
  <2>1. t \in Spawning /\ Spawning' = Spawning \ {t}
    BY <1>1, <1>2 DEF Spawning
  <2> QED BY <1>1, <2>1, CountRemoveElement
<1>3. ASSUME job[t].pc # "spawn", row.pc = "spawn"
      PROVE  Count(Spawning') = Count(Spawning) + 1
  <2>1. t \notin Spawning /\ Spawning' = Spawning \cup {t}
    BY <1>1, <1>3 DEF Spawning
  <2> QED BY <1>1, <2>1, CountAddElement
<1>4. ASSUME job[t].pc # "spawn", row.pc # "spawn" PROVE Spawning' = Spawning
  BY <1>1, <1>4 DEF Spawning
<1> QED BY <1>2, <1>3, <1>4

\* A step that only reserves a slot, or gives one back, for a thread at work.
LEMMA ReservesSlot ==
    ASSUME PipeInv, NEW t \in Thread, job[t].pc \in HookPC, NEW row, Moves(t, row),
           job[t].pc # "charge", row.pc # "charge", t = 0 \/ row.pc = "idle" \/ row.sub # t,
           UNCHANGED <<leaves, book>>, budget' \in [spawned : Nat, tokens : Nat, charges : Nat],
           budget'.spawned <= SmallLifetime,
           budget'.spawned - budget.spawned = Count(Spawning') - Count(Spawning)
    PROVE  Accounts'
<1>1. /\ Thread' = Thread /\ job'[t] = row /\ \A u \in Thread \ {t} : job'[u] = job[u]
      /\ Leaves' = Leaves /\ Leaves = 1..Len(leaves) /\ Thread = 0..Len(leaves)
  BY Moved, PipeBasics DEF PipeInv, Pipeline!Leaves
<1>2. PipeShapes /\ Accounts /\ ~Unfired(t, job[t])
  BY AtWork DEF PipeInv
<1>3. ASSUME NEW l \in Leaves PROVE LeafRight(l)'
  <2>1. LeafRight(l) /\ l \in Thread /\ l # 0
    BY <1>1, <1>2 DEF Accounts
  <2>2. CASE l = t
    BY <1>1, <1>2, <2>1, <2>2 DEF LeafRight, Pipeline!Live
  <2>3. CASE l # t
    BY <1>1, <2>1, <2>3 DEF LeafRight, Pipeline!Live
  <2> QED BY <2>2, <2>3
<1>4. GivenBack' = GivenBack
  <2>1. book.accounted \subseteq Thread
    BY <1>1, <1>2 DEF PipeShapes
  <2> QED BY <1>1, <2>1 DEF GivenBack
<1>5. Billed' = Billed
  BY DEF Billed
<1>6. Slots'
  <2>1. /\ Count(Spawning) \in Nat /\ Count(GivenBack) \in Nat
        /\ Count(Spawning') \in Nat /\ Len(leaves) \in Nat
    <3>1. IsFiniteSet(Thread)
      BY <1>2, PipeBasics
    <3>2. Spawning' \subseteq Thread
      BY <1>1 DEF Spawning
    <3>3. IsFiniteSet(Spawning')
      BY <3>1, <3>2, CountSubset
    <3> QED BY <1>2, <3>3, PipeBasics, CountType
  <2>2. budget.spawned \in Nat /\ budget'.spawned \in Nat
    BY <1>2 DEF PipeShapes
  <2>3. budget.spawned + Count(GivenBack) = Count(Spawning) + Len(leaves)
    BY <1>2 DEF Accounts, Slots
  <2> DEFINE before == Count(Spawning)
             after == Count(Spawning')
             given == Count(GivenBack)
             taken == budget.spawned
             takes == budget'.spawned
             born == Len(leaves)
  <2>4. /\ before \in Nat /\ after \in Nat /\ given \in Nat
        /\ taken \in Nat /\ takes \in Nat /\ born \in Nat
        /\ taken + given = before + born /\ takes - taken = after - before
    BY <2>1, <2>2, <2>3
  <2>5. takes + given = after + born
    <3> HIDE DEF before, after, given, taken, takes, born
    <3> QED BY <2>4
  <2> QED BY <1>4, <2>5 DEF Slots
<1> QED BY <1>1, <1>2, <1>3, <1>5, <1>6 DEF Accounts, Balance

\* A slot is taken, or the budget refuses.
LEMMA ClaimKeeps == ASSUME PipeInv, NEW t \in Thread, Pipeline!Claim(t) PROVE PipeInv'
<1>1. job[t].pc = "claim" /\ job[t].pc \in HookPC /\ UNCHANGED <<leaves, book, pipe>>
  BY DEF Pipeline!Claim, Pipeline!At, HookPC
<1>2. /\ Carries(t, job[t]) /\ ~Unfired(t, job[t]) /\ (t # 0 => job[t].sub # t)
      /\ job[t].stage \in Stage
  BY <1>1, AtWork DEF StageRight
<1>3. CASE Goto(t, "drop") /\ UNCHANGED budget
  <2>1. PICK row : /\ Moves(t, row) /\ row.pc = "drop" /\ row.item = job[t].item
                   /\ row.sub = job[t].sub /\ StageRight(row, pipe'.cells)
    BY <1>1, <1>3, NewRow DEF Pipeline!PC, HookPC
  <2>2. row.pc \in HookPC \ {"spawn", "charge"} /\ row.pc \in WalkPC
    BY <2>1 DEF HookPC, WalkPC
  <2>3. Quiet
    BY <1>1, <1>3, StutterIsQuiet DEF PipeInv
  <2> QED BY <1>1, <1>2, <2>1, <2>2, <2>3, WalksQuietly
<1>4. CASE Pipeline!CanReserve(budget) /\ budget' = Pipeline!Reserved(budget) /\ Goto(t, "spawn")
  <2>1. PICK row : /\ Moves(t, row) /\ row.pc = "spawn" /\ row.item = job[t].item
                   /\ row.sub = job[t].sub /\ StageRight(row, pipe'.cells)
    BY <1>1, <1>2, <1>4, NewRow DEF Pipeline!PC, HookPC
  <2>2. budget \in [spawned : Nat, tokens : Nat, charges : Nat]
    BY DEF PipeInv, PipeShapes
  <2>3. /\ budget' \in [spawned : Nat, tokens : Nat, charges : Nat]
        /\ budget'.spawned = budget.spawned + 1 /\ budget'.spawned <= SmallLifetime
    BY <1>4, <2>2, PipeConstants DEF Pipeline!Reserved, Pipeline!CanReserve
  <2>4. Count(Spawning') = Count(Spawning) + 1 /\ Count(Spawning) \in Nat
    BY <1>1, <2>1, SpawningMoves, PipeBasics DEF PipeInv
  <2>5. budget'.spawned - budget.spawned = Count(Spawning') - Count(Spawning)
    BY <2>2, <2>3, <2>4
  <2>6. Accounts'
    BY <1>1, <1>2, <2>1, <2>3, <2>5, ReservesSlot
  <2>7. PipeShapes' /\ Onward
    <3>1. Leaves' = Leaves /\ job' \in [Thread -> Job] /\ Thread = 0..Len(leaves)
      BY <1>1, <2>1, Moved, PipeBasics DEF Pipeline!Leaves, PipeInv
    <3>2. PipeShapes'
      BY <1>1, <2>3, <3>1 DEF PipeShapes, PipeInv
    <3> QED BY <1>1, <3>1, <3>2 DEF Onward, Pipeline!Live
  <2>8. row.pc \in HookPC /\ row.pc \in WalkPC
    BY <2>1 DEF HookPC, WalkPC
  <2> QED BY <1>1, <1>2, <2>1, <2>6, <2>7, <2>8, WalksOn
<1> QED BY <1>3, <1>4 DEF Pipeline!Claim

\* A spawn that raises gives its slot back, and no leaf has it.
LEMMA SpawnRaisesKeeps == ASSUME PipeInv, NEW t \in Thread, Pipeline!SpawnRaises(t) PROVE PipeInv'
<1>1. /\ job[t].pc = "spawn" /\ job[t].pc \in HookPC /\ job[t].pc \notin HandPC
      /\ UNCHANGED <<leaves, book, pipe>>
      /\ budget' = Pipeline!Refunded(budget) /\ ((job' = Pipeline!Returned(t) /\ t # 0) \/ Goto(t, "drop"))
  BY DEF Pipeline!SpawnRaises, Pipeline!At, HookPC, HandPC, Pipeline!Return
<1>2. /\ Carries(t, job[t]) /\ ~Unfired(t, job[t]) /\ (t # 0 => job[t].sub # t)
  BY <1>1, AtWork
<1>3. /\ budget \in [spawned : Nat, tokens : Nat, charges : Nat] /\ budget.spawned >= 1
      /\ budget.spawned <= SmallLifetime
  <2>1. /\ Len(leaves) \in Nat /\ IsFiniteSet(Spawning) /\ IsFiniteSet(Leaves)
        /\ Count(Leaves) = Len(leaves)
        /\ Count(Spawning) \in Nat /\ Count(GivenBack) \in Nat
    BY PipeBasics DEF PipeInv
  <2>2. t \in Spawning /\ GivenBack \subseteq Leaves
    BY <1>1 DEF Spawning, GivenBack, PipeInv, PipeShapes
  <2>3. Count(Spawning) # 0
    BY <2>1, <2>2, CountEmptySet
  <2>4. Count(GivenBack) <= Len(leaves)
    BY <2>1, <2>2, CountSubset
  <2>5. /\ budget \in [spawned : Nat, tokens : Nat, charges : Nat]
        /\ budget.spawned + Count(GivenBack) = Count(Spawning) + Len(leaves)
        /\ budget.spawned <= SmallLifetime
    BY DEF PipeInv, PipeShapes, Accounts, Slots
  <2> QED BY <2>1, <2>3, <2>4, <2>5
<1>4. /\ budget' \in [spawned : Nat, tokens : Nat, charges : Nat]
      /\ budget'.spawned = budget.spawned - 1 /\ budget'.spawned <= SmallLifetime
  BY <1>1, <1>3, PipeConstants DEF Pipeline!Refunded, Pipeline!NonNegative
<1>5. ASSUME NEW row, Moves(t, row), row.pc \in {"idle", "drop"}, t = 0 \/ row.pc = "idle" \/ row.sub # t
      PROVE  Accounts' /\ PipeShapes' /\ Onward
  <2>1. Count(Spawning') = Count(Spawning) - 1 /\ Count(Spawning) \in Nat
    BY <1>1, <1>5, SpawningMoves, PipeBasics DEF PipeInv
  <2>2. budget'.spawned - budget.spawned = Count(Spawning') - Count(Spawning)
    BY <1>3, <1>4, <2>1
  <2>3. Accounts'
    BY <1>1, <1>4, <1>5, <2>2, ReservesSlot
  <2>4. PipeShapes' /\ Onward
    <3>1. Leaves' = Leaves /\ job' \in [Thread -> Job] /\ Thread = 0..Len(leaves)
      BY <1>1, <1>5, Moved, PipeBasics DEF Pipeline!Leaves, PipeInv
    <3>2. PipeShapes'
      BY <1>1, <1>4, <3>1 DEF PipeShapes, PipeInv
    <3> QED BY <1>1, <3>1, <3>2 DEF Onward, Pipeline!Live
  <2> QED BY <2>3, <2>4
<1>6. CASE job' = Pipeline!Returned(t) /\ t # 0
  <2>1. PICK row : Moves(t, row) /\ row.pc = "idle"
    BY <1>6, ReturnedRow DEF PipeInv, Jobs
  <2>2. Holes'
    BY <1>1, HolesStay DEF PipeInv
  <2> QED BY <1>1, <1>2, <1>5, <1>6, <2>1, <2>2, ReturnsOn
<1>7. CASE Goto(t, "drop")
  <2>1. PICK row : /\ Moves(t, row) /\ row.pc = "drop" /\ row.item = job[t].item
                   /\ row.sub = job[t].sub /\ StageRight(row, pipe'.cells)
    BY <1>1, <1>7, NewRow DEF Pipeline!PC, HookPC
  <2>2. row.pc \in HookPC /\ row.pc \in WalkPC
    BY <2>1 DEF HookPC, WalkPC
  <2> QED BY <1>1, <1>2, <1>5, <2>1, <2>2, WalksOn
<1> QED BY <1>1, <1>6, <1>7

\* core.spawn accepts: the new leaf has the item, and its thread hands it over.
LEMMA SpawnsKeep == ASSUME PipeInv, NEW t \in Thread, Pipeline!Spawn(t) PROVE PipeInv'
<1> DEFINE n == Len(leaves) + 1
           new == [job[t] EXCEPT !.pc = "idle", !.sub = n, !.again = FALSE]
           row == [job[t] EXCEPT !.pc = "track", !.sub = n]
           fresh == [status |-> "queued", says |-> "nothing", asked |-> FALSE, turns |-> 0]
<1>1. /\ job[t].pc = "spawn" /\ job[t].pc \in HookPC /\ leaves' = Append(leaves, fresh)
      /\ job' = [x \in 0..n |-> IF x = n THEN new ELSE IF x = t THEN row ELSE job[x]]
      /\ UNCHANGED <<budget, book, pipe>>
  BY DEF Pipeline!Spawn, Pipeline!At, HookPC, Pipeline!Accepted
<1>2. /\ PipeShapes /\ Accounts /\ Jobs /\ Holes /\ Barrier /\ Report
      /\ Len(leaves) \in Nat /\ Leaves = 1..Len(leaves) /\ Thread = 0..Len(leaves)
      /\ job \in [Thread -> Job] /\ leaves \in [Leaves -> PipeLeaf] /\ leaves \in Seq(PipeLeaf)
  BY PipeBasics DEF PipeInv, PipeShapes
<1>3. /\ job[t] \in Job /\ job[t].item \in Item /\ Carries(t, job[t]) /\ ~Unfired(t, job[t])
      /\ t # 0 => t \in Leaves /\ job[t].sub # t /\ LeafRight(t)
      /\ t = 0 => Dispatching
      /\ Walks(t) /\ pipe.results[job[t].item] = "pending" /\ StageRight(job[t], pipe.cells)
  BY <1>1, AtWork
<1>4. /\ new \in Job /\ new.pc = "idle" /\ new.sub = n /\ new.item = job[t].item
      /\ new.stage = job[t].stage
      /\ row \in Job /\ row.pc = "track" /\ row.sub = n /\ row.item = job[t].item
  <2>1. job[t] \in Job /\ n \in Nat
    BY <1>2, <1>3
  <2> HIDE DEF n
  <2>2. new \in Job /\ row \in Job
    BY <2>1 DEF Pipeline!Job, Pipeline!PC
  <2> QED BY <2>1, <2>2 DEF Pipeline!Job
<1> HIDE DEF new, row
<1>5. /\ fresh \in PipeLeaf
      /\ leaves' \in Seq(PipeLeaf) /\ Len(leaves') = n /\ leaves'[n] = fresh
      /\ \A l \in Leaves : leaves'[l] = leaves[l]
  <2>1. fresh \in PipeLeaf
    BY DEF PipeLeaf
  <2> HIDE DEF fresh
  <2> QED BY <1>1, <1>2, <2>1
<1>6. /\ Leaves' = Leaves \cup {n} /\ Thread' = Thread \cup {n} /\ n \notin Thread
      /\ n \notin Leaves /\ n \in Nat /\ n # 0 /\ n # t /\ 0 \in Thread
      /\ Thread' = 0..Len(leaves')
  <2>1. Leaves' = 1..n
    BY <1>1, <1>2, <1>5 DEF Pipeline!Leaves
  <2>2. Thread' = 0..n
    BY <1>1 DEF Pipeline!Thread
  <2> QED BY <1>2, <1>5, <2>1, <2>2
<1>7. /\ job'[n] = new /\ job'[t] = row /\ \A u \in Thread \ {t} : job'[u] = job[u]
      /\ job' \in [Thread' -> Job]
  BY <1>1, <1>2, <1>4, <1>6
<1>8. PipeShapes'
  BY <1>1, <1>2, <1>5, <1>6, <1>7 DEF PipeShapes
<1>9. Accounts'
  <2>1. ASSUME NEW l \in Leaves PROVE LeafRight(l)'
    <3>1. LeafRight(l) /\ l \in Thread /\ l # 0 /\ leaves'[l] = leaves[l]
      BY <1>2, <1>5 DEF Accounts
    <3>2. CASE l = t
      BY <1>1, <1>3, <1>4, <1>6, <1>7, <3>1, <3>2 DEF LeafRight, Pipeline!Live
    <3>3. CASE l # t
      BY <1>1, <1>7, <3>1, <3>3 DEF LeafRight, Pipeline!Live
    <3> QED BY <3>2, <3>3
  <2>2. ASSUME NEW l \in {n} PROVE LeafRight(l)'
    <3>1. l \notin book'.accounted
      BY <1>1, <1>2, <1>6 DEF PipeShapes
    <3>2. leaves'[l] = fresh /\ job'[l] = new /\ l = n
      BY <1>5, <1>7
    <3> QED BY <1>4, <1>6, <3>1, <3>2 DEF LeafRight, Unfired, Pipeline!Live, Pipeline!Terminal
  <2>3. Spawning' = Spawning \ {t} /\ t \in Spawning
    BY <1>1, <1>4, <1>6, <1>7 DEF Spawning
  <2>4. Count(Spawning') = Count(Spawning) - 1 /\ Count(Spawning) \in Nat
    BY <1>2, <2>3, PipeBasics, CountRemoveElement
  <2>5. GivenBack' = GivenBack /\ Billed' = Billed
    <3>1. /\ book'.accounted = book.accounted
          /\ \A l \in book.accounted : l \in Thread /\ leaves'[l] = leaves[l] /\ l # 0
      BY <1>1, <1>2, <1>5 DEF PipeShapes
    <3>2. \A l \in book.accounted : job'[l].pc = "charge" <=> job[l].pc = "charge"
      BY <1>1, <1>4, <1>7, <3>1
    <3> QED BY <3>1, <3>2 DEF GivenBack, Billed
  <2>6. Slots'
    <3>1. Count(GivenBack) \in Nat /\ budget.spawned \in Nat
      BY <1>2, PipeBasics DEF PipeShapes
    <3>2. budget.spawned + Count(GivenBack) = Count(Spawning) + Len(leaves)
          /\ budget.spawned <= SmallLifetime
      BY <1>2 DEF Accounts, Slots
    <3>3. budget.spawned + Count(GivenBack) = Count(Spawning') + Len(leaves')
      BY <1>2, <1>5, <2>4, <3>1, <3>2
    <3> QED BY <1>1, <2>5, <3>2, <3>3 DEF Slots
  <2>7. Balance'
    BY <1>1, <1>2, <2>5 DEF Accounts, Balance
  <2> QED BY <1>6, <2>1, <2>2, <2>6, <2>7 DEF Accounts
<1>10. Jobs'
  <2>1. \A u \in Thread : job'[u].item = job[u].item
    BY <1>4, <1>7
  <2>2. job'[0].pc \in WalkPC \cup HandPC \cup NodePC
    BY <1>2, <1>4, <1>6, <1>7 DEF Jobs, Roles, HandPC
  <2>3. \A u \in Thread' \ {0} : job'[u].pc \in {"idle"} \cup HookPC \cup HandPC
    BY <1>2, <1>4, <1>6, <1>7 DEF Jobs, Roles, HandPC
  <2>4. \A u \in Thread' : job'[u].pc \in HandPC => job'[u].sub \in Leaves'
    BY <1>2, <1>4, <1>6, <1>7 DEF Jobs, Roles, HandPC
  <2>5. \A u \in Thread' : job'[u].item \in Item
    BY <1>2, <1>3, <1>4, <1>6, <1>7 DEF Jobs, Roles
  <2>6. Dispatching' => Dispatching
    BY <1>3, <1>6, <1>7 DEF Dispatching
  <2>7. ASSUME Dispatching
        PROVE  /\ \A u \in Thread' \ {0} : job'[u].item <= job'[0].item
               /\ \A i \in Item : job'[0].item < i => pipe'.results[i] = "pending"
    <3>1. job[t].item <= job[0].item
      BY <1>2, <1>3, <1>6, <2>7 DEF Jobs, Roles, Pipeline!Item
    <3> QED BY <1>1, <1>2, <1>4, <1>6, <1>7, <2>1, <2>7, <3>1 DEF Jobs, Roles
  <2>8. Roles'
    BY <2>2, <2>3, <2>4, <2>5, <2>6, <2>7 DEF Roles
  <2>9. Walks(t)'
    BY <1>4, <1>7 DEF Walks, Carries, Unfired, HookPC
  <2>10. ASSUME NEW l \in {n} PROVE Walks(l)'
    <3>1. StageRight(new, pipe.cells)
      BY <1>1, <1>3, <1>4 DEF StageRight
    <3>2. \A u \in Thread' \ {l} : Carries(u, job'[u]) => job'[u].item # new.item
      <4>1. ~Carries(t, row)
        BY <1>4 DEF Carries, Unfired, HookPC
      <4> QED BY <1>3, <1>4, <1>6, <1>7, <4>1 DEF Walks
    <3>3. job'[l] = new
      BY <1>7
    <3> QED BY <1>1, <1>3, <1>4, <3>1, <3>2, <3>3 DEF Walks
  <2>11. ASSUME NEW u \in Thread \ {t} PROVE Walks(u)'
    <3> SUFFICES ASSUME Carries(u, job[u]) PROVE Walks(u)'
      BY <1>7 DEF Walks
    <3>1. Walks(u) /\ job'[u] = job[u] /\ job[u].item # new.item
      BY <1>2, <1>3, <1>4, <1>7 DEF Jobs, Walks
    <3>2. \A x \in Thread' \ {u} : Carries(x, job'[x]) => job'[x].item # job[u].item
      <4>1. ~Carries(t, row)
        BY <1>4 DEF Carries, Unfired, HookPC
      <4> QED BY <1>6, <1>7, <3>1, <4>1 DEF Walks
    <3> QED BY <1>1, <3>1, <3>2 DEF Walks
  <2> QED BY <1>6, <2>8, <2>9, <2>10, <2>11 DEF Jobs
<1>11. Holes'
  BY <1>1, <1>2 DEF Holes
<1>12. job'[0].pc = job[0].pc \/ (Dispatching /\ Dispatching' /\ t = 0 /\ job'[0].pc = "track")
  BY <1>3, <1>4, <1>6, <1>7 DEF Dispatching, HandPC
<1>13. Barrier'
  <2>1. ASSUME NEW l \in Leaves'
        PROVE  \/ Watched(l)'
               \/ l \in pipe.spawned /\ ~pipe.expired
               \/ l \in pipe.sweep /\ job'[0].pc \in {"mark", "sweep"}
    <3>1. CASE l = n
      <4>1. t \in Thread' /\ job'[t].pc \in HandPC /\ job'[t].sub = l
        BY <1>4, <1>6, <1>7, <3>1 DEF HandPC
      <4> QED BY <4>1 DEF Watched
    <3>2. CASE l \in Leaves
      <4>1. Watched(l) => Watched(l)'
        <5>1. leaves'[l] = leaves[l]
          BY <1>5, <3>2
        <5>2. \A u \in Thread : job[u].pc \in HandPC /\ job[u].sub = l
                => u \in Thread' /\ job'[u].pc \in HandPC /\ job'[u].sub = l
          BY <1>1, <1>6, <1>7 DEF HandPC
        <5> QED BY <5>1, <5>2 DEF Watched, Pipeline!Live
      <4>2. \/ Watched(l) \/ (l \in pipe.spawned /\ ~pipe.expired)
            \/ l \in pipe.sweep /\ job[0].pc \in {"mark", "sweep"}
        BY <1>2, <3>2 DEF Barrier
      <4>3. job[0].pc \in {"mark", "sweep"} => job'[0].pc = job[0].pc
        BY <1>12 DEF Dispatching, WalkPC, HandPC
      <4> QED BY <4>1, <4>2, <4>3
    <3> QED BY <1>6, <3>1, <3>2
  <2>2. /\ pipe.expired \in BOOLEAN
        /\ Dispatching' \/ job'[0].pc = "wait" => ~pipe.expired
        /\ job'[0].pc \in {"mark", "sweep"} => pipe.expired
        /\ job'[0].pc \in AfterPC => pipe.expired \/ Pipeline!Settled = Item
    BY <1>2, <1>12 DEF Barrier, AfterPC, Dispatching
  <2>3. Pipeline!Settled' = Pipeline!Settled
    BY <1>1 DEF Pipeline!Settled
  <2> QED BY <1>1, <2>1, <2>2, <2>3 DEF Barrier
<1>14. Report'
  <2>1. (job'[0].pc \in {"settle", "seal", "verdict", "end"}
           \/ job[0].pc \in {"settle", "seal", "verdict", "end"})
          => job'[0].pc = job[0].pc
    BY <1>12 DEF Dispatching, WalkPC, HandPC
  <2> QED BY <1>1, <1>2, <2>1 DEF Report
<1> QED BY <1>8, <1>9, <1>10, <1>11, <1>13, <1>14 DEF PipeInv

(* Closing accounts *)

\* What a step on leaf l may do to the threads, of what the accounts see.
Standing(l) ==
    /\ Thread' = Thread
    /\ \A u \in Thread :
          /\ job'[u].pc = "spawn" <=> job[u].pc = "spawn"
          /\ u # l => /\ job'[u].pc = "charge" <=> job[u].pc = "charge"
                      /\ Unfired(u, job[u]) => Unfired(u, job'[u])
          /\ u = 0 \/ job'[u].pc = "idle" \/ job'[u].sub # u

\* A slot is given back, for one leaf.
LEMMA GivesBack ==
    ASSUME PipeShapes, Slots, NEW l \in Leaves, l \notin GivenBack,
           GivenBack' = GivenBack \cup {l}, Spawning' = Spawning, Len(leaves') = Len(leaves),
           budget'.spawned = Pipeline!NonNegative(budget.spawned - 1)
    PROVE  Slots'
<1>1. /\ Len(leaves) \in Nat /\ IsFiniteSet(Leaves) /\ Count(Leaves) = Len(leaves)
      /\ IsFiniteSet(GivenBack) /\ Count(GivenBack) \in Nat
      /\ Count(Spawning) \in Nat
  BY PipeBasics
<1>2. Count(GivenBack \cup {l}) = Count(GivenBack) + 1
  BY <1>1, CountAddElement
<1>3. Count(GivenBack) + 1 <= Len(leaves)
  <2>1. GivenBack \cup {l} \subseteq Leaves
    BY DEF GivenBack, PipeShapes
  <2> QED BY <1>1, <1>2, <2>1, CountSubset
<1>4. budget.spawned \in Nat /\ budget.spawned <= SmallLifetime
      /\ budget.spawned + Count(GivenBack) = Count(Spawning) + Len(leaves)
  BY DEF PipeShapes, Slots
<1>5. budget'.spawned = budget.spawned - 1
  BY <1>1, <1>3, <1>4 DEF Pipeline!NonNegative
<1>6. budget'.spawned + (Count(GivenBack) + 1) = Count(Spawning) + Len(leaves)
      /\ budget'.spawned <= SmallLifetime
  BY <1>1, <1>4, <1>5, PipeConstants
<1>7. Count(GivenBack') = Count(GivenBack) + 1
  BY <1>2
<1> QED BY <1>6, <1>7 DEF Slots

\* Only of leaf l has the account changed: it is closed, and its cost booked.
Closes(l) ==
    /\ l \notin book.accounted /\ ~book.sealed
    /\ Len(leaves') = Len(leaves)
    /\ \A k \in Leaves \ {l} : leaves'[k] = leaves[k]
    /\ leaves'[l].turns = leaves[l].turns /\ leaves'[l].status \in Pipeline!Terminal
    /\ book'.accounted = book.accounted \cup {l} /\ book'.stragglers = book.stragglers
    /\ book'.sealed = book.sealed /\ book'.tokens = book.tokens + leaves[l].turns
    /\ book'.uncertain \in Nat /\ book.uncertain <= book'.uncertain
    /\ budget'.spawned = IF leaves'[l].status = "cancelled" /\ job'[l].pc # "charge"
                         THEN Pipeline!NonNegative(budget.spawned - 1) ELSE budget.spawned

\* The account of a leaf is closed once: its turn is charged, its slot given back.
LEMMA ClosesAccount ==
    ASSUME PipeShapes, Accounts, NEW l \in Leaves, Standing(l), Closes(l)
    PROVE  Accounts'
<1>1. /\ Len(leaves) \in Nat /\ Leaves = 1..Len(leaves) /\ Thread = 0..Len(leaves)
      /\ IsFiniteSet(Billed) /\ Count(Billed) \in Nat
      /\ book.accounted \subseteq Leaves /\ book.tokens \in Nat
  BY PipeBasics DEF PipeShapes
<1>2. Leaves' = Leaves /\ Leaves \subseteq Thread \ {0}
  <2>1. Leaves' = DOMAIN leaves' \/ Leaves' = 1..Len(leaves')
    BY DEF Pipeline!Leaves
  <2>2. Leaves' = 1..Len(leaves')
    BY DEF Pipeline!Leaves
  <2> QED BY <1>1, <2>2 DEF Closes
<1>3. ASSUME NEW k \in Leaves PROVE LeafRight(k)'
  <2>1. LeafRight(k) /\ k \in Thread /\ k # 0
    BY <1>2 DEF Accounts
  <2>2. CASE k = l
    BY <2>1, <2>2 DEF LeafRight, Standing, Closes, Pipeline!Live
  <2>3. CASE k # l
    BY <2>1, <2>3 DEF LeafRight, Standing, Closes, Pipeline!Live
  <2> QED BY <2>2, <2>3
<1>4. Spawning' = Spawning
  BY DEF Spawning, Standing
<1>5. /\ l \notin GivenBack
      /\ GivenBack' = IF leaves'[l].status = "cancelled" /\ job'[l].pc # "charge"
                      THEN GivenBack \cup {l} ELSE GivenBack
  <2>1. \A k \in book.accounted : k \in Leaves \ {l} /\ k \in Thread
    BY <1>1, <1>2 DEF Closes
  <2>2. \A k \in book.accounted : /\ leaves'[k] = leaves[k]
                                  /\ job'[k].pc = "charge" <=> job[k].pc = "charge"
    BY <2>1 DEF Closes, Standing
  <2> QED BY <2>1, <2>2 DEF GivenBack, Closes
<1>6. Slots'
  <2>1. CASE leaves'[l].status = "cancelled" /\ job'[l].pc # "charge"
    BY <1>4, <1>5, <2>1, GivesBack DEF Closes, Accounts
  <2>2. CASE ~(leaves'[l].status = "cancelled" /\ job'[l].pc # "charge")
    BY <1>4, <1>5, <2>2 DEF Closes, Accounts, Slots
  <2> QED BY <2>1, <2>2
<1>7. Balance'
  <2>1. leaves[l].turns \in {0, 1}
    BY DEF Accounts, LeafRight
  <2>2. /\ Billed' = IF leaves[l].turns = 1 THEN Billed \cup {l} ELSE Billed
        /\ l \notin Billed
    BY <1>1 DEF Billed, Closes
  <2>3. Count(Billed') = Count(Billed) + leaves[l].turns
    <3>1. CASE leaves[l].turns = 1
      BY <1>1, <2>2, <3>1, CountAddElement
    <3>2. CASE leaves[l].turns = 0
      BY <1>1, <2>2, <3>2
    <3> QED BY <2>1, <3>1, <3>2
  <2>4. book.tokens = Count(Billed) /\ book.stragglers = {}
    BY DEF Accounts, Balance, Closes
  <2>5. Count(book'.stragglers) <= book'.uncertain
    <3>1. Count(book'.stragglers) = 0
      BY <2>4, CountEmptySet DEF Closes
    <3> QED BY <3>1 DEF Closes
  <2> QED BY <2>3, <2>4, <2>5 DEF Balance, Closes
<1> QED BY <1>2, <1>3, <1>6, <1>7 DEF Accounts

\* The accounts are as they were; leaves may have moved on.
LEMMA LeavesOpen ==
    ASSUME PipeShapes, Accounts, Leaves' = Leaves, Len(leaves') = Len(leaves),
           NEW l, Standing(l),
           l \in Thread => /\ job'[l].pc = "charge" <=> job[l].pc = "charge"
                           /\ Unfired(l, job[l]) /\ Live(l)' => Unfired(l, job'[l]),
           \A k \in Leaves : /\ leaves'[k].turns \in {0, 1}
                             /\ Live(k)' => Live(k) /\ leaves'[k].turns = leaves[k].turns
                             /\ k \in book.accounted => leaves'[k] = leaves[k],
           budget'.spawned = budget.spawned,
           book'.accounted = book.accounted, book'.stragglers = book.stragglers,
           book'.sealed = book.sealed, book'.tokens = book.tokens,
           book'.uncertain = book.uncertain
    PROVE  Accounts'
<1>1. Leaves \subseteq Thread \ {0} /\ book.accounted \subseteq Leaves
  BY PipeBasics DEF PipeShapes
<1>2. ASSUME NEW k \in Leaves PROVE LeafRight(k)'
  <2>1. LeafRight(k) /\ k \in Thread /\ k # 0
    BY <1>1 DEF Accounts
  <2>2. /\ job'[k].pc = "charge" <=> job[k].pc = "charge"
        /\ Unfired(k, job[k]) /\ Live(k)' => Unfired(k, job'[k])
        /\ job'[k].pc = "idle" \/ job'[k].sub # k
    BY <2>1 DEF Standing
  <2>3. k \in book.accounted => leaves'[k] = leaves[k] /\ ~Live(k)
    BY <2>1 DEF LeafRight
  <2>4. k \in book.accounted => ~Live(k)'
    BY <2>3 DEF Pipeline!Live
  <2> QED BY <2>1, <2>2, <2>4 DEF LeafRight
<1>3. Spawning' = Spawning
  BY DEF Spawning, Standing
<1>4. GivenBack' = GivenBack
  <2>1. \A k \in book.accounted : /\ leaves'[k] = leaves[k]
                                  /\ job'[k].pc = "charge" <=> job[k].pc = "charge"
    BY <1>1 DEF Standing
  <2> QED BY <2>1 DEF GivenBack
<1>5. Billed' = Billed
  BY <1>1 DEF Billed
<1> QED BY <1>2, <1>3, <1>4, <1>5 DEF Accounts, Slots, Balance

\* core.cancel of some leaves.
LEMMA CancelledLeaves ==
    ASSUME PipeShapes, Accounts, NEW set, leaves' = Pipeline!AfterCancel(set)
    PROVE  /\ leaves' \in Seq(PipeLeaf) /\ Len(leaves') = Len(leaves) /\ Leaves' = Leaves
           /\ \A k \in Leaves :
                /\ leaves'[k].turns = leaves[k].turns
                /\ Live(k)' => Live(k)
                /\ leaves[k].asked => leaves'[k].asked
                /\ ~Live(k) => leaves'[k] = leaves[k]
                /\ k \notin set => leaves'[k] = leaves[k]
                /\ k \in set => ~Live(k)' \/ leaves'[k].asked
                /\ k \in set /\ leaves[k].status = "queued" => leaves'[k].status = "cancelled"
                /\ k \in set /\ leaves[k].status = "running" => leaves'[k].status = "running"
<1>1. Len(leaves) \in Nat /\ Leaves = 1..Len(leaves) /\ leaves \in [Leaves -> PipeLeaf]
  BY PipeBasics
<1>2. \A k \in Leaves :
        leaves'[k] = IF k \notin set THEN leaves[k]
                     ELSE CASE leaves[k].status = "queued" -> [leaves[k] EXCEPT !.status = "cancelled"]
                          [] leaves[k].status = "running" -> [leaves[k] EXCEPT !.asked = TRUE]
                          [] OTHER -> leaves[k]
  BY DEF Pipeline!AfterCancel
<1>3. ASSUME NEW k \in Leaves
      PROVE  /\ leaves'[k] \in PipeLeaf /\ leaves'[k].turns = leaves[k].turns
             /\ Live(k)' => Live(k)
             /\ leaves[k].asked => leaves'[k].asked
             /\ ~Live(k) => leaves'[k] = leaves[k]
             /\ k \notin set => leaves'[k] = leaves[k]
             /\ k \in set => ~Live(k)' \/ leaves'[k].asked
             /\ k \in set /\ leaves[k].status = "queued" => leaves'[k].status = "cancelled"
             /\ k \in set /\ leaves[k].status = "running" => leaves'[k].status = "running"
  <2>1. leaves[k] \in PipeLeaf
    BY <1>1
  <2>2. CASE k \notin set \/ leaves[k].status \notin {"queued", "running"}
    <3>1. leaves'[k] = leaves[k]
      BY <1>2, <2>2
    <3> QED BY <2>1, <2>2, <3>1 DEF Pipeline!Live, PipeLeaf
  <2>3. CASE k \in set /\ leaves[k].status = "queued"
    <3>1. leaves'[k] = [leaves[k] EXCEPT !.status = "cancelled"]
      BY <1>2, <2>3
    <3> QED BY <2>1, <2>3, <3>1 DEF Pipeline!Live, PipeLeaf, Pipeline!Terminal
  <2>4. CASE k \in set /\ leaves[k].status = "running"
    <3>1. leaves'[k] = [leaves[k] EXCEPT !.asked = TRUE]
      BY <1>2, <2>4
    <3> QED BY <2>1, <2>4, <3>1 DEF Pipeline!Live, PipeLeaf, Pipeline!Terminal
  <2> QED BY <2>2, <2>3, <2>4
<1>4. leaves' \in [1..Len(leaves) -> PipeLeaf]
  BY <1>1, <1>3 DEF Pipeline!AfterCancel
<1>5. leaves' \in Seq(PipeLeaf) /\ Len(leaves') = Len(leaves)
  BY <1>1, <1>4
<1> QED BY <1>1, <1>3, <1>5 DEF Pipeline!Leaves

\* What the books and the budget may do while an account is closed.
Booked ==
    /\ budget' \in [spawned : Nat, tokens : Nat, charges : Nat]
    /\ leaves' \in Seq(PipeLeaf) /\ Len(leaves') = Len(leaves) /\ Leaves' = Leaves
    /\ DOMAIN book' = BookFields
    /\ book'.accounted \subseteq Leaves /\ book'.stragglers = book.stragglers
    /\ DOMAIN book'.pending \subseteq Leaves /\ book'.tracked = book.tracked
    /\ book'.tokens \in Nat /\ book'.uncertain \in Nat /\ book'.sealed = book.sealed
    /\ \A k \in Leaves : (Live(k)' => Live(k)) /\ (leaves[k].asked => leaves'[k].asked)

\* account_leaf of a leaf, for its books.
LEMMA AccountedBooks ==
    ASSUME PipeShapes, NEW l \in Leaves, NEW cause, book' = Pipeline!Accounted(book, l, cause)
    PROVE  /\ DOMAIN book' = BookFields
           /\ book'.accounted = IF Pipeline!Bills(book, l) THEN book.accounted \cup {l}
                                ELSE book.accounted
           /\ book'.stragglers = book.stragglers /\ book'.sealed = book.sealed
           /\ DOMAIN book'.pending \subseteq Leaves /\ book'.tracked = book.tracked
           /\ book'.tokens = IF Pipeline!Bills(book, l) THEN book.tokens + leaves[l].turns ELSE book.tokens
           /\ ~Pipeline!Bills(book, l) => book'.uncertain = book.uncertain
           /\ book'.uncertain \in Nat /\ book.uncertain <= book'.uncertain
           /\ book'.tokens \in Nat
<1>1. /\ DOMAIN book = BookFields /\ book.accounted \subseteq Leaves
      /\ DOMAIN book.pending \subseteq Leaves /\ book.tokens \in Nat /\ book.uncertain \in Nat
      /\ leaves[l].turns \in Nat
  BY PipeBasics DEF PipeShapes, PipeLeaf
<1>2. CASE Pipeline!Closed(book, l)
  BY <1>1, <1>2 DEF Pipeline!Accounted, Pipeline!Bills
<1>3. CASE ~Pipeline!Closed(book, l) /\ Live(l) /\ l \in DOMAIN book.pending
  BY <1>1, <1>3 DEF Pipeline!Accounted, Pipeline!Bills
<1>4. CASE ~Pipeline!Closed(book, l) /\ Live(l) /\ l \notin DOMAIN book.pending
  BY <1>1, <1>4 DEF Pipeline!Accounted, Pipeline!Bills, BookFields
<1>5. CASE ~Pipeline!Closed(book, l) /\ ~Live(l)
  <2>1. book' = [book EXCEPT !.accounted = @ \cup {l}, !.pending = Pipeline!Without(@, l),
                             !.tokens = @ + Pipeline!Cost(l), !.uncertain = @ + Pipeline!Uncertain(l)]
    BY <1>5 DEF Pipeline!Accounted
  <2>2. Pipeline!Uncertain(l) \in {0, 1} /\ Pipeline!Cost(l) = leaves[l].turns
    BY DEF Pipeline!Uncertain, Pipeline!Cost
  <2>3. DOMAIN Pipeline!Without(book.pending, l) \subseteq Leaves
    BY <1>1 DEF Pipeline!Without
  <2> HIDE DEF Pipeline!Without
  <2> QED BY <1>1, <1>5, <2>1, <2>2, <2>3 DEF Pipeline!Bills, BookFields
<1> QED BY <1>2, <1>3, <1>4, <1>5

\* The budget after account_leaf.
LEMMA ChargedBudget ==
    ASSUME PipeShapes, NEW l \in Leaves, budget' = Pipeline!ChargedFor(budget, l)
    PROVE  /\ budget' \in [spawned : Nat, tokens : Nat, charges : Nat]
           /\ budget'.spawned = IF leaves[l].status = "cancelled"
                                THEN Pipeline!NonNegative(budget.spawned - 1) ELSE budget.spawned
<1>1. budget \in [spawned : Nat, tokens : Nat, charges : Nat] /\ Pipeline!Cost(l) \in Nat
  BY PipeBasics DEF PipeShapes, PipeLeaf, Pipeline!Cost
<1>2. Pipeline!Charged(budget, Pipeline!Cost(l)) \in [spawned : Nat, tokens : Nat, charges : Nat]
      /\ Pipeline!Charged(budget, Pipeline!Cost(l)).spawned = budget.spawned
  <2>1. ASSUME NEW b \in [spawned : Nat, tokens : Nat, charges : Nat], NEW n \in Nat
        PROVE  /\ Pipeline!Charged(b, n) \in [spawned : Nat, tokens : Nat, charges : Nat]
               /\ Pipeline!Charged(b, n).spawned = b.spawned
    <3>1. ASSUME NEW p \in Nat, NEW q \in Nat
          PROVE  LET c == [b EXCEPT !.tokens = p, !.charges = q]
                 IN  c \in [spawned : Nat, tokens : Nat, charges : Nat] /\ c.spawned = b.spawned
      BY <2>1, <3>1
    <3> DEFINE p == b.tokens + n
               q == IF n > 0 THEN b.charges + 1 ELSE b.charges
    <3>2. p \in Nat /\ q \in Nat
      BY <2>1
    <3>3. Pipeline!Charged(b, n) = [b EXCEPT !.tokens = p, !.charges = q]
      BY DEF Pipeline!Charged
    <3> HIDE DEF p, q
    <3> QED BY <3>1, <3>2, <3>3
  <2> QED BY <1>1, <2>1
<1>3. ASSUME NEW c \in [spawned : Nat, tokens : Nat, charges : Nat]
      PROVE  /\ Pipeline!Refunded(c) \in [spawned : Nat, tokens : Nat, charges : Nat]
             /\ Pipeline!Refunded(c).spawned = Pipeline!NonNegative(c.spawned - 1)
  BY <1>3 DEF Pipeline!Refunded, Pipeline!NonNegative
<1>4. budget' = IF Pipeline!NeverRan(l) THEN Pipeline!Refunded(Pipeline!Charged(budget, Pipeline!Cost(l)))
                ELSE Pipeline!Charged(budget, Pipeline!Cost(l))
  BY DEF Pipeline!ChargedFor
<1> QED BY <1>2, <1>3, <1>4 DEF Pipeline!NeverRan

\* _cancel_running of one leaf, on the accounts.
LEMMA CancelsAndAccounts ==
    ASSUME PipeShapes, Accounts, NEW l \in Leaves, Pipeline!CancelAndAccount(l), Standing(l),
           job'[l] = job[l]
    PROVE  Accounts' /\ Booked /\ (~Live(l)' \/ leaves'[l].asked)
<1>1. leaves' = Pipeline!AfterCancel({l})
  BY DEF Pipeline!CancelAndAccount
<1>2. /\ leaves' \in Seq(PipeLeaf) /\ Len(leaves') = Len(leaves) /\ Leaves' = Leaves
      /\ \A k \in Leaves :
           /\ leaves'[k].turns = leaves[k].turns
           /\ Live(k)' => Live(k)
           /\ leaves[k].asked => leaves'[k].asked
           /\ ~Live(k) => leaves'[k] = leaves[k]
           /\ k # l => leaves'[k] = leaves[k]
           /\ k = l => ~Live(k)' \/ leaves'[k].asked
           /\ k = l /\ leaves[k].status = "queued" => leaves'[k].status = "cancelled"
           /\ k = l /\ leaves[k].status = "running" => leaves'[k].status = "running"
  BY <1>1, CancelledLeaves
<1>3. /\ budget \in [spawned : Nat, tokens : Nat, charges : Nat]
      /\ DOMAIN book = BookFields /\ book.accounted \subseteq Leaves
      /\ DOMAIN book.pending \subseteq Leaves
      /\ book.tokens \in Nat /\ book.uncertain \in Nat
      /\ \A k \in Leaves : leaves[k].turns \in {0, 1} /\ (k \in book.accounted => ~Live(k))
      /\ \A k \in Leaves : Live(k) => leaves[k].turns = 0
      /\ job[l].pc = "charge" => l \in book.accounted
  BY DEF PipeShapes, Accounts, LeafRight
<1>4. ASSUME budget'.spawned = budget.spawned,
             book'.accounted = book.accounted, book'.stragglers = book.stragglers,
             book'.sealed = book.sealed, book'.tokens = book.tokens,
             book'.uncertain = book.uncertain
      PROVE  Accounts'
  BY <1>2, <1>3, <1>4, LeavesOpen
<1>5. CASE leaves[l].status = "queued" /\ ~Pipeline!Closed(book, l)
  <2>1. Live(l) /\ leaves'[l].status = "cancelled" /\ leaves[l].turns = 0
    BY <1>2, <1>3, <1>5 DEF Pipeline!Live, Pipeline!Terminal
  <2>2. /\ book' = [book EXCEPT !.accounted = @ \cup {l}, !.pending = Pipeline!Without(@, l)]
        /\ budget' = Pipeline!Refunded(budget)
    BY <1>1, <1>5, <2>1 DEF Pipeline!CancelAndAccount
  <2>3. DOMAIN Pipeline!Without(book.pending, l) \subseteq Leaves
    BY <1>3 DEF Pipeline!Without
  <2>4. /\ DOMAIN book' = BookFields /\ book'.accounted = book.accounted \cup {l}
        /\ book'.pending = Pipeline!Without(book.pending, l)
        /\ book'.stragglers = book.stragglers /\ book'.sealed = book.sealed
        /\ book'.tokens = book.tokens /\ book'.uncertain = book.uncertain
        /\ book'.tracked = book.tracked
    BY <1>3, <2>2 DEF BookFields
  <2>5. /\ budget' \in [spawned : Nat, tokens : Nat, charges : Nat]
        /\ budget'.spawned = Pipeline!NonNegative(budget.spawned - 1)
    BY <1>3, <2>2 DEF Pipeline!Refunded, Pipeline!NonNegative
  <2>6. Booked
    BY <1>2, <1>3, <2>3, <2>4, <2>5 DEF Booked
  <2>7. Closes(l)
    BY <1>2, <1>3, <1>5, <2>1, <2>4, <2>5 DEF Closes, Pipeline!Closed, Pipeline!Terminal
  <2> QED BY <1>2, <2>6, <2>7, ClosesAccount
<1>6. CASE leaves[l].status = "queued" /\ Pipeline!Closed(book, l)
  <2>1. book' = book /\ budget' = budget
    BY <1>1, <1>6 DEF Pipeline!CancelAndAccount
  <2>2. Booked
    BY <1>2, <1>3, <2>1 DEF Booked, PipeShapes
  <2> QED BY <1>2, <1>4, <2>1, <2>2
<1>7. CASE leaves[l].status # "queued"
  <2>1. /\ book' = Pipeline!Accounted(book, l, book.expired = "pause")
        /\ budget' = IF Pipeline!Bills(book, l) THEN Pipeline!ChargedFor(budget, l) ELSE budget
    BY <1>7 DEF Pipeline!CancelAndAccount
  <2>2. /\ DOMAIN book' = BookFields
        /\ book'.accounted = IF Pipeline!Bills(book, l) THEN book.accounted \cup {l}
                             ELSE book.accounted
        /\ book'.stragglers = book.stragglers /\ book'.sealed = book.sealed
        /\ DOMAIN book'.pending \subseteq Leaves /\ book'.tracked = book.tracked
        /\ book'.tokens = IF Pipeline!Bills(book, l) THEN book.tokens + leaves[l].turns ELSE book.tokens
        /\ ~Pipeline!Bills(book, l) => book'.uncertain = book.uncertain
        /\ book'.uncertain \in Nat /\ book.uncertain <= book'.uncertain
        /\ book'.tokens \in Nat
    BY <2>1, AccountedBooks
  <2>3. CASE Pipeline!Bills(book, l)
    <3>1. ~Live(l) /\ ~Pipeline!Closed(book, l) /\ leaves'[l] = leaves[l] /\ job'[l].pc # "charge"
      BY <1>2, <1>3, <2>3 DEF Pipeline!Bills, Pipeline!Closed
    <3>2. /\ budget' \in [spawned : Nat, tokens : Nat, charges : Nat]
          /\ budget'.spawned = IF leaves[l].status = "cancelled"
                               THEN Pipeline!NonNegative(budget.spawned - 1) ELSE budget.spawned
      BY <2>1, <2>3, ChargedBudget
    <3>3. Closes(l)
      BY <1>2, <1>3, <2>2, <2>3, <3>1, <3>2 DEF Closes, Pipeline!Closed, Pipeline!Live
    <3>4. Booked
      BY <1>2, <1>3, <2>2, <3>2 DEF Booked
    <3> QED BY <1>2, <3>3, <3>4, ClosesAccount
  <2>4. CASE ~Pipeline!Bills(book, l)
    <3>1. Booked
      BY <1>2, <1>3, <2>1, <2>2, <2>4 DEF Booked
    <3> QED BY <1>2, <1>4, <2>1, <2>2, <2>4, <3>1
  <2> QED BY <2>3, <2>4
<1> QED BY <1>5, <1>6, <1>7

\* The types of what a step on the accounts leaves.
LEMMA BookedShapes ==
    ASSUME PipeShapes, Booked, UNCHANGED pipe, job' \in [Thread -> Job]
    PROVE  PipeShapes' /\ Onward
<1>1. Thread = 0..Len(leaves)
  BY PipeBasics
<1>2. PipeShapes'
  BY <1>1 DEF PipeShapes, Booked
<1> QED BY <1>2 DEF Onward, Booked

\* A stranded leaf is cancelled, and accounted for, by its own thread.
LEMMA StrandKeeps == ASSUME PipeInv, NEW t \in Thread, Pipeline!Strand(t) PROVE PipeInv'
<1>0. PICK l : l = job[t].sub
  OBVIOUS
<1>1. /\ job[t].pc = "strand" /\ Pipeline!CancelAndAccount(l) /\ job' = Pipeline!Returned(t) /\ UNCHANGED pipe
  BY <1>0 DEF Pipeline!Strand, Pipeline!At, Pipeline!Return
<1>2. /\ PipeShapes /\ Accounts /\ Roles /\ l \in Leaves /\ job[t].pc \in HandPC
      /\ t = 0 => Dispatching
  BY <1>0, <1>1 DEF PipeInv, Jobs, Roles, HandPC, Dispatching
<1>3. t # 0 => l # t
  <2>1. t # 0 => LeafRight(t)
    BY <1>2, PipeBasics DEF Accounts
  <2> QED BY <1>0, <1>1, <2>1 DEF LeafRight
<1>4. PICK row : /\ Moves(t, row) /\ row.pc \in {"idle", "wait", "advance"}
                 /\ t # 0 => row.pc = "idle"
  BY <1>1, <1>2, ReturnedRow
<1>5. /\ Thread' = Thread /\ job'[t] = row /\ \A u \in Thread \ {t} : job'[u] = job[u]
      /\ job' \in [Thread -> Job] /\ 0 \notin Leaves /\ Leaves \subseteq Thread
  BY <1>2, <1>4, Moved, PipeBasics
<1>6. Standing(l)
  <2>1. ASSUME NEW u \in Thread
        PROVE  /\ job'[u].pc = "spawn" <=> job[u].pc = "spawn"
               /\ job'[u].pc = "charge" <=> job[u].pc = "charge"
               /\ Unfired(u, job[u]) => Unfired(u, job'[u])
               /\ u = 0 \/ job'[u].pc = "idle" \/ job'[u].sub # u
    <3>1. CASE u = t
      BY <1>1, <1>4, <1>5, <3>1 DEF Unfired
    <3>2. CASE u # t
      <4>1. u # 0 => LeafRight(u)
        BY <1>2, PipeBasics DEF Accounts
      <4> QED BY <1>5, <3>2, <4>1 DEF LeafRight
    <3> QED BY <3>1, <3>2
  <2> QED BY <1>5, <2>1 DEF Standing
<1>7. job'[l] = job[l]
  BY <1>2, <1>3, <1>5
<1>8. Accounts' /\ Booked /\ (~Live(l)' \/ leaves'[l].asked)
  BY <1>1, <1>2, <1>6, <1>7, CancelsAndAccounts
<1>9. PipeShapes' /\ Onward
  BY <1>1, <1>2, <1>5, <1>8, BookedShapes
<1>10. Holes'
  BY <1>1, HolesStay DEF PipeInv
<1>11. \E k \in Leaves : k = job[t].sub /\ (~Live(k)' \/ leaves'[k].asked)
  BY <1>0, <1>2, <1>8
<1> QED BY <1>0, <1>1, <1>2, <1>3, <1>8, <1>9, <1>10, <1>11, ReturnsOn

\* The hook of a leaf that is done: its account is closed, if nobody was first.
LEMMA HookFiresKeeps == ASSUME PipeInv, NEW l \in Thread, Pipeline!HookFires(l) PROVE PipeInv'
<1> DEFINE pc == IF Pipeline!Bills(book, l) THEN "charge" ELSE "accept"
           row == [job[l] EXCEPT !.pc = pc, !.sub = 0]
<1>1. /\ l # 0 /\ job[l].pc = "idle" /\ job[l].sub = l /\ ~Live(l)
      /\ book' = Pipeline!Accounted(book, l, FALSE)
      /\ job' = [job EXCEPT ![l].pc = pc, ![l].sub = 0]
      /\ UNCHANGED <<budget, leaves, pipe>>
  BY DEF Pipeline!HookFires, Pipeline!At
<1>2. /\ PipeShapes /\ Accounts /\ Jobs /\ l \in Leaves /\ LeafRight(l)
      /\ job \in [Thread -> Job] /\ job[l] \in Job
      /\ Unfired(l, job[l]) /\ Carries(l, job[l]) /\ Walks(l)
  BY <1>1, PipeBasics DEF PipeInv, Accounts, Unfired, Carries, Jobs
<1>3. pc \in {"charge", "accept"}
  OBVIOUS
<1>4. /\ row \in Job /\ row.pc = pc /\ row.sub = 0 /\ row.item = job[l].item
      /\ row.stage = job[l].stage
  <2> HIDE DEF pc
  <2> QED BY <1>2, <1>3 DEF Pipeline!Job, Pipeline!PC
<1>5. Moves(l, row)
  <2> HIDE DEF pc
  <2>1. job' = [job EXCEPT ![l] = row]
    BY <1>1, <1>2
  <2> QED BY <1>4, <2>1 DEF Moves
<1> HIDE DEF row
<1>6. /\ Thread' = Thread /\ job'[l] = row /\ \A u \in Thread \ {l} : job'[u] = job[u]
      /\ job' \in [Thread -> Job]
  BY <1>2, <1>5, Moved
<1>7. Standing(l)
  <2>1. ASSUME NEW u \in Thread \ {l}, u # 0 PROVE job[u].pc = "idle" \/ job[u].sub # u
    <3>1. LeafRight(u)
      BY <1>2, <2>1, PipeBasics DEF Accounts
    <3> QED BY <3>1 DEF LeafRight
  <2> QED BY <1>1, <1>3, <1>4, <1>6, <2>1 DEF Standing
<1>8. /\ DOMAIN book' = BookFields
      /\ book'.accounted = IF Pipeline!Bills(book, l) THEN book.accounted \cup {l}
                           ELSE book.accounted
      /\ book'.stragglers = book.stragglers /\ book'.sealed = book.sealed
      /\ DOMAIN book'.pending \subseteq Leaves /\ book'.tracked = book.tracked
      /\ book'.tokens = IF Pipeline!Bills(book, l) THEN book.tokens + leaves[l].turns ELSE book.tokens
      /\ ~Pipeline!Bills(book, l) => book'.uncertain = book.uncertain
      /\ book'.uncertain \in Nat /\ book.uncertain <= book'.uncertain
      /\ book'.tokens \in Nat
  BY <1>1, <1>2, AccountedBooks
<1>9. Booked
  <2>1. book'.accounted \subseteq Leaves
    BY <1>2, <1>8 DEF PipeShapes
  <2>2. Leaves' = Leaves
    BY <1>1 DEF Pipeline!Leaves
  <2> QED BY <1>1, <1>2, <1>8, <2>1, <2>2 DEF Booked, PipeShapes, Pipeline!Live
<1>10. Accounts'
  <2>1. CASE Pipeline!Bills(book, l)
    <3>1. ~Pipeline!Closed(book, l) /\ row.pc = "charge"
      BY <1>4, <2>1 DEF Pipeline!Bills
    <3>2. Closes(l)
      BY <1>1, <1>6, <1>8, <2>1, <3>1 DEF Closes, Pipeline!Closed, Pipeline!Live
    <3> QED BY <1>2, <1>7, <3>2, ClosesAccount
  <2>2. CASE ~Pipeline!Bills(book, l)
    <3>1. row.pc = "accept"
      BY <1>4, <2>2
    <3>2. /\ Leaves' = Leaves /\ Len(leaves') = Len(leaves)
          /\ \A k \in Leaves : /\ leaves'[k].turns \in {0, 1}
                               /\ Live(k)' => Live(k) /\ leaves'[k].turns = leaves[k].turns
                               /\ k \in book.accounted => leaves'[k] = leaves[k]
      BY <1>1, <1>2, <1>9 DEF Accounts, LeafRight, Booked, Pipeline!Live
    <3>3. /\ job'[l].pc = "charge" <=> job[l].pc = "charge"
          /\ ~Live(l)'
      BY <1>1, <1>6, <3>1 DEF Pipeline!Live
    <3> QED BY <1>1, <1>2, <1>7, <1>8, <2>2, <3>2, <3>3, LeavesOpen
  <2> QED BY <2>1, <2>2
<1>11. PipeShapes' /\ Onward
  BY <1>1, <1>2, <1>6, <1>9, BookedShapes
<1>12. row.pc \in HookPC
  BY <1>3, <1>4 DEF HookPC
<1>13. StageRight(row, pipe'.cells)
  BY <1>1, <1>2, <1>3, <1>4 DEF Walks, StageRight
<1> QED BY <1>1, <1>2, <1>4, <1>5, <1>10, <1>11, <1>12, <1>13, WalksOn

\* The hook charges the budget, and gives back the slot of a turn that never ran.
LEMMA ChargeKeeps == ASSUME PipeInv, NEW l \in Thread, Pipeline!Charge(l), l # 0 PROVE PipeInv'
<1>1. /\ job[l].pc = "charge" /\ job[l].pc \in HookPC /\ job[l].pc \notin HandPC
      /\ budget' = Pipeline!ChargedFor(budget, l) /\ (Goto(l, "idle") \/ Goto(l, "stage"))
      /\ UNCHANGED <<leaves, book, pipe>>
  BY DEF Pipeline!Charge, Pipeline!At, HookPC, HandPC
<1>2. /\ PipeShapes /\ Accounts /\ l \in Leaves /\ LeafRight(l) /\ job[l].sub # l
      /\ Carries(l, job[l]) /\ ~Unfired(l, job[l]) /\ StageRight(job[l], pipe.cells)
      /\ l \in book.accounted /\ ~Live(l) /\ job \in [Thread -> Job]
  <2>1. l \in Leaves /\ LeafRight(l)
    BY <1>1, AtWork
  <2> QED BY <1>1, <2>1, AtWork DEF PipeInv, LeafRight
<1>3. /\ budget' \in [spawned : Nat, tokens : Nat, charges : Nat]
      /\ budget'.spawned = IF leaves[l].status = "cancelled"
                           THEN Pipeline!NonNegative(budget.spawned - 1) ELSE budget.spawned
  BY <1>1, <1>2, ChargedBudget
<1>4. ASSUME NEW row, Moves(l, row), row.pc \in {"idle", "stage"}, row.sub = job[l].sub
      PROVE  Accounts' /\ PipeShapes' /\ Onward
  <2>1. /\ Thread' = Thread /\ job'[l] = row /\ \A u \in Thread \ {l} : job'[u] = job[u]
        /\ job' \in [Thread -> Job] /\ Leaves' = Leaves /\ Leaves = 1..Len(leaves)
        /\ Thread = 0..Len(leaves) /\ Len(leaves) \in Nat
    BY <1>1, <1>2, <1>4, Moved, PipeBasics DEF Pipeline!Leaves
  <2>2. ASSUME NEW k \in Leaves PROVE LeafRight(k)'
    <3>1. LeafRight(k) /\ k \in Thread /\ k # 0
      BY <1>2, <2>1 DEF Accounts
    <3>2. CASE k = l
      BY <1>1, <1>2, <1>4, <2>1, <3>1, <3>2 DEF LeafRight, Pipeline!Live
    <3>3. CASE k # l
      BY <1>1, <2>1, <3>1, <3>3 DEF LeafRight, Pipeline!Live
    <3> QED BY <3>2, <3>3
  <2>3. Spawning' = Spawning
    BY <1>1, <1>4, <2>1 DEF Spawning
  <2>4. /\ l \notin GivenBack
        /\ GivenBack' = IF leaves[l].status = "cancelled" THEN GivenBack \cup {l} ELSE GivenBack
    <3>1. \A k \in book.accounted : k \in Thread
      BY <1>2, <2>1 DEF PipeShapes
    <3> QED BY <1>1, <1>2, <1>4, <2>1, <3>1 DEF GivenBack
  <2>5. Billed' = Billed
    BY <1>1 DEF Billed
  <2>6. Slots'
    <3>1. CASE leaves[l].status = "cancelled"
      BY <1>1, <1>2, <1>3, <2>3, <2>4, <3>1, GivesBack DEF Accounts
    <3>2. CASE leaves[l].status # "cancelled"
      BY <1>1, <1>2, <1>3, <2>3, <2>4, <3>2 DEF Accounts, Slots
    <3> QED BY <3>1, <3>2
  <2>7. Accounts'
    BY <1>1, <1>2, <2>1, <2>2, <2>5, <2>6 DEF Accounts, Balance
  <2>8. Booked
    BY <1>1, <1>2, <1>3, <2>1 DEF Booked, PipeShapes, Pipeline!Live
  <2> QED BY <1>1, <1>2, <2>1, <2>7, <2>8, BookedShapes
<1>5. CASE Goto(l, "idle")
  <2>1. job' = Pipeline!Returned(l)
    BY <1>5 DEF Pipeline!Goto, Pipeline!Returned
  <2>2. PICK row : Moves(l, row) /\ row.sub = job[l].sub /\ row.pc = "idle"
    BY <1>2, <2>1, ReturnedRow DEF PipeInv, Jobs
  <2>3. Holes'
    BY <1>1, HolesStay DEF PipeInv
  <2> QED BY <1>1, <1>2, <1>4, <2>1, <2>2, <2>3, ReturnsOn
<1>6. CASE Goto(l, "stage")
  <2>1. job[l].stage \in Stage
    BY <1>1, <1>2 DEF StageRight
  <2>2. PICK row : /\ Moves(l, row) /\ row.pc = "stage" /\ row.item = job[l].item
                   /\ row.sub = job[l].sub /\ StageRight(row, pipe'.cells)
    BY <1>1, <1>6, <2>1, NewRow DEF Pipeline!PC, HookPC
  <2>3. row.pc \in HookPC
    BY <2>2 DEF HookPC
  <2> QED BY <1>1, <1>2, <1>4, <2>2, <2>3, WalksOn
<1> QED BY <1>1, <1>5, <1>6

\* A stage is done: its cell is whole, or its item is dropped or tried again.
LEMMA StageDoneKeeps ==
    ASSUME PipeInv, NEW l \in Thread, Pipeline!StageDone(l), l # 0 PROVE PipeInv'
<1>1. /\ job[l].pc = "stage" /\ job[l].pc \in HookPC /\ job[l].pc \notin {"spawn", "charge"}
      /\ UNCHANGED <<budget, leaves, book>>
  BY DEF Pipeline!StageDone, Pipeline!At, HookPC
<1>2. /\ Carries(l, job[l]) /\ ~Unfired(l, job[l]) /\ job[l].sub # l
      /\ job \in [Thread -> Job] /\ job[l] \in Job /\ job[l].item \in Item
      /\ StageRight(job[l], pipe.cells) /\ job[l].stage \in Stage
  BY <1>1, AtWork DEF StageRight
<1>3. DOMAIN pipe = PipeFields
  BY DEF PipeInv, PipeShapes
<1>4. ASSUME NEW row, Moves(l, row), row.pc \in {"drop", "stopall", "advance"},
             row.sub = job[l].sub, row.item = job[l].item, StageRight(row, pipe'.cells),
             DOMAIN pipe' = PipeFields, pipe.cells \subseteq pipe'.cells,
             pipe'.results = pipe.results, pipe'.holes = pipe.holes,
             pipe'.expired = pipe.expired, pipe'.sweep = pipe.sweep,
             pipe'.spawned = pipe.spawned, pipe'.published = pipe.published
      PROVE  PipeInv'
  <2>1. Quiet
    BY <1>1, <1>4 DEF Quiet, PipeInv, PipeShapes
  <2>2. row.pc \in HookPC \ {"spawn", "charge"}
    BY <1>4 DEF HookPC
  <2> QED BY <1>1, <1>2, <1>4, <2>1, <2>2, WalksQuietly
<1>5. CASE UNCHANGED pipe /\ (Goto(l, "stopall") \/ Goto(l, "drop"))
  <2>1. PICK pc \in {"stopall", "drop"} : Goto(l, pc)
    BY <1>5
  <2>2. pc \in Pipeline!PC /\ pc \in HookPC /\ pc # "finish"
    BY DEF Pipeline!PC, HookPC
  <2>3. PICK row : /\ Moves(l, row) /\ row.pc = pc /\ row.item = job[l].item
                   /\ row.sub = job[l].sub /\ StageRight(row, pipe'.cells)
    BY <1>1, <1>2, <1>5, <2>1, <2>2, NewRow
  <2> QED BY <1>4, <1>5, <2>3 DEF PipeInv, PipeShapes
<1>6. CASE /\ pipe' = [pipe EXCEPT !.cells = @ \cup {<<job[l].item, job[l].stage>>}]
           /\ job' = [job EXCEPT ![l].pc = "advance", ![l].stage = @ + 1]
  <2> DEFINE row == [job[l] EXCEPT !.pc = "advance", !.stage = @ + 1]
  <2>1. /\ DOMAIN pipe' = PipeFields /\ pipe'.cells = pipe.cells \cup {<<job[l].item, job[l].stage>>}
        /\ pipe'.results = pipe.results /\ pipe'.holes = pipe.holes
        /\ pipe'.expired = pipe.expired /\ pipe'.sweep = pipe.sweep
        /\ pipe'.spawned = pipe.spawned /\ pipe'.published = pipe.published
    BY <1>3, <1>6 DEF PipeFields
  <2>2. job[l].stage + 1 \in 1..Stages + 1
    BY <1>2, PipeConstants DEF Pipeline!Stage
  <2>3. /\ row \in Job /\ row.pc = "advance" /\ row.sub = job[l].sub /\ row.item = job[l].item
        /\ row.stage = job[l].stage + 1
    BY <1>2, <2>2 DEF Pipeline!Job, Pipeline!PC
  <2>4. Moves(l, row)
    <3>1. job' = [job EXCEPT ![l] = row]
      BY <1>2, <1>6
    <3> QED BY <2>3, <3>1 DEF Moves
  <2>5. StageRight(row, pipe'.cells)
    <3>1. ASSUME NEW s \in Stage, s < row.stage PROVE <<row.item, s>> \in pipe'.cells
      <4>1. s < job[l].stage \/ s = job[l].stage
        BY <1>2, <2>3, <3>1, PipeConstants DEF Pipeline!Stage
      <4> QED BY <1>2, <2>1, <2>3, <4>1 DEF StageRight
    <3> QED BY <2>3, <3>1 DEF StageRight
  <2> HIDE DEF row
  <2> QED BY <1>4, <2>1, <2>3, <2>4, <2>5
<1>7. CASE /\ \E x : pipe' = [pipe EXCEPT !.retries = x]
           /\ Goto(l, "drop") \/ job' = [job EXCEPT ![l].pc = "advance", ![l].again = TRUE]
  <2>1. /\ DOMAIN pipe' = PipeFields /\ pipe'.cells = pipe.cells
        /\ pipe'.results = pipe.results /\ pipe'.holes = pipe.holes
        /\ pipe'.expired = pipe.expired /\ pipe'.sweep = pipe.sweep
        /\ pipe'.spawned = pipe.spawned /\ pipe'.published = pipe.published
    BY <1>3, <1>7 DEF PipeFields
  <2>2. CASE Goto(l, "drop")
    <3>1. PICK row : /\ Moves(l, row) /\ row.pc = "drop" /\ row.item = job[l].item
                     /\ row.sub = job[l].sub /\ StageRight(row, pipe'.cells)
      BY <1>1, <1>2, <2>1, <2>2, NewRow DEF Pipeline!PC, HookPC
    <3> QED BY <1>4, <2>1, <3>1
  <2>3. CASE job' = [job EXCEPT ![l].pc = "advance", ![l].again = TRUE]
    <3> DEFINE row == [job[l] EXCEPT !.pc = "advance", !.again = TRUE]
    <3>1. /\ row \in Job /\ row.pc = "advance" /\ row.sub = job[l].sub
          /\ row.item = job[l].item /\ row.stage = job[l].stage
      BY <1>2 DEF Pipeline!Job, Pipeline!PC
    <3>2. Moves(l, row)
      <4>1. job' = [job EXCEPT ![l] = row]
        BY <1>2, <2>3
      <4> QED BY <3>1, <4>1 DEF Moves
    <3>3. StageRight(row, pipe'.cells)
      BY <1>2, <2>1, <3>1 DEF StageRight
    <3> HIDE DEF row
    <3> QED BY <1>4, <2>1, <3>1, <3>2, <3>3
  <2> QED BY <1>7, <2>2, <2>3
<1>8. ASSUME NEW cell, pipe' = [pipe EXCEPT !.retries[cell] = @ + 1]
      PROVE  \E x : pipe' = [pipe EXCEPT !.retries = x]
  <2>1. pipe' = [pipe EXCEPT !.retries = [pipe.retries EXCEPT ![cell] = @ + 1]]
    BY <1>3, <1>8 DEF PipeFields
  <2> QED BY <2>1
<1> QED BY <1>5, <1>6, <1>7, <1>8 DEF Pipeline!StageDone

\* A hook that latched a stop cancels every leaf tracked by now.
LEMMA StopAllKeeps == ASSUME PipeInv, NEW l \in Thread, Pipeline!StopAll(l), l # 0 PROVE PipeInv'
<1>1. /\ job[l].pc = "stopall" /\ job[l].pc \in HookPC
      /\ leaves' = Pipeline!AfterCancel(book.tracked) /\ Goto(l, "drop")
      /\ UNCHANGED <<budget, book, pipe>>
  BY DEF Pipeline!StopAll, Pipeline!At, HookPC
<1>2. /\ PipeShapes /\ Accounts /\ Carries(l, job[l]) /\ ~Unfired(l, job[l])
      /\ job[l].sub # l /\ l \in Leaves
  BY <1>1, AtWork DEF PipeInv
<1>3. PICK row : /\ Moves(l, row) /\ row.pc = "drop" /\ row.item = job[l].item
                 /\ row.sub = job[l].sub /\ StageRight(row, pipe'.cells)
  BY <1>1, NewRow DEF Pipeline!PC, HookPC
<1>4. /\ Thread' = Thread /\ job'[l] = row /\ \A u \in Thread \ {l} : job'[u] = job[u]
      /\ job' \in [Thread -> Job]
  BY <1>2, <1>3, Moved
<1>5. /\ leaves' \in Seq(PipeLeaf) /\ Len(leaves') = Len(leaves) /\ Leaves' = Leaves
      /\ \A k \in Leaves :
           /\ leaves'[k].turns = leaves[k].turns
           /\ Live(k)' => Live(k)
           /\ leaves[k].asked => leaves'[k].asked
           /\ ~Live(k) => leaves'[k] = leaves[k]
  BY <1>1, <1>2, CancelledLeaves
<1>6. Standing(l)
  <2>1. ASSUME NEW u \in Thread \ {l}, u # 0 PROVE job[u].pc = "idle" \/ job[u].sub # u
    <3>1. LeafRight(u)
      BY <1>2, <2>1, PipeBasics DEF Accounts
    <3> QED BY <3>1 DEF LeafRight
  <2> QED BY <1>1, <1>2, <1>3, <1>4, <2>1 DEF Standing
<1>7. Accounts'
  <2>1. \A k \in Leaves : leaves[k].turns \in {0, 1} /\ (k \in book.accounted => ~Live(k))
    BY <1>2 DEF Accounts, LeafRight
  <2>2. /\ job'[l].pc = "charge" <=> job[l].pc = "charge"
        /\ Unfired(l, job[l]) /\ Live(l)' => Unfired(l, job'[l])
    BY <1>1, <1>2, <1>3, <1>4
  <2> QED BY <1>1, <1>2, <1>5, <1>6, <2>1, <2>2, LeavesOpen
<1>8. PipeShapes' /\ Onward
  <2>1. Booked
    BY <1>1, <1>2, <1>5 DEF Booked, PipeShapes
  <2> QED BY <1>1, <1>2, <1>4, <2>1, BookedShapes
<1>9. row.pc \in HookPC
  BY <1>3 DEF HookPC
<1> QED BY <1>1, <1>2, <1>3, <1>7, <1>8, <1>9, WalksOn

(* The node thread after its dispatch *)

\* Nobody's item moves.
LEMMA JobsStay ==
    ASSUME Jobs, UNCHANGED job, pipe'.results = pipe.results, pipe'.cells = pipe.cells,
           Leaves' = Leaves
    PROVE  Jobs' /\ Thread' = Thread /\ (Dispatching' <=> Dispatching)
<1>1. Thread' = Thread /\ (Dispatching' <=> Dispatching)
  BY DEF Pipeline!Thread, Dispatching
<1>2. Roles'
  BY <1>1 DEF Jobs, Roles
<1>3. ASSUME NEW t \in Thread PROVE Walks(t)'
  <2>1. Walks(t)
    BY <1>3 DEF Jobs
  <2>2. StageRight(job[t], pipe.cells) <=> StageRight(job'[t], pipe'.cells)
    OBVIOUS
  <2>3. \A u \in Thread : Carries(u, job'[u]) <=> Carries(u, job[u])
    OBVIOUS
  <2> QED BY <1>1, <2>1, <2>2, <2>3 DEF Walks
<1> QED BY <1>1, <1>2, <1>3 DEF Jobs

\* A leaf that somebody watches still is, when only leaves move on.
LEMMA StillWatched ==
    ASSUME NEW k \in Leaves, Watched(k), Thread' = Thread,
           \A u \in Thread : job[u].pc \in HandPC => job'[u] = job[u],
           Live(k)' => Live(k), leaves[k].asked => leaves'[k].asked
    PROVE  Watched(k)'
  BY DEF Watched

\* The node thread goes to pc, and nobody's item moves.
LEMMA NodeGoes ==
    ASSUME PipeInv, ~Dispatching, NEW pc \in NodePC, Goto(0, pc),
           pipe'.results = pipe.results, pipe'.cells = pipe.cells, Leaves' = Leaves
    PROVE  /\ Jobs' /\ Thread' = Thread /\ 0 \in Thread /\ job' \in [Thread -> Job]
           /\ job'[0].pc = pc /\ ~Dispatching' /\ \A u \in Thread \ {0} : job'[u] = job[u]
           /\ \A u \in Thread : job[u].pc \in HandPC => job'[u] = job[u]
           /\ \E row : Moves(0, row) /\ row.pc = pc
<1> DEFINE row == [job[0] EXCEPT !.pc = pc]
<1>1. /\ PipeShapes /\ Jobs /\ 0 \in Thread /\ job \in [Thread -> Job] /\ job[0] \in Job
  BY PipeBasics DEF PipeInv
<1>2. pc \in Pipeline!PC /\ pc \notin HandPC \cup HookPC
  BY DEF NodePC, AfterPC, Pipeline!PC, HandPC, HookPC
<1>3. Moves(0, row) /\ row.pc = pc /\ row.item = job[0].item
  BY <1>1, <1>2, GotoRow DEF Pipeline!Job
<1> HIDE DEF row
<1>4. /\ Thread' = Thread /\ job'[0] = row /\ job' \in [Thread -> Job]
      /\ \A u \in Thread \ {0} : job'[u] = job[u]
  BY <1>1, <1>3, Moved
<1>5. ~Dispatching' /\ job[0].pc \notin HandPC
  BY <1>1, <1>3, <1>4 DEF Dispatching, NodePC, AfterPC, WalkPC, HandPC
<1>6. Roles'
  BY <1>1, <1>2, <1>3, <1>4, <1>5 DEF Jobs, Roles
<1>7. ~Carries(0, row)
  BY <1>2, <1>3 DEF Carries, Unfired
<1>8. ASSUME NEW t \in Thread PROVE Walks(t)'
  <2>1. CASE t = 0
    BY <1>4, <1>7, <2>1 DEF Walks
  <2>2. CASE t # 0
    <3>1. Walks(t) /\ job'[t] = job[t]
      BY <1>1, <1>4, <2>2 DEF Jobs
    <3>2. \A u \in Thread \ {t} : Carries(u, job'[u]) => job'[u] = job[u]
      BY <1>4, <1>7
    <3> QED BY <1>4, <3>1, <3>2 DEF Walks
  <2> QED BY <2>1, <2>2
<1>9. Jobs'
  BY <1>4, <1>6, <1>8 DEF Jobs
<1> QED BY <1>1, <1>3, <1>4, <1>5, <1>9

\* What the node thread may do to the books and the node when no account moves.
NodeKeeps ==
    /\ UNCHANGED <<budget, leaves>> /\ DOMAIN book' = BookFields /\ DOMAIN pipe' = PipeFields
    /\ book'.accounted = book.accounted /\ book'.stragglers = book.stragglers
    /\ book'.tokens = book.tokens /\ book'.uncertain = book.uncertain
    /\ book'.sealed = book.sealed
    /\ DOMAIN book'.pending \subseteq Leaves /\ book'.tracked = book.tracked
    /\ pipe'.results = pipe.results /\ pipe'.cells = pipe.cells
    /\ pipe'.spawned = pipe.spawned /\ pipe'.sweep \subseteq Leaves

\* The node thread moves on and touches no leaf.
LEMMA NodeQuietly ==
    ASSUME PipeInv, job[0].pc \in NodePC, NEW pc \in NodePC, Goto(0, pc), NodeKeeps
    PROVE  /\ PipeShapes' /\ Accounts' /\ Jobs' /\ job'[0].pc = pc
           /\ ~Dispatching' /\ Thread' = Thread /\ Leaves' = Leaves
           /\ \A k \in Leaves : Watched(k) => Watched(k)'
<1>1. ~Dispatching /\ Leaves' = Leaves
  BY DEF Dispatching, WalkPC, HandPC, Pipeline!Leaves, NodePC, AfterPC, NodeKeeps
<1>2. /\ Jobs' /\ Thread' = Thread /\ 0 \in Thread /\ job' \in [Thread -> Job]
      /\ job'[0].pc = pc /\ ~Dispatching' /\ \A u \in Thread \ {0} : job'[u] = job[u]
      /\ \A u \in Thread : job[u].pc \in HandPC => job'[u] = job[u]
      /\ \E row : Moves(0, row) /\ row.pc = pc
  BY <1>1, NodeGoes DEF NodeKeeps
<1>3. PICK row : Moves(0, row) /\ row.pc = pc
  BY <1>2
<1>4. PipeShapes /\ Accounts /\ ~Unfired(0, job[0]) /\ Thread = 0..Len(leaves)
  BY PipeBasics DEF PipeInv, Unfired
<1>5. PipeShapes'
  BY <1>1, <1>2, <1>4 DEF PipeShapes, NodeKeeps
<1>6. Accounts'
  <2>1. job[0].pc \notin {"spawn", "charge"} /\ pc \notin {"spawn", "charge"}
    BY DEF NodePC, AfterPC
  <2> QED BY <1>2, <1>3, <1>4, <2>1, AccountsStay DEF NodeKeeps
<1>7. ASSUME NEW k \in Leaves, Watched(k) PROVE Watched(k)'
  BY <1>2, <1>7, StillWatched DEF NodeKeeps, Pipeline!Live
<1> QED BY <1>1, <1>2, <1>5, <1>6, <1>7

\* The barrier opens when every item is settled.
LEMMA BarrierOpensKeeps == ASSUME PipeInv, Pipeline!BarrierOpens PROVE PipeInv'
<1>1. /\ job[0].pc = "wait" /\ Pipeline!Settled = Item /\ Goto(0, "read")
      /\ UNCHANGED <<budget, leaves, book, pipe>>
  BY DEF Pipeline!BarrierOpens, Pipeline!At, Pipeline!bookVars
<1>2. NodeKeeps /\ {"wait", "read"} \subseteq NodePC
  BY <1>1 DEF NodeKeeps, PipeInv, PipeShapes, NodePC, AfterPC
<1>3. /\ PipeShapes' /\ Accounts' /\ Jobs' /\ job'[0].pc = "read"
      /\ ~Dispatching' /\ Thread' = Thread /\ Leaves' = Leaves
      /\ \A k \in Leaves : Watched(k) => Watched(k)'
  BY <1>1, <1>2, NodeQuietly
<1>4. Holes'
  BY <1>1, HolesStay DEF PipeInv
<1>5. Barrier'
  <2>1. Pipeline!Settled' = Pipeline!Settled
    BY <1>1 DEF Pipeline!Settled
  <2> QED BY <1>1, <1>3, <2>1 DEF Barrier, PipeInv
<1>6. Report'
  BY <1>1, <1>3 DEF Report, PipeInv
<1> QED BY <1>3, <1>4, <1>5, <1>6 DEF PipeInv

\* The timeout closes the barrier: what is unsettled is a hole.
LEMMA ExpireKeeps == ASSUME PipeInv, Pipeline!Expire PROVE PipeInv'
<1>1. /\ job[0].pc = "wait" /\ Goto(0, "mark") /\ UNCHANGED <<budget, leaves, book>>
      /\ pipe' = [pipe EXCEPT !.expired = TRUE, !.holes = @ \cup (Item \ Pipeline!Settled),
                              !.sweep = pipe.spawned,
                              !.status = IF Pipeline!Paused /\ ~stop.cancel THEN "pause" ELSE "timeout"]
  BY DEF Pipeline!Expire, Pipeline!At, Pipeline!bookVars
<1>2. /\ DOMAIN pipe' = PipeFields /\ pipe'.expired = TRUE
      /\ pipe'.holes = pipe.holes \cup (Item \ Pipeline!Settled) /\ pipe'.sweep = pipe.spawned
      /\ pipe'.results = pipe.results /\ pipe'.cells = pipe.cells
      /\ pipe'.spawned = pipe.spawned /\ pipe'.published = pipe.published
  <2>1. DOMAIN pipe = PipeFields
    BY DEF PipeInv, PipeShapes
  <2> QED BY <1>1, <2>1 DEF PipeFields
<1>3. NodeKeeps /\ {"wait", "mark"} \subseteq NodePC /\ ~pipe.expired
  BY <1>1, <1>2 DEF NodeKeeps, PipeInv, PipeShapes, NodePC, AfterPC, Barrier
<1>4. /\ PipeShapes' /\ Accounts' /\ Jobs' /\ job'[0].pc = "mark"
      /\ ~Dispatching' /\ Thread' = Thread /\ Leaves' = Leaves
      /\ \A k \in Leaves : Watched(k) => Watched(k)'
  BY <1>1, <1>3, NodeQuietly
<1>5. Holes'
  <2>1. pipe.results \in [Item -> {"pending", "null", "answer"}]
    BY DEF PipeInv, PipeShapes
  <2> QED BY <1>2, <1>3, <2>1 DEF Holes, PipeInv, Pipeline!Settled
<1>6. Barrier'
  BY <1>1, <1>2, <1>4 DEF Barrier, PipeInv, AfterPC
<1>7. Report'
  BY <1>1, <1>2, <1>4 DEF Report, PipeInv
<1> QED BY <1>4, <1>5, <1>6, <1>7 DEF PipeInv

LEMMA NoteExpiredKeeps == ASSUME PipeInv, Pipeline!NoteExpired PROVE PipeInv'
<1>1. /\ job[0].pc = "mark" /\ Goto(0, "sweep") /\ UNCHANGED <<budget, leaves, pipe>>
      /\ book' = [book EXCEPT !.expired = pipe.status]
  BY DEF Pipeline!NoteExpired, Pipeline!At
<1>2. NodeKeeps /\ {"mark", "sweep"} \subseteq NodePC /\ book'.sealed = book.sealed
  <2>1. DOMAIN book = BookFields
    BY DEF PipeInv, PipeShapes
  <2> QED BY <1>1, <2>1 DEF NodeKeeps, PipeInv, PipeShapes, NodePC, AfterPC, BookFields
<1>3. /\ PipeShapes' /\ Accounts' /\ Jobs' /\ job'[0].pc = "sweep"
      /\ ~Dispatching' /\ Thread' = Thread /\ Leaves' = Leaves
      /\ \A k \in Leaves : Watched(k) => Watched(k)'
  BY <1>1, <1>2, NodeQuietly
<1>4. Holes'
  BY <1>1, HolesStay DEF PipeInv
<1>5. Barrier'
  BY <1>1, <1>3 DEF Barrier, PipeInv, AfterPC
<1>6. Report'
  BY <1>1, <1>2, <1>3 DEF Report, PipeInv
<1> QED BY <1>3, <1>4, <1>5, <1>6 DEF PipeInv

LEMMA ExpiryFaultKeeps == ASSUME PipeInv, Pipeline!ExpiryFault PROVE PipeInv'
<1>1. /\ job[0].pc = "sweep" /\ pipe.sweep = {} /\ Goto(0, "read")
      /\ UNCHANGED <<budget, leaves, book, pipe>>
  BY DEF Pipeline!ExpiryFault, Pipeline!At
<1>2. NodeKeeps /\ {"sweep", "read"} \subseteq NodePC
  BY <1>1 DEF NodeKeeps, PipeInv, PipeShapes, NodePC, AfterPC
<1>3. /\ PipeShapes' /\ Accounts' /\ Jobs' /\ job'[0].pc = "read"
      /\ ~Dispatching' /\ Thread' = Thread /\ Leaves' = Leaves
      /\ \A k \in Leaves : Watched(k) => Watched(k)'
  BY <1>1, <1>2, NodeQuietly
<1>4. Holes'
  BY <1>1, HolesStay DEF PipeInv
<1>5. Barrier'
  BY <1>1, <1>3 DEF Barrier, PipeInv
<1>6. Report'
  BY <1>1, <1>3 DEF Report, PipeInv
<1> QED BY <1>3, <1>4, <1>5, <1>6 DEF PipeInv

\* What the node reports: of the holes, and of the cells of the answers.
LEMMA ReadKeeps == ASSUME PipeInv, Pipeline!Read PROVE PipeInv'
<1> DEFINE p == [results |-> [i \in Item |-> IF i \in Pipeline!Settled THEN pipe.results[i] ELSE "null"],
                 holes |-> pipe.holes]
<1>1. /\ job[0].pc = "read" /\ Goto(0, "settle") /\ UNCHANGED <<budget, leaves, book>>
      /\ pipe' = [pipe EXCEPT !.published = <<p>>]
  BY DEF Pipeline!Read, Pipeline!At, Pipeline!bookVars
<1>2. /\ DOMAIN pipe' = PipeFields /\ pipe'.published = <<p>>
      /\ pipe'.expired = pipe.expired /\ pipe'.holes = pipe.holes /\ pipe'.sweep = pipe.sweep
      /\ pipe'.results = pipe.results /\ pipe'.cells = pipe.cells
      /\ pipe'.spawned = pipe.spawned
  <2>1. DOMAIN pipe = PipeFields
    BY DEF PipeInv, PipeShapes
  <2> HIDE DEF p
  <2> QED BY <1>1, <2>1 DEF PipeFields
<1>3. NodeKeeps /\ {"read", "settle"} \subseteq NodePC
  BY <1>1, <1>2 DEF NodeKeeps, PipeInv, PipeShapes, NodePC, AfterPC
<1>4. /\ PipeShapes' /\ Accounts' /\ Jobs' /\ job'[0].pc = "settle"
      /\ ~Dispatching' /\ Thread' = Thread /\ Leaves' = Leaves
      /\ \A k \in Leaves : Watched(k) => Watched(k)'
  BY <1>1, <1>3, NodeQuietly
<1>5. Holes'
  BY <1>2, HolesStay DEF PipeInv
<1>6. Barrier'
  <2>1. Pipeline!Settled' = Pipeline!Settled
    BY <1>2 DEF Pipeline!Settled
  <2> QED BY <1>1, <1>2, <1>4, <2>1 DEF Barrier, PipeInv, AfterPC
<1>7. p.holes = {i \in Item : p.results[i] = "null"}
      /\ \A i \in Item \ p.holes : {i} \X Stage \subseteq pipe.cells
  <2>1. pipe.results \in [Item -> {"pending", "null", "answer"}]
        /\ (pipe.expired \/ Pipeline!Settled = Item)
    BY <1>1 DEF PipeInv, PipeShapes, Barrier, AfterPC
  <2>2. /\ p.holes = pipe.holes
        /\ \A i \in Item : p.results[i] = IF pipe.results[i] # "pending" THEN pipe.results[i] ELSE "null"
    BY DEF Pipeline!Settled
  <2>3. \A i \in Item : pipe.results[i] = "pending" => pipe.expired
    BY <2>1 DEF Pipeline!Settled
  <2> HIDE DEF p
  <2>4. \A i \in Item : i \in pipe.holes <=> p.results[i] = "null"
    BY <2>1, <2>2, <2>3 DEF Holes, PipeInv
  <2>5. pipe.holes \subseteq Item
    BY DEF Holes, PipeInv
  <2>6. \A i \in Item \ pipe.holes : pipe.results[i] = "answer"
    BY <2>1, <2>2, <2>4
  <2> QED BY <2>2, <2>4, <2>5, <2>6 DEF Holes, PipeInv
<1> HIDE DEF p
<1>8. Report'
  <2>1. book'.sealed <=> job'[0].pc \in {"verdict", "end"}
    BY <1>1, <1>4 DEF Report, PipeInv
  <2>2. pipe'.published = <<p>> /\ pipe'.published # <<>> /\ DOMAIN pipe'.published = {1}
        /\ pipe'.published[1] = p
    BY <1>2
  <2> QED BY <1>2, <1>4, <1>7, <2>1, <2>2 DEF Report
<1> QED BY <1>4, <1>5, <1>6, <1>8 DEF PipeInv

LEMMA CatchUpKeeps == ASSUME PipeInv, Pipeline!CatchUp PROVE PipeInv'
<1>1. /\ job[0].pc = "settle" /\ Goto(0, "seal") /\ UNCHANGED <<budget, leaves>>
      /\ book' = Pipeline!CaughtUp(book) /\ pipe' = [pipe EXCEPT !.sweep = DOMAIN book'.pending]
  BY DEF Pipeline!CatchUp, Pipeline!At
<1>2. /\ DOMAIN pipe' = PipeFields /\ pipe'.published = pipe.published
      /\ pipe'.expired = pipe.expired /\ pipe'.holes = pipe.holes
      /\ pipe'.sweep = DOMAIN book'.pending
      /\ pipe'.results = pipe.results /\ pipe'.cells = pipe.cells
      /\ pipe'.spawned = pipe.spawned
  <2>1. DOMAIN pipe = PipeFields
    BY DEF PipeInv, PipeShapes
  <2> QED BY <1>1, <2>1 DEF PipeFields
<1>3. /\ DOMAIN book' = BookFields /\ DOMAIN book'.pending \subseteq Leaves
      /\ book'.accounted = book.accounted /\ book'.stragglers = book.stragglers
      /\ book'.tokens = book.tokens /\ book'.uncertain = book.uncertain
      /\ book'.sealed = book.sealed /\ book'.tracked = book.tracked
  <2>1. /\ DOMAIN book = BookFields /\ book.tracked \subseteq Leaves
        /\ DOMAIN book.pending \subseteq Leaves
    BY DEF PipeInv, PipeShapes
  <2> QED BY <1>1, <2>1 DEF BookFields, Pipeline!CaughtUp
<1>4. NodeKeeps /\ {"seal", "settle"} \subseteq NodePC
  BY <1>1, <1>2, <1>3 DEF NodeKeeps, PipeInv, PipeShapes, NodePC, AfterPC
<1>5. /\ PipeShapes' /\ Accounts' /\ Jobs' /\ job'[0].pc = "seal"
      /\ ~Dispatching' /\ Thread' = Thread /\ Leaves' = Leaves
      /\ \A k \in Leaves : Watched(k) => Watched(k)'
  BY <1>1, <1>4, NodeQuietly
<1>6. Holes'
  BY <1>2, HolesStay DEF PipeInv
<1>7. Barrier'
  <2>1. Pipeline!Settled' = Pipeline!Settled
    BY <1>2 DEF Pipeline!Settled
  <2> QED BY <1>1, <1>2, <1>5, <2>1 DEF Barrier, PipeInv, AfterPC
<1>8. Report'
  BY <1>1, <1>2, <1>3, <1>5 DEF Report, PipeInv
<1> QED BY <1>5, <1>6, <1>7, <1>8 DEF PipeInv

LEMMA VerdictKeeps == ASSUME PipeInv, Pipeline!Verdict PROVE PipeInv'
<1>1. /\ job[0].pc = "verdict" /\ Goto(0, "end") /\ UNCHANGED <<budget, leaves, book>>
      /\ \E x : pipe' = [pipe EXCEPT !.status = x]
  BY DEF Pipeline!Verdict, Pipeline!At, Pipeline!bookVars
<1>2. /\ DOMAIN pipe' = PipeFields /\ pipe'.published = pipe.published
      /\ pipe'.expired = pipe.expired /\ pipe'.holes = pipe.holes /\ pipe'.sweep = pipe.sweep
      /\ pipe'.results = pipe.results /\ pipe'.cells = pipe.cells
      /\ pipe'.spawned = pipe.spawned
  <2>1. DOMAIN pipe = PipeFields
    BY DEF PipeInv, PipeShapes
  <2> QED BY <1>1, <2>1 DEF PipeFields
<1>3. NodeKeeps /\ {"verdict", "end"} \subseteq NodePC
  BY <1>1, <1>2 DEF NodeKeeps, PipeInv, PipeShapes, NodePC, AfterPC
<1>4. /\ PipeShapes' /\ Accounts' /\ Jobs' /\ job'[0].pc = "end"
      /\ ~Dispatching' /\ Thread' = Thread /\ Leaves' = Leaves
      /\ \A k \in Leaves : Watched(k) => Watched(k)'
  BY <1>1, <1>3, NodeQuietly
<1>5. Holes'
  BY <1>2, HolesStay DEF PipeInv
<1>6. Barrier'
  <2>1. Pipeline!Settled' = Pipeline!Settled
    BY <1>2 DEF Pipeline!Settled
  <2> QED BY <1>1, <1>2, <1>4, <2>1 DEF Barrier, PipeInv, AfterPC
<1>7. Report'
  BY <1>1, <1>2, <1>4 DEF Report, PipeInv
<1> QED BY <1>4, <1>5, <1>6, <1>7 DEF PipeInv

\* No thread moves: what a step on the accounts asks of them.
LEMMA StandsStill ==
    ASSUME PipeShapes, Accounts, UNCHANGED job, NEW l PROVE Standing(l)
<1>1. \A u \in Thread : u = 0 \/ job[u].pc = "idle" \/ job[u].sub # u
  BY PipeBasics DEF Accounts, LeafRight
<1> QED BY <1>1 DEF Standing, Pipeline!Thread

\* The expired node cancels a leaf it spawned.
LEMMA SweepKeeps == ASSUME PipeInv, Pipeline!Sweep PROVE PipeInv'
<1>1. /\ job[0].pc = "sweep" /\ UNCHANGED job
      /\ \E l \in pipe.sweep : Pipeline!CancelAndAccount(l) /\ pipe' = [pipe EXCEPT !.sweep = @ \ {l}]
  BY DEF Pipeline!Sweep, Pipeline!At
<1>2. PICK l \in pipe.sweep : Pipeline!CancelAndAccount(l) /\ pipe' = [pipe EXCEPT !.sweep = @ \ {l}]
  BY <1>1
<1>3. PipeShapes /\ Accounts /\ Jobs /\ l \in Leaves /\ Thread = 0..Len(leaves)
  BY PipeBasics DEF PipeInv, PipeShapes
<1>4. /\ DOMAIN pipe' = PipeFields /\ pipe'.sweep = pipe.sweep \ {l}
      /\ pipe'.expired = pipe.expired /\ pipe'.holes = pipe.holes
      /\ pipe'.results = pipe.results /\ pipe'.cells = pipe.cells
      /\ pipe'.spawned = pipe.spawned /\ pipe'.published = pipe.published
  <2>1. DOMAIN pipe = PipeFields
    BY <1>3 DEF PipeShapes
  <2> QED BY <1>2, <2>1 DEF PipeFields
<1>5. Standing(l) /\ job'[l] = job[l]
  BY <1>1, <1>3, StandsStill
<1>6. Accounts' /\ Booked /\ (~Live(l)' \/ leaves'[l].asked)
  BY <1>2, <1>3, <1>5, CancelsAndAccounts
<1>7. Jobs' /\ Thread' = Thread /\ (Dispatching' <=> Dispatching)
  BY <1>1, <1>3, <1>4, <1>6, JobsStay DEF Booked
<1>8. PipeShapes'
  BY <1>1, <1>3, <1>4, <1>6 DEF PipeShapes, Booked
<1>9. Holes'
  BY <1>4, HolesStay DEF PipeInv
<1>10. Barrier'
  <2>1. ASSUME NEW k \in Leaves
        PROVE  Watched(k)' \/ (k \in pipe.spawned /\ ~pipe.expired) \/ k \in pipe'.sweep
    <3>1. CASE k = l
      BY <1>6, <3>1 DEF Watched
    <3>2. CASE k # l
      <4>1. Watched(k) \/ (k \in pipe.spawned /\ ~pipe.expired) \/ k \in pipe.sweep
        BY DEF PipeInv, Barrier
      <4>2. Watched(k) => Watched(k)'
        BY <1>1, <1>6, <1>7, StillWatched DEF Booked
      <4> QED BY <1>4, <3>2, <4>1, <4>2
    <3> QED BY <3>1, <3>2
  <2>2. pipe.expired
    BY <1>1 DEF PipeInv, Barrier
  <2> QED BY <1>1, <1>4, <1>6, <1>7, <2>1, <2>2 DEF Barrier, Booked, Dispatching, WalkPC, HandPC
<1>11. Report'
  BY <1>1, <1>4, <1>6 DEF Report, PipeInv, Booked
<1> QED BY <1>6, <1>7, <1>8, <1>9, <1>10, <1>11 DEF PipeInv

\* A pending leaf's second chance to be accounted for, before the seal.
LEMMA SecondChanceKeeps == ASSUME PipeInv, Pipeline!SecondChance PROVE PipeInv'
<1>1. /\ job[0].pc = "seal" /\ UNCHANGED <<leaves, job>>
      /\ \E l \in pipe.sweep :
           /\ book' = Pipeline!Accounted(book, l, FALSE)
           /\ budget' = IF Pipeline!Bills(book, l) THEN Pipeline!ChargedFor(budget, l) ELSE budget
           /\ pipe' = [pipe EXCEPT !.sweep = @ \ {l}]
  BY DEF Pipeline!SecondChance, Pipeline!At
<1>2. PICK l \in pipe.sweep :
           /\ book' = Pipeline!Accounted(book, l, FALSE)
           /\ budget' = IF Pipeline!Bills(book, l) THEN Pipeline!ChargedFor(budget, l) ELSE budget
           /\ pipe' = [pipe EXCEPT !.sweep = @ \ {l}]
  BY <1>1
<1>3. PipeShapes /\ Accounts /\ Jobs /\ l \in Leaves /\ Thread = 0..Len(leaves) /\ LeafRight(l)
  BY PipeBasics DEF PipeInv, PipeShapes, Accounts
<1>4. /\ DOMAIN pipe' = PipeFields /\ pipe'.sweep = pipe.sweep \ {l}
      /\ pipe'.expired = pipe.expired /\ pipe'.holes = pipe.holes
      /\ pipe'.results = pipe.results /\ pipe'.cells = pipe.cells
      /\ pipe'.spawned = pipe.spawned /\ pipe'.published = pipe.published
  <2>1. DOMAIN pipe = PipeFields
    BY <1>3 DEF PipeShapes
  <2> QED BY <1>2, <2>1 DEF PipeFields
<1>5. Standing(l) /\ job'[l] = job[l]
  BY <1>1, <1>3, StandsStill
<1>6. /\ DOMAIN book' = BookFields
      /\ book'.accounted = IF Pipeline!Bills(book, l) THEN book.accounted \cup {l}
                           ELSE book.accounted
      /\ book'.stragglers = book.stragglers /\ book'.sealed = book.sealed
      /\ DOMAIN book'.pending \subseteq Leaves /\ book'.tracked = book.tracked
      /\ book'.tokens = IF Pipeline!Bills(book, l) THEN book.tokens + leaves[l].turns ELSE book.tokens
      /\ ~Pipeline!Bills(book, l) => book'.uncertain = book.uncertain
      /\ book'.uncertain \in Nat /\ book.uncertain <= book'.uncertain
      /\ book'.tokens \in Nat
  BY <1>2, <1>3, AccountedBooks
<1>7. Leaves' = Leaves /\ Len(leaves') = Len(leaves)
  BY <1>1 DEF Pipeline!Leaves
<1>8. Accounts' /\ Booked
  <2>1. book'.accounted \subseteq Leaves
    BY <1>3, <1>6 DEF PipeShapes
  <2>2. CASE Pipeline!Bills(book, l)
    <3>1. ~Pipeline!Closed(book, l) /\ ~Live(l) /\ job'[l].pc # "charge"
      BY <1>1, <1>3, <2>2 DEF Pipeline!Bills, Pipeline!Closed, LeafRight
    <3>2. /\ budget' \in [spawned : Nat, tokens : Nat, charges : Nat]
          /\ budget'.spawned = IF leaves[l].status = "cancelled"
                               THEN Pipeline!NonNegative(budget.spawned - 1) ELSE budget.spawned
      BY <1>2, <1>3, <2>2, ChargedBudget
    <3>3. Closes(l)
      BY <1>1, <1>6, <2>2, <3>1, <3>2 DEF Closes, Pipeline!Closed, Pipeline!Live
    <3>4. Booked
      BY <1>1, <1>3, <1>6, <1>7, <2>1, <3>2 DEF Booked, PipeShapes, Pipeline!Live
    <3> QED BY <1>3, <1>5, <3>3, <3>4, ClosesAccount
  <2>3. CASE ~Pipeline!Bills(book, l)
    <3>1. \A k \in Leaves : leaves[k].turns \in {0, 1}
      BY <1>3 DEF Accounts, LeafRight
    <3>2. budget' = budget
      BY <1>2, <2>3
    <3>3. Booked
      BY <1>1, <1>3, <1>6, <1>7, <2>1, <3>2 DEF Booked, PipeShapes, Pipeline!Live
    <3>4. \A k \in Leaves : /\ leaves'[k].turns \in {0, 1}
                            /\ Live(k)' => Live(k) /\ leaves'[k].turns = leaves[k].turns
                            /\ k \in book.accounted => leaves'[k] = leaves[k]
      BY <1>1, <3>1 DEF Pipeline!Live
    <3> QED BY <1>1, <1>3, <1>5, <1>6, <1>7, <2>3, <3>2, <3>3, <3>4, LeavesOpen
  <2> QED BY <2>2, <2>3
<1>9. Jobs' /\ Thread' = Thread /\ (Dispatching' <=> Dispatching)
  BY <1>1, <1>3, <1>4, <1>7, JobsStay
<1>10. PipeShapes'
  BY <1>1, <1>3, <1>4, <1>8 DEF PipeShapes, Booked
<1>11. Holes'
  BY <1>4, HolesStay DEF PipeInv
<1>12. Barrier'
  <2>1. \A k \in Leaves : Watched(k) => Watched(k)'
    BY <1>1, <1>9, StillWatched DEF Pipeline!Live
  <2>2. Pipeline!Settled' = Pipeline!Settled
    BY <1>4 DEF Pipeline!Settled
  <2> QED BY <1>1, <1>4, <1>7, <1>9, <2>1, <2>2 DEF Barrier, PipeInv
<1>13. Report'
  <2>1. book'.sealed = book.sealed /\ job' = job /\ pipe'.published = pipe.published
        /\ pipe'.cells = pipe.cells
    BY <1>1, <1>4, <1>6
  <2>2. Report
    BY DEF PipeInv
  <2> QED BY <2>1, <2>2 DEF Report
<1> QED BY <1>8, <1>9, <1>10, <1>11, <1>12, <1>13 DEF PipeInv

\* The seal: what is pending still is uncertain, and nothing is written any more.
LEMMA SealKeeps == ASSUME PipeInv, Pipeline!Seal PROVE PipeInv'
<1> DEFINE left == DOMAIN book.pending \ book.accounted
<1>1. /\ job[0].pc = "seal" /\ Goto(0, "verdict") /\ UNCHANGED <<budget, leaves, pipe>>
      /\ book' = [book EXCEPT !.sealed = TRUE, !.stragglers = left,
                              !.uncertain = @ + Count(left)]
  BY DEF Pipeline!Seal, Pipeline!At, Pipeline!Sealed
<1>2. /\ PipeShapes /\ Accounts /\ Jobs /\ DOMAIN book = BookFields /\ book.uncertain \in Nat
      /\ left \subseteq Leaves /\ IsFiniteSet(Leaves) /\ Thread = 0..Len(leaves)
      /\ Leaves \subseteq Thread \ {0}
  BY PipeBasics DEF PipeInv, PipeShapes
<1>3. Count(left) \in Nat
  BY <1>2, CountSubset, CountType
<1>4. /\ DOMAIN book' = BookFields /\ book'.sealed = TRUE /\ book'.stragglers = left
      /\ book'.uncertain = book.uncertain + Count(left) /\ book'.tokens = book.tokens
      /\ book'.accounted = book.accounted /\ book'.pending = book.pending
      /\ book'.tracked = book.tracked
  <2> HIDE DEF left
  <2> QED BY <1>1, <1>2 DEF BookFields
<1>5. ~Dispatching /\ Leaves' = Leaves /\ "verdict" \in NodePC
  BY <1>1 DEF Dispatching, WalkPC, HandPC, Pipeline!Leaves, NodePC, AfterPC
<1>6. /\ Jobs' /\ Thread' = Thread /\ 0 \in Thread /\ job' \in [Thread -> Job]
      /\ job'[0].pc = "verdict" /\ ~Dispatching' /\ \A u \in Thread \ {0} : job'[u] = job[u]
      /\ \A u \in Thread : job[u].pc \in HandPC => job'[u] = job[u]
      /\ \E row : Moves(0, row) /\ row.pc = "verdict"
  BY <1>1, <1>5, NodeGoes
<1>7. PipeShapes'
  BY <1>1, <1>2, <1>3, <1>4, <1>5, <1>6 DEF PipeShapes
<1>8. Accounts'
  <2>1. ASSUME NEW k \in Leaves PROVE LeafRight(k)'
    <3>1. LeafRight(k) /\ job'[k] = job[k]
      BY <1>2, <1>6 DEF Accounts
    <3> QED BY <1>1, <1>4, <3>1 DEF LeafRight, Pipeline!Live
  <2>2. Spawning' = Spawning
    BY <1>1, <1>6 DEF Spawning
  <2>3. GivenBack' = GivenBack
    <3>1. \A k \in book.accounted : job'[k] = job[k]
      BY <1>2, <1>6 DEF PipeShapes
    <3> QED BY <1>1, <1>4, <3>1 DEF GivenBack
  <2>4. Billed' = Billed
    BY <1>1, <1>4 DEF Billed
  <2>5. Balance'
    <3>1. Count(book'.stragglers) <= book'.uncertain
      <4> HIDE DEF left
      <4> QED BY <1>2, <1>3, <1>4
    <3> QED BY <1>2, <1>4, <2>4, <3>1 DEF Accounts, Balance
  <2> QED BY <1>1, <1>2, <1>5, <2>1, <2>2, <2>3, <2>5 DEF Accounts, Slots
<1>9. Holes'
  BY <1>1, HolesStay DEF PipeInv
<1>10. Barrier'
  <2>1. \A k \in Leaves : Watched(k) => Watched(k)'
    BY <1>1, <1>6, StillWatched DEF Pipeline!Live
  <2>2. Pipeline!Settled' = Pipeline!Settled
    BY <1>1 DEF Pipeline!Settled
  <2> QED BY <1>1, <1>5, <1>6, <2>1, <2>2 DEF Barrier, PipeInv, AfterPC
<1>11. Report'
  <2>1. pipe' = pipe /\ book'.sealed = TRUE /\ job'[0].pc = "verdict"
    BY <1>1, <1>4, <1>6
  <2>2. /\ pipe.published # <<>>
        /\ \A n \in DOMAIN pipe.published :
             LET p == pipe.published[n] IN
             /\ p.holes = {i \in Item : p.results[i] = "null"}
             /\ \A i \in Item \ p.holes : {i} \X Stage \subseteq pipe.cells
    BY <1>1 DEF Report, PipeInv
  <2> QED BY <2>1, <2>2 DEF Report
<1> QED BY <1>6, <1>7, <1>8, <1>9, <1>10, <1>11 DEF PipeInv

(* The environment: the pools, the providers and the operator. *)

\* A leaf starts or ends; its row is still what the books say.
LEMMA LeafMovesOn ==
    ASSUME PipeInv, NEW l \in Leaves, Pipeline!LeafStarts(l) \/ Pipeline!LeafEnds(l),
           UNCHANGED <<job, pipe>>
    PROVE  PipeInv'
<1>1. /\ PipeShapes /\ Accounts /\ Jobs /\ Thread = 0..Len(leaves) /\ Len(leaves) \in Nat
      /\ Leaves = 1..Len(leaves) /\ leaves \in [Leaves -> PipeLeaf] /\ leaves[l] \in PipeLeaf
  BY PipeBasics DEF PipeInv
<1>2. UNCHANGED <<budget, book>> /\ Live(l) /\ leaves[l].turns = 0 /\ leaves[l].turns + 1 = 1
  <2>1. UNCHANGED <<budget, book>> /\ leaves[l].status \in {"queued", "running"}
    BY DEF Pipeline!LeafStarts, Pipeline!LeafEnds
  <2>2. Live(l) /\ LeafRight(l)
    BY <1>1, <2>1 DEF Pipeline!Live, Pipeline!Terminal, Accounts
  <2>3. leaves[l].turns = 0
    BY <2>2 DEF LeafRight
  <2> QED BY <2>1, <2>2, <2>3
<1>3. PICK row \in PipeLeaf :
        /\ leaves' = [leaves EXCEPT ![l] = row] /\ row.asked = leaves[l].asked
        /\ row.turns \in {0, 1} /\ (row.status \notin Pipeline!Terminal => row.turns = 0)
  <2>1. CASE Pipeline!LeafStarts(l)
    <3> DEFINE row == [leaves[l] EXCEPT !.status = "running"]
    <3>1. row \in PipeLeaf /\ row.asked = leaves[l].asked /\ row.turns = 0
      BY <1>1, <1>2 DEF PipeLeaf
    <3>2. leaves' = [leaves EXCEPT ![l] = row]
      BY <1>1, <2>1 DEF Pipeline!LeafStarts
    <3> HIDE DEF row
    <3> QED BY <3>1, <3>2
  <2>2. CASE /\ \E a \in Pipeline!Answer \cap PipeEnds :
                  leaves' = [leaves EXCEPT ![l].status = "complete", ![l].says = a, ![l].turns = @ + 1]
    <3>1. PICK a \in Pipeline!Answer :
             leaves' = [leaves EXCEPT ![l].status = "complete", ![l].says = a, ![l].turns = @ + 1]
      BY <2>2
    <3> DEFINE row == [leaves[l] EXCEPT !.status = "complete", !.says = a, !.turns = 1]
    <3>2. /\ row \in PipeLeaf /\ row.asked = leaves[l].asked
          /\ row.turns = 1 /\ row.status \in Pipeline!Terminal
      BY <1>1 DEF PipeLeaf, Pipeline!Terminal
    <3>3. leaves' = [leaves EXCEPT ![l] = row]
      <4>1. leaves' = [leaves EXCEPT ![l] = [leaves[l] EXCEPT !.status = "complete", !.says = a,
                                                       !.turns = leaves[l].turns + 1]]
        BY <1>1, <3>1 DEF PipeLeaf
      <4> QED BY <1>2, <4>1
    <3> HIDE DEF row
    <3> QED BY <3>2, <3>3
  <2>3. CASE \E d \in Pipeline!Death \cap PipeEnds :
               leaves' = [leaves EXCEPT ![l].status = "error", ![l].says = d]
    <3>1. PICK d \in Pipeline!Death : leaves' = [leaves EXCEPT ![l].status = "error", ![l].says = d]
      BY <2>3
    <3> DEFINE row == [leaves[l] EXCEPT !.status = "error", !.says = d]
    <3>2. /\ row \in PipeLeaf /\ row.asked = leaves[l].asked
          /\ row.turns = 0 /\ row.status \in Pipeline!Terminal
      BY <1>1, <1>2 DEF PipeLeaf, Pipeline!Terminal
    <3>3. leaves' = [leaves EXCEPT ![l] = row]
      BY <1>1, <3>1
    <3> HIDE DEF row
    <3> QED BY <3>2, <3>3
  <2>4. CASE leaves' = [leaves EXCEPT ![l].status = "interrupted"]
    <3> DEFINE row == [leaves[l] EXCEPT !.status = "interrupted"]
    <3>1. /\ row \in PipeLeaf /\ row.asked = leaves[l].asked
          /\ row.turns = 0 /\ row.status \in Pipeline!Terminal
      BY <1>1, <1>2 DEF PipeLeaf, Pipeline!Terminal
    <3>2. leaves' = [leaves EXCEPT ![l] = row]
      BY <1>1, <2>4
    <3> HIDE DEF row
    <3> QED BY <3>1, <3>2
  <2> QED BY <2>1, <2>2, <2>3, <2>4 DEF Pipeline!LeafEnds
<1>4. /\ leaves' \in Seq(PipeLeaf) /\ Len(leaves') = Len(leaves)
      /\ leaves'[l] = row /\ \A k \in Leaves \ {l} : leaves'[k] = leaves[k]
  BY <1>1, <1>3 DEF PipeShapes
<1>5. Leaves' = Leaves
  BY <1>4 DEF Pipeline!Leaves
<1>6. \A k \in Leaves : (Live(k)' => Live(k)) /\ (leaves[k].asked => leaves'[k].asked)
  BY <1>2, <1>3, <1>4 DEF Pipeline!Live
<1>7. Accounts'
  <2>1. \A k \in Leaves : /\ leaves[k].turns \in {0, 1} /\ (k \in book.accounted => ~Live(k))
                          /\ Live(k) => leaves[k].turns = 0
    BY <1>1 DEF Accounts, LeafRight
  <2>2. \A k \in Leaves : /\ leaves'[k].turns \in {0, 1}
                          /\ Live(k)' => Live(k) /\ leaves'[k].turns = leaves[k].turns
                          /\ k \in book.accounted => leaves'[k] = leaves[k]
    BY <1>2, <1>3, <1>4, <1>6, <2>1 DEF Pipeline!Live
  <2>3. Standing(l) /\ job'[l] = job[l] /\ Leaves' = Leaves
    BY <1>1, <1>5, StandsStill
  <2>4. /\ job'[l].pc = "charge" <=> job[l].pc = "charge"
        /\ Unfired(l, job[l]) => Unfired(l, job'[l])
    BY <2>3
  <2> QED BY <1>1, <1>2, <1>4, <2>2, <2>3, <2>4, LeavesOpen
<1>8. Jobs' /\ Thread' = Thread /\ (Dispatching' <=> Dispatching)
  BY <1>1, <1>5, JobsStay
<1>9. PipeShapes'
  BY <1>1, <1>2, <1>4, <1>5 DEF PipeShapes
<1>10. Holes'
  BY HolesStay DEF PipeInv
<1>11. Barrier'
  <2>1. \A k \in Leaves : Watched(k) => Watched(k)'
    BY <1>6, <1>8, StillWatched
  <2>2. Pipeline!Settled' = Pipeline!Settled
    BY DEF Pipeline!Settled
  <2> QED BY <1>5, <1>8, <2>1, <2>2 DEF Barrier, PipeInv
<1>12. Report'
  BY <1>2 DEF Report, PipeInv
<1> QED BY <1>7, <1>8, <1>9, <1>10, <1>11, <1>12 DEF PipeInv

\* Nothing changes but the operator's requests.
LEMMA PipeStutters ==
    ASSUME PipeInv, UNCHANGED <<budget, leaves, book, job, pipe>> PROVE PipeInv'
<1>1. Leaves' = Leaves /\ Thread' = Thread /\ Pipeline!Settled' = Pipeline!Settled
      /\ (Dispatching' <=> Dispatching)
  BY DEF Pipeline!Leaves, Pipeline!Thread, Pipeline!Settled, Dispatching
<1>2. PipeShapes' /\ Jobs' /\ Holes'
  BY <1>1, JobsStay, HolesStay DEF PipeInv, PipeShapes
<1>3. Accounts'
  <2>1. \A l \in Leaves : LeafRight(l)'
    BY DEF PipeInv, Accounts, LeafRight, Pipeline!Live
  <2>2. Slots' /\ Balance'
    BY <1>1 DEF PipeInv, Accounts, Slots, Balance, Spawning, GivenBack, Billed
  <2> QED BY <1>1, <2>1, <2>2 DEF Accounts
<1>4. Barrier' /\ Report'
  BY <1>1 DEF PipeInv, Barrier, Watched, Pipeline!Live, Report
<1> QED BY <1>2, <1>3, <1>4 DEF PipeInv

\* Every step of a pipeline node keeps the invariant.
LEMMA PipeStep == PipeInv /\ [Pipeline!Next]_(Pipeline!vars) => PipeInv'
<1> SUFFICES ASSUME PipeInv, [Pipeline!Next]_(Pipeline!vars) PROVE PipeInv'
  OBVIOUS
<1>1. ASSUME NEW t \in Thread, Pipeline!ThreadStep(t) PROVE PipeInv'
  BY <1>1, AdvanceKeeps, ClaimKeeps, SpawnsKeep, SpawnRaisesKeeps, TrackKeeps,
     AppendSpawnedKeeps, StrandKeeps, SettleKeeps DEF Pipeline!ThreadStep
<1>2. ASSUME NEW l \in Thread, Pipeline!HookStep(l) PROVE PipeInv'
  <2>1. CASE l # 0
    BY <1>2, <2>1, HookFiresKeeps, ChargeKeeps, AcceptKeeps, StageDoneKeeps, StopAllKeeps
       DEF Pipeline!HookStep
  <2>2. CASE l = 0
    <3>1. job[0].pc \notin {"charge", "accept", "stage", "stopall"}
      BY DEF PipeInv, Jobs, Roles, WalkPC, HandPC, NodePC, AfterPC
    <3> QED BY <1>2, <2>2, <3>1
       DEF Pipeline!HookStep, Pipeline!HookFires, Pipeline!Charge, Pipeline!Accept,
           Pipeline!StageDone, Pipeline!StopAll, Pipeline!At
  <2> QED BY <2>1, <2>2
<1>3. ASSUME Pipeline!NodeStep \/ Pipeline!Expire PROVE PipeInv'
  BY <1>3, BarrierOpensKeeps, ExpireKeeps, NoteExpiredKeeps, SweepKeeps, ExpiryFaultKeeps,
     ReadKeeps, CatchUpKeeps, SecondChanceKeeps, SealKeeps, VerdictKeeps DEF Pipeline!NodeStep
<1>4. ASSUME Pipeline!Environment PROVE PipeInv'
  <2>1. CASE \E l \in Leaves : Pipeline!LeafStarts(l) \/ Pipeline!LeafEnds(l)
    BY <1>4, <2>1, LeafMovesOn DEF Pipeline!Environment
  <2>2. CASE Pipeline!RequestCancel \/ Pipeline!RequestPause
    BY <1>4, <2>2, PipeStutters
       DEF Pipeline!Environment, Pipeline!RequestCancel, Pipeline!RequestPause
  <2> QED BY <1>4, <2>1, <2>2 DEF Pipeline!Environment
<1>5. ASSUME UNCHANGED Pipeline!vars PROVE PipeInv'
  BY <1>5, PipeStutters DEF Pipeline!vars, Pipeline!bookVars
<1>6. ASSUME Pipeline!Next PROVE PipeInv'
  BY <1>1, <1>2, <1>3, <1>4, <1>6 DEF Pipeline!Next
<1> QED BY <1>5, <1>6

PipelinePart == part = "pipeline" => PipeInv

\* The pipeline's part never leaves the invariant.
LEMMA PipelineHolds == Spec => []PipelinePart
<1>1. Init => PipelinePart
  BY PipeInitially DEF Init, PipelinePart
<1>2. PipelinePart /\ [Next]_vars => PipelinePart'
  <2> SUFFICES ASSUME PipelinePart, [Next]_vars, part' = "pipeline" PROVE PipeInv'
    BY DEF PipelinePart
  <2>1. part = "pipeline" /\ [Pipeline!Next]_(Pipeline!vars)
    <3>1. CASE Next
      BY <3>1 DEF Next
    <3>2. CASE UNCHANGED vars
      BY <3>2 DEF vars, after4, after7, Pipeline!vars, Pipeline!bookVars
    <3> QED BY <3>1, <3>2
  <2> QED BY <2>1, PipeStep DEF PipelinePart
<1> QED BY <1>1, <1>2, PTL DEF Spec

\* A pipeline's books are its leaves', and what its node reported is final, for
\* any number of items, stages and retries and any budget, whatever hooks, spawns
\* that fail, stops and the timeout do in between.
THEOREM RecordsCloseBooks == Spec => []BooksCloseOnLeaves
<1>1. PipelinePart => BooksCloseOnLeaves
  BY PipeSays DEF PipelinePart, BooksCloseOnLeaves
<1> QED BY <1>1, PipelineHolds, PTL-----------------------------------------------------------------------------
(* Who may open a gate and who may move a node, in the names of PausedRun. *)

plan == v1
fate == v2
line == v3
rows == v4
brake == v5
run == v6
ghost == v7

USE DEF plan, fate, line, rows, brake, run, ghost

PausedNode == Paused!Node
Gates == Paused!Gates
Address(i) == Paused!Address(i)
Effective(r) == Paused!Effective(r)

USE DEF PausedNode, Gates, Address, Effective

\* A route, or none named.
RouteOrNone == Routes \cup {Nil}

LineFields == {"status", "pending", "routes", "stretch"}
RunFields == {"on", "at", "phase", "out", "answers", "route", "tried", "died", "sought",
              "swapped", "pause", "moves"}

\* The shapes of the line, of the stretch and of what is remembered of both.
PausedShapes ==
    /\ plan \in AskingPlans
    /\ DOMAIN line = LineFields /\ line.routes \in [PausedNode -> RouteOrNone]
    /\ DOMAIN run = RunFields /\ run.at \in Nat /\ run.on \in BOOLEAN
    /\ run.phase \in {"next", "leaf", "moved"}
    /\ run.phase # "next" => run.on /\ run.at \in PausedNode
    /\ run.on => run.moves \in [PausedNode -> RouteOrNone]
    /\ ~run.on => run.answers = {} /\ run.pause = Paused!NoPause
    /\ DOMAIN ghost = {"said", "moves"} /\ ghost.moves \in Seq(Routes \X Routes)

\* The answers of those gates that nobody guards.
Defaults ==
    {<<Address(i), plan[i].default>> : i \in {g \in Gates : plan[g].accept = {}}}

\* A pending question is one that its gate asked, as some release wrote it.
Question(p) ==
    /\ p.asker \in Gates
    /\ \/ p.form = "structured"
       \/ p.form = "bare" /\ p.node = plan[p.asker].id
       \/ /\ p.form = "namespaced" /\ plan[p.asker].call # Root
          /\ p.node = <<plan[p.asker].call>> \o plan[p.asker].id

(* What a stretch is told comes from a human or from an unguarded gate, and *)
(* goes to the gate whose address it bears.                                *)
Words ==
    /\ run.answers \subseteq ghost.said \cup Defaults
    /\ \A p \in {run.pause, line.pending} : p.reason # "checkpoint" \/ Question(p)
    /\ Paused!GatesOpenOnHumanWord

(* The envelope's durable brake has a mark for each move, and the stretch   *)
(* a trail of the routes that its node was on.                             *)
Envelope ==
    /\ IsFiniteSet(brake) /\ Len(ghost.moves) = Cardinality(brake) /\ Len(ghost.moves) <= MaxMoves
    /\ \A i \in DOMAIN ghost.moves : ghost.moves[i][1] \in brake
    /\ \A i, j \in DOMAIN ghost.moves : ghost.moves[i][1] = ghost.moves[j][1] => i = j

Trail ==
    /\ run.tried \in Seq(Routes)
    /\ run.phase = "next" => run.tried = <<>> /\ run.died = {} /\ ~run.swapped
    /\ run.phase # "next" => run.route \in Routes
    /\ run.phase # "next" /\ ~run.swapped =>
         /\ run.route \notin run.died /\ run.died \subseteq Paused!ToSet(run.tried)
         /\ run.tried = <<>> \/ run.route \in Paused!ToSet(run.tried)

\* Where node i would run again: its last move, or the spec on file.
Headed(i) == IF run.moves[i] = Nil THEN line.routes[i] ELSE run.moves[i]

(* A node at work is on the route it is headed for; the nodes after it have *)
(* not moved; and a dead route is that of its node.                        *)
Moving ==
    /\ run.on /\ run.phase # "next" => run.route = Effective(Headed(run.at))
    /\ run.on => \A j \in PausedNode :
                    run.moves[j] = Nil \/ j < run.at \/ (j = run.at /\ run.phase # "next")
    /\ run.pause.reason = "route_fault" =>
         /\ run.phase = "next" /\ run.pause.asker \in PausedNode
         /\ run.pause.route = Effective(Headed(run.pause.asker))
    /\ line.pending.reason = "route_fault" =>
         /\ line.pending.asker \in PausedNode
         /\ line.pending.route = Effective(line.routes[line.pending.asker])

PausedInv == PausedShapes /\ Words /\ Envelope /\ Trail /\ Moving

\* What is known of the routes and of the envelope.
LEMMA PausedConstants ==
    /\ MaxMoves \in Nat /\ Default \in Routes /\ Catalog \subseteq Routes
    /\ Fallbacks \in [Routes -> Seq(Routes)]
    /\ Nil \notin Routes \cup {"checkpoint", "route_fault", "user"}
  BY RecordsAssumption DEF Paused!PausedAssumption

\* PausedRun counts as the library does.
LEMMA MarksAreCounted == \A S : Paused!Cardinality(S) = Cardinality(S)
  BY DEF Paused!Cardinality, Cardinality

\* What the validator makes sure of.
LEMMA PlanNodes ==
    ASSUME plan \in AskingPlans
    PROVE  /\ Len(plan) \in Nat /\ PausedNode = 1..Len(plan)
           /\ \A i \in PausedNode : plan[i].route \in RouteOrNone
           /\ \A i \in PausedNode :
                 plan[i].id \in Seq(Paused!ToSet(plan[i].id)) /\ plan[i].id # <<>>
           /\ \A i, j \in PausedNode :
                 plan[i].call = plan[j].call /\ plan[i].id = plan[j].id => i = j
<1>1. /\ plan \in Seq(Paused!ToSet(plan))
      /\ \A i \in DOMAIN plan :
           /\ plan[i].id \in Seq(Paused!ToSet(plan[i].id)) \ {<<>>}
           /\ plan[i].route \in RouteOrNone
           /\ \A j \in DOMAIN plan :
                plan[i].call = plan[j].call /\ plan[i].id = plan[j].id => i = j
  BY RecordsAssumption DEF Paused!PausedAssumption, Paused!PlansAreSpecs, RouteOrNone
<1>2. Len(plan) \in Nat /\ DOMAIN plan = 1..Len(plan)
  BY <1>1
<1> QED BY <1>1, <1>2 DEF Paused!Node

\* No two nodes have one address.
LEMMA OneAddress ==
    ASSUME plan \in AskingPlans, NEW i \in PausedNode, NEW j \in PausedNode,
           Address(i) = Address(j)
    PROVE  i = j
<1>1. plan[i].call = plan[j].call /\ plan[i].id = plan[j].id
  <2>1. CASE plan[i].call = Root /\ plan[j].call = Root
    BY <2>1 DEF Paused!Address
  <2>2. CASE plan[i].call # Root /\ plan[j].call # Root
    BY <2>2 DEF Paused!Address
  <2>3. ASSUME NEW a, NEW b, NEW c, <<a>> = <<b, c>> PROVE FALSE
    BY <2>3
  <2>4. CASE plan[i].call = Root /\ plan[j].call # Root
    BY <2>3, <2>4 DEF Paused!Address
  <2>5. CASE plan[i].call # Root /\ plan[j].call = Root
    BY <2>3, <2>5 DEF Paused!Address
  <2> QED BY <2>1, <2>2, <2>4, <2>5
<1> QED BY <1>1, PlanNodes

\* The label of a call's node, read back.
LEMMA ReadBack ==
    ASSUME plan \in AskingPlans, NEW i \in PausedNode, NEW c
    PROVE  LET key == <<c>> \o plan[i].id
           IN  Len(key) > 1 /\ Head(key) = c /\ Tail(key) = plan[i].id
<1> DEFINE S == Paused!ToSet(plan[i].id) \cup {c}
<1>1. plan[i].id \in Seq(S) /\ plan[i].id # <<>> /\ <<c>> \in Seq(S)
  <2>1. plan[i].id \in Seq(Paused!ToSet(plan[i].id)) /\ plan[i].id # <<>>
    BY PlanNodes
  <2> QED BY <2>1
<1>2. Len(<<c>>) = 1 /\ Len(plan[i].id) \in Nat /\ Len(plan[i].id) > 0
  <2> HIDE DEF S
  <2> QED BY <1>1
<1> DEFINE key == <<c>> \o plan[i].id
<1>3. key \in Seq(S) /\ Len(key) = 1 + Len(plan[i].id) /\ key[1] = c
  <2> HIDE DEF S
  <2> QED BY <1>1, <1>2
<1>4. Len(key) > 1 /\ Head(key) = c
  <2> HIDE DEF S, key
  <2> QED BY <1>2, <1>3
<1>5. Tail(key) = plan[i].id
  <2>1. \A n \in 1..Len(plan[i].id) : key[n + 1] = plan[i].id[n]
    <3> HIDE DEF S
    <3> QED BY <1>1, <1>2
  <2>2. /\ Tail(key) \in Seq(S) /\ Len(Tail(key)) = Len(plan[i].id)
        /\ \A n \in 1..Len(plan[i].id) : Tail(key)[n] = key[n + 1]
    <3> HIDE DEF S, key
    <3>1. key # <<>>
      BY <1>3, <1>2
    <3>2. Tail(key) \in Seq(S) /\ Len(Tail(key)) = Len(key) - 1
      BY <1>3, <3>1
    <3>3. Len(key) - 1 = Len(plan[i].id)
      BY <1>2, <1>3
    <3> QED BY <1>3, <3>1, <3>2, <3>3
  <2> HIDE DEF key
  <2>3. /\ DOMAIN Tail(key) = DOMAIN plan[i].id /\ DOMAIN plan[i].id = 1..Len(plan[i].id)
        /\ Tail(key) = [n \in DOMAIN Tail(key) |-> Tail(key)[n]]
        /\ plan[i].id = [n \in DOMAIN plan[i].id |-> plan[i].id[n]]
    <3> HIDE DEF S
    <3>1. ASSUME NEW s \in Seq(S) PROVE DOMAIN s = 1..Len(s) /\ s = [n \in DOMAIN s |-> s[n]]
      OBVIOUS
    <3> QED BY <1>1, <2>2, <3>1
  <2> QED BY <2>1, <2>2, <2>3
<1> QED BY <1>4, <1>5

\* A fresh line, or one an older release left at a question, has the invariant.
LEMMA PausedInitially == Paused!PausedInit => PausedInv
<1> SUFFICES ASSUME Paused!PausedInit PROVE PausedInv
  OBVIOUS
<1>1. /\ plan \in AskingPlans /\ line \in Paused!Lines(plan) /\ brake = {} /\ rows = {}
      /\ run = [on |-> FALSE, at |-> 0, phase |-> "next", out |-> <<>>, answers |-> {},
                route |-> Nil, tried |-> <<>>, died |-> {}, sought |-> FALSE, swapped |-> FALSE,
                pause |-> Paused!NoPause, moves |-> <<>>]
      /\ ghost = [said |-> {}, moves |-> <<>>]
  BY DEF Paused!PausedInit, Paused!Idle
<1>2. PICK status, pending :
        /\ line = [status |-> status, pending |-> pending,
                   routes |-> [i \in DOMAIN plan |-> plan[i].route], stretch |-> 0]
        /\ \/ pending = Paused!NoPause
           \/ \E i \in Gates :
                 \/ pending = Paused!Pending("checkpoint", plan[i].id, i, "bare", Nil)
                 \/ /\ plan[i].call # Root
                    /\ pending = Paused!Pending("checkpoint", <<plan[i].call>> \o plan[i].id, i,
                                                "namespaced", Nil)
  <2> DEFINE at(s, q) == [status |-> s, pending |-> q,
                          routes |-> [i \in DOMAIN plan |-> plan[i].route], stretch |-> 0]
             bare(i) == Paused!Pending("checkpoint", plan[i].id, i, "bare", Nil)
             called(i) == Paused!Pending("checkpoint", <<plan[i].call>> \o plan[i].id, i,
                                         "namespaced", Nil)
  <2>1. \/ line = at("new", Paused!NoPause)
        \/ \E i \in {j \in DOMAIN plan : plan[j].kind = "gate"} :
             \E q \in {bare(i)} \cup {called(i) : c \in {plan[i].call} \ {Root}} :
               line = at("paused", q)
    <3> HIDE DEF bare, called
    <3> QED BY <1>1 DEF Paused!Lines, bare, called
  <2>2. CASE line = at("new", Paused!NoPause)
    BY <2>2
  <2>3. CASE \E i \in {j \in DOMAIN plan : plan[j].kind = "gate"} :
             \E q \in {bare(i)} \cup {called(i) : c \in {plan[i].call} \ {Root}} :
               line = at("paused", q)
    <3>1. PICK i \in Gates :
            \E q \in {bare(i)} \cup {called(i) : c \in {plan[i].call} \ {Root}} :
               line = at("paused", q)
      BY <2>3 DEF Paused!Gates, Paused!Node
    <3>2. PICK q : /\ line = at("paused", q)
                   /\ q = bare(i) \/ (plan[i].call # Root /\ q = called(i))
      BY <3>1
    <3> QED BY <3>2
  <2> QED BY <2>1, <2>2, <2>3
<1>3. \/ pending.reason = Nil
      \/ pending.reason = "checkpoint" /\ Question(pending)
  <2>1. CASE pending = Paused!NoPause
    BY <2>1 DEF Paused!Pending, Paused!NoPause
  <2>2. ASSUME NEW i \in Gates,
               pending = Paused!Pending("checkpoint", plan[i].id, i, "bare", Nil)
        PROVE  pending.reason = "checkpoint" /\ Question(pending)
    <3>1. /\ pending.reason = "checkpoint" /\ pending.asker = i
          /\ pending.form = "bare" /\ pending.node = plan[i].id
      BY <2>2 DEF Paused!Pending
    <3> QED BY <3>1 DEF Question
  <2>3. ASSUME NEW i \in Gates, plan[i].call # Root,
               pending = Paused!Pending("checkpoint", <<plan[i].call>> \o plan[i].id, i,
                                        "namespaced", Nil)
        PROVE  pending.reason = "checkpoint" /\ Question(pending)
    <3>1. /\ pending.reason = "checkpoint" /\ pending.asker = i
          /\ pending.form = "namespaced" /\ pending.node = <<plan[i].call>> \o plan[i].id
      BY <2>3 DEF Paused!Pending
    <3> QED BY <2>3, <3>1 DEF Question
  <2> QED BY <1>2, <2>1, <2>2, <2>3
<1>4. PausedShapes
  <2>1. line.routes \in [PausedNode -> RouteOrNone]
    BY <1>1, <1>2, PlanNodes DEF Paused!Node
  <2> QED BY <1>1, <1>2, <2>1 DEF PausedShapes, LineFields, RunFields
<1>5. Words
  <2>1. /\ run.pause = Paused!NoPause /\ line.pending = pending /\ run.answers = {}
        /\ Paused!NoPause.reason = Nil
    BY <1>1, <1>2 DEF Paused!NoPause, Paused!Pending
  <2>2. pending.reason # "checkpoint" \/ Question(pending)
    BY <1>3, PausedConstants
  <2>3. Paused!GatesOpenOnHumanWord
    BY <1>1 DEF Paused!GatesOpenOnHumanWord
  <2> QED BY <2>1, <2>2, <2>3, PausedConstants DEF Words
<1>6. Envelope
  BY <1>1, FS_EmptySet, PausedConstants DEF Envelope
<1>7. Trail
  BY <1>1 DEF Trail
<1>8. Moving
  <2>1. /\ run.pause.reason = Nil /\ run.phase = "next" /\ ~run.on
        /\ line.pending.reason # "route_fault"
    BY <1>1, <1>2, <1>3, PausedConstants DEF Paused!NoPause, Paused!Pending
  <2> QED BY <2>1, PausedConstants DEF Moving
<1> QED BY <1>4, <1>5, <1>6, <1>7, <1>8 DEF PausedInv

\* What the invariant says of gates and moves.
LEMMA PausedSays == PausedInv => Paused!GatesOpenOnHumanWord /\ Paused!MovesAreAuthorised
<1> SUFFICES ASSUME PausedInv PROVE Paused!GatesOpenOnHumanWord /\ Paused!MovesAreAuthorised
  OBVIOUS
<1>1. Paused!GatesOpenOnHumanWord
  BY DEF PausedInv, Words
<1>2. Paused!EnvelopeIsBounded
  BY DEF PausedInv, Envelope, Paused!EnvelopeIsBounded
<1>3. Paused!NoWayBack
  BY DEF PausedInv, Trail, Paused!NoWayBack
<1>4. Paused!PauseNamesTheRoute
  BY DEF PausedInv, Moving, Paused!PauseNamesTheRoute, Paused!AtRoute, Paused!RouteOnFile
<1> QED BY <1>1, <1>2, <1>3, <1>4 DEF Paused!MovesAreAuthorised

(* The steps of a stretch. *)

\* The node at hand is finished, and the run may stop at p.
EndsNode(p) ==
    /\ DOMAIN run' = RunFields /\ run'.on = run.on /\ run'.at = run.at + 1
    /\ run'.phase = "next" /\ run'.tried = <<>> /\ run'.died = {} /\ run'.swapped = FALSE
    /\ run'.answers = run.answers /\ run'.moves = run.moves /\ run'.pause = p

\* The node is finished, and the run may be told to stop.
LEMMA Finishes ==
    ASSUME PausedShapes, NEW v, NEW p, run' = [Paused!Finished(run, v) EXCEPT !.pause = p]
    PROVE  EndsNode(p)
  BY DEF PausedShapes, RunFields, EndsNode, Paused!Finished

\* The node is finished, and the run goes on as it was going.
LEMMA FinishesOnly ==
    ASSUME PausedShapes, NEW v, run' = Paused!Finished(run, v)
    PROVE  EndsNode(run.pause)
  BY DEF PausedShapes, RunFields, EndsNode, Paused!Finished

\* What finishes a node keeps the invariant, if what it tells the run is true.
LEMMA FinishKeeps ==
    ASSUME PausedInv, run.on, run.at \in PausedNode, NEW p, EndsNode(p),
           UNCHANGED <<plan, line, brake, ghost>>, Paused!GatesOpenOnHumanWord',
           p.reason # "checkpoint" \/ Question(p),
           p.reason = "route_fault" =>
              p.asker \in PausedNode /\ p.route = Effective(Headed(p.asker))
    PROVE  PausedInv'
<1>1. PausedNode' = PausedNode /\ Gates' = Gates /\ Defaults' = Defaults /\ run.at \in Nat
      /\ run'.at \in Nat /\ run'.at = run.at + 1 /\ run'.on = TRUE
  BY DEF PausedInv, PausedShapes, EndsNode, Paused!Node, Paused!Gates, Defaults, Paused!Address
<1>2. PausedShapes'
  BY <1>1 DEF PausedInv, PausedShapes, EndsNode
<1>3. Words'
  <2>1. (p.reason # "checkpoint" \/ Question(p))'
    BY <1>1 DEF Question, EndsNode
  <2> QED BY <1>1 DEF PausedInv, Words, EndsNode, Question
<1>4. Envelope'
  BY DEF PausedInv, Envelope
<1>5. Trail'
  BY DEF PausedInv, Trail, EndsNode
<1>6. Moving'
  <2>1. \A j \in PausedNode : j \in Nat
    BY PlanNodes DEF PausedInv, PausedShapes
  <2>2. \A j \in PausedNode : run'.moves[j] = Nil \/ j < run'.at
    BY <1>1, <2>1 DEF PausedInv, Moving, EndsNode
  <2>3. \A j \in PausedNode : Headed(j)' = Headed(j)
    BY DEF Headed, EndsNode
  <2>4. /\ run'.pause = p
        /\ p.reason = "route_fault" =>
             p.asker \in PausedNode /\ p.route = Effective(Headed(p.asker)')
    BY <2>3 DEF EndsNode, Paused!Effective
  <2> QED BY <1>1, <2>2, <2>4 DEF PausedInv, Moving, EndsNode, Paused!Effective, Headed
<1> QED BY <1>2, <1>3, <1>4, <1>5, <1>6 DEF PausedInv

\* No gate is opened by a step that adds no row of one.
LEMMA NoGateOpens ==
    ASSUME Paused!GatesOpenOnHumanWord, UNCHANGED plan, ghost.said \subseteq ghost'.said,
           \A r \in rows' : r \in rows \/ r.gate = 0
    PROVE  Paused!GatesOpenOnHumanWord'
  BY DEF Paused!GatesOpenOnHumanWord, Paused!Address

\* An upstream null opens no gate.
LEMMA SkipsNullKeeps == ASSUME PausedInv, Paused!SkipsNull PROVE PausedInv'
<1>1. /\ run.on /\ run.at \in PausedNode /\ run' = Paused!Finished(run, Nil)
      /\ UNCHANGED <<plan, fate, line, rows, brake, ghost>>
  BY DEF Paused!SkipsNull, Paused!OfKind
<1>2. PausedShapes /\ Words /\ Moving
  BY DEF PausedInv
<1>3. EndsNode(run.pause)
  BY <1>1, <1>2, FinishesOnly
<1>4. Paused!GatesOpenOnHumanWord'
  BY <1>1, <1>2, NoGateOpens DEF Words
<1> QED BY <1>1, <1>2, <1>3, <1>4, FinishKeeps DEF Words, Moving

\* A finished cell replays.
LEMMA ReplayKeeps ==
    ASSUME PausedInv, run.on, run.at \in PausedNode, NEW asked, Paused!Replays(asked)
    PROVE  PausedInv'
<1>1. PICK v : run' = Paused!Finished(run, v)
  BY DEF Paused!Replays
<1>2. PausedShapes /\ Words /\ Moving /\ UNCHANGED <<plan, fate, line, rows, brake, ghost>>
  BY DEF PausedInv, Paused!Replays
<1>3. EndsNode(run.pause)
  BY <1>1, <1>2, FinishesOnly
<1>4. Paused!GatesOpenOnHumanWord'
  BY <1>2, NoGateOpens DEF Words
<1> QED BY <1>2, <1>3, <1>4, FinishKeeps DEF Words, Moving

\* A leaf's row is no gate's.
LEMMA LeafAnswersKeeps == ASSUME PausedInv, Paused!LeafAnswers PROVE PausedInv'
<1>1. /\ run.on /\ run.phase = "leaf" /\ run' = Paused!Finished(run, run.route)
      /\ UNCHANGED <<plan, fate, line, brake, ghost>>
      /\ \E row : rows' = rows \cup {row} /\ row.gate = 0
  <2> DEFINE row == [asked |-> Paused!Asked(run.at, run.route), value |-> run.route,
                     gate |-> 0]
  <2>1. row.gate = 0
    OBVIOUS
  <2> HIDE DEF row
  <2>2. /\ run.on /\ run.phase = "leaf" /\ run' = Paused!Finished(run, run.route)
        /\ UNCHANGED <<plan, fate, line, brake, ghost>> /\ rows' = rows \cup {row}
    BY DEF Paused!LeafAnswers, row
  <2> QED BY <2>1, <2>2
<1>2. PausedShapes /\ Words /\ Moving /\ run.at \in PausedNode
  BY <1>1 DEF PausedInv, PausedShapes
<1>3. EndsNode(run.pause)
  BY <1>1, <1>2, FinishesOnly
<1>4. Paused!GatesOpenOnHumanWord'
  BY <1>1, <1>2, NoGateOpens DEF Words
<1> QED BY <1>1, <1>2, <1>3, <1>4, FinishKeeps DEF Words, Moving

\* An answer that opens a gate is for that very gate.
LEMMA GateKeeps == ASSUME PausedInv, Paused!Gate PROVE PausedInv'
<1>1. /\ run.on /\ run.at \in PausedNode /\ run.at \in Gates /\ ~Paused!Stopped
      /\ UNCHANGED <<plan, line, brake, ghost>>
  BY DEF Paused!Gate, Paused!OfKind, Paused!Here, Paused!Gates, Paused!Replays
<1>2. PausedShapes /\ Words /\ Moving /\ plan \in AskingPlans
  BY DEF PausedInv, PausedShapes
<1> DEFINE asked == Paused!Asked(run.at, Nil)
           asks == Paused!Asks(run.at)
           here == plan[run.at]
<1>3. Question(asks) /\ asks.reason = "checkpoint"
  <2>1. /\ asks.reason = "checkpoint" /\ asks.asker = run.at /\ asks.form = "structured"
    BY DEF Paused!Asks, Paused!Pending
  <2> QED BY <1>1, <2>1 DEF Question
<1>4. ASSUME NEW v, <<Address(run.at), v>> \in run.answers,
             here.accept = {} \/ v \in here.accept,
             rows' = rows \cup {[asked |-> asked, value |-> v, gate |-> run.at]},
             run' = Paused!Finished(run, v)
      PROVE  PausedInv'
  <2>1. <<Address(run.at), v>> \in ghost.said \/ (here.accept = {} /\ v = here.default)
    <3>1. CASE <<Address(run.at), v>> \in Defaults
      <4>1. PICK i \in Gates : /\ plan[i].accept = {}
                               /\ <<Address(run.at), v>> = <<Address(i), plan[i].default>>
        BY <3>1 DEF Defaults
      <4>2. Address(run.at) = Address(i) /\ v = plan[i].default /\ i \in PausedNode
        BY <4>1 DEF Paused!Gates
      <4>3. i = run.at
        BY <1>1, <1>2, <4>2, OneAddress
      <4> QED BY <4>1, <4>2, <4>3
    <3> QED BY <1>2, <1>4, <3>1 DEF Words
  <2>2. Paused!GatesOpenOnHumanWord'
    <3> DEFINE row == [asked |-> asked, value |-> v, gate |-> run.at]
    <3>1. row.gate = run.at /\ row.value = v
      OBVIOUS
    <3> HIDE DEF row
    <3>2. rows' = rows \cup {row} /\ UNCHANGED <<plan, ghost>>
      BY <1>1, <1>4 DEF row
    <3> QED BY <1>2, <1>4, <2>1, <3>1, <3>2
            DEF Words, Paused!GatesOpenOnHumanWord, Paused!Address
  <2>3. EndsNode(run.pause)
    BY <1>2, <1>4, FinishesOnly
  <2> QED BY <1>1, <1>2, <2>2, <2>3, FinishKeeps DEF Words, Moving
<1>5. ASSUME NEW p, p = asks \/ p = run.pause, UNCHANGED rows,
             run' = [Paused!Finished(run, Nil) EXCEPT !.pause = p]
      PROVE  PausedInv'
  <2>1. EndsNode(p)
    BY <1>2, <1>5, Finishes
  <2>2. Paused!GatesOpenOnHumanWord'
    BY <1>1, <1>2, <1>5, NoGateOpens DEF Words
  <2>3. p.reason # "checkpoint" \/ Question(p)
    BY <1>2, <1>3, <1>5 DEF Words
  <2>4. p.reason = "route_fault" =>
           p.asker \in PausedNode /\ p.route = Effective(Headed(p.asker))
    BY <1>2, <1>3, <1>5 DEF Moving
  <2> QED BY <1>1, <2>1, <2>2, <2>3, <2>4, FinishKeeps
<1>6. CASE Paused!Replays(asked)
  BY <1>1, <1>6, ReplayKeeps
<1>7. ASSUME NEW v \in Paused!AnswersHere, Paused!Accepts(v),
             rows' = rows \cup {[asked |-> asked, value |-> v, gate |-> run.at]},
             run' = Paused!Finished(run, v)
      PROVE  PausedInv'
  BY <1>4, <1>7 DEF Paused!AnswersHere, Paused!Accepts, Paused!Here
<1>8. ASSUME UNCHANGED rows,
             \/ run' = [Paused!Finished(run, Nil) EXCEPT !.pause = Paused!Latch(@, asks)]
             \/ run' = [Paused!Finished(run, Nil) EXCEPT
                          !.pause = IF Paused!Here.rejects THEN Paused!Latch(@, asks) ELSE @]
      PROVE  PausedInv'
  <2>1. /\ Paused!Finished(run, Nil).pause = run.pause
        /\ "pause" \in DOMAIN Paused!Finished(run, Nil)
    BY <1>2 DEF PausedShapes, RunFields, Paused!Finished
  <2>2. PICK p : /\ p = asks \/ p = run.pause
                 /\ run' = [Paused!Finished(run, Nil) EXCEPT !.pause = p]
    BY <1>8, <2>1 DEF Paused!Latch
  <2> QED BY <1>5, <1>8, <2>2
<1> QED BY <1>6, <1>7, <1>8 DEF Paused!Gate

\* The node at hand goes on, on the route it is headed for.
WorksOn ==
    /\ DOMAIN run' = RunFields /\ run'.on = run.on /\ run'.at = run.at
    /\ run'.answers = run.answers /\ run'.pause = run.pause
    /\ run'.phase \in {"leaf", "moved"} /\ run'.route \in Routes
    /\ run'.moves \in [PausedNode -> RouteOrNone]
    /\ \A j \in PausedNode : j # run.at => run'.moves[j] = run.moves[j]
    /\ run'.route = Effective(IF run'.moves[run.at] = Nil THEN line.routes[run.at]
                              ELSE run'.moves[run.at])

\* A node that goes on, on the route it is headed for, keeps the invariant.
LEMMA WorkKeeps ==
    ASSUME PausedInv, run.on, run.at \in PausedNode, run.pause.reason # "route_fault",
           WorksOn, UNCHANGED <<plan, line, rows>>,
           DOMAIN ghost' = {"said", "moves"}, ghost'.said = ghost.said,
           ghost'.moves \in Seq(Routes \X Routes), Envelope', Trail'
    PROVE  PausedInv'
<1>1. PausedNode' = PausedNode /\ Gates' = Gates /\ Defaults' = Defaults /\ run.at \in Nat
  BY DEF PausedInv, PausedShapes, Paused!Node, Paused!Gates, Defaults, Paused!Address
<1>2. PausedShapes'
  BY <1>1 DEF PausedInv, PausedShapes, WorksOn
<1>3. Words'
  <2>1. Paused!GatesOpenOnHumanWord'
    BY NoGateOpens DEF PausedInv, Words
  <2>2. \A p \in {run.pause, line.pending} : (p.reason # "checkpoint" \/ Question(p))'
    BY <1>1 DEF PausedInv, Words, Question
  <2> QED BY <1>1, <2>1, <2>2 DEF PausedInv, Words, WorksOn
<1>4. Moving'
  <2>1. run'.route = Effective(Headed(run.at)')
    BY DEF WorksOn, Headed, Paused!Effective
  <2>2. \A j \in PausedNode : run'.moves[j] = Nil \/ j < run'.at
                                \/ (j = run'.at /\ run'.phase # "next")
    BY DEF PausedInv, Moving, WorksOn
  <2> QED BY <1>1, <2>1, <2>2 DEF PausedInv, Moving, WorksOn, Paused!Effective, Headed
<1> QED BY <1>2, <1>3, <1>4 DEF PausedInv

\* A node starts on the route the spec on file says: it has not moved yet.
LEMMA StartsNodeKeeps == ASSUME PausedInv, Paused!StartsNode PROVE PausedInv'
<1>1. /\ run.on /\ run.at \in PausedNode /\ ~Paused!Stopped /\ run.phase = "next"
      /\ \/ Paused!Replays(Paused!Asked(run.at, Paused!RouteOnFile(run.at)))
         \/ /\ run' = [run EXCEPT !.phase = "leaf", !.route = Paused!RouteOnFile(run.at)]
            /\ UNCHANGED <<plan, fate, line, rows, brake, ghost>>
  BY DEF Paused!StartsNode, Paused!OfKind
<1>2. CASE Paused!Replays(Paused!Asked(run.at, Paused!RouteOnFile(run.at)))
  BY <1>1, <1>2, ReplayKeeps
<1>3. CASE /\ run' = [run EXCEPT !.phase = "leaf", !.route = Paused!RouteOnFile(run.at)]
           /\ UNCHANGED <<plan, fate, line, rows, brake, ghost>>
  <2>1. PausedShapes /\ Envelope /\ Trail /\ Moving /\ run.at \in Nat
    BY DEF PausedInv, PausedShapes
  <2>2. /\ DOMAIN run' = RunFields /\ run'.phase = "leaf"
        /\ run'.route = Effective(line.routes[run.at])
        /\ run'.on = run.on /\ run'.at = run.at /\ run'.answers = run.answers
        /\ run'.pause = run.pause /\ run'.moves = run.moves /\ run'.tried = run.tried
        /\ run'.died = run.died /\ run'.swapped = run.swapped
    BY <1>3, <2>1 DEF PausedShapes, RunFields, Paused!RouteOnFile
  <2>3. Effective(line.routes[run.at]) \in Routes
    BY <1>1, <2>1, PausedConstants DEF PausedShapes, RouteOrNone, Paused!Effective
  <2>4. run.moves[run.at] = Nil
    BY <1>1, <2>1 DEF Moving
  <2>5. WorksOn
    BY <1>1, <2>1, <2>2, <2>3, <2>4 DEF WorksOn, PausedShapes
  <2>6. Trail'
    BY <1>1, <2>1, <2>2, <2>3 DEF Trail
  <2>7. Envelope'
    BY <1>3, <2>1 DEF Envelope
  <2>8. run.pause.reason # "route_fault"
    BY <1>1, PausedConstants DEF Paused!Stopped
  <2> QED BY <1>1, <1>3, <2>1, <2>5, <2>6, <2>7, <2>8, WorkKeeps DEF PausedShapes
<1> QED BY <1>1, <1>2, <1>3

\* What a list offers is good.
LEMMA FirstIsGood ==
    ASSUME NEW list, NEW good PROVE Paused!FirstOf(list, good) \subseteq good
  BY DEF Paused!FirstOf

\* The catalog's word: the node moves, and what its old routes were is forgotten.
LEMMA SubstituteKeeps ==
    ASSUME PausedInv, run.on, run.phase = "leaf", Paused!Substitute,
           UNCHANGED <<plan, fate, line, rows, brake, ghost>>
    PROVE  PausedInv'
<1>1. PausedShapes /\ Envelope /\ Trail /\ Moving /\ run.at \in PausedNode
  BY DEF PausedInv, PausedShapes
<1>2. PICK chosen \in Paused!Substitutes(run.route) :
        run' = [run EXCEPT !.phase = "moved", !.route = chosen, !.sought = TRUE, !.swapped = TRUE,
                           !.died = @ \cup {run.route}, !.moves[run.at] = chosen]
  BY DEF Paused!Substitute
<1>3. chosen \in Routes /\ chosen # Nil
  BY <1>2, FirstIsGood, PausedConstants DEF Paused!Substitutes
<1>4. /\ DOMAIN run' = RunFields /\ run'.phase = "moved" /\ run'.route = chosen
      /\ run'.on = run.on /\ run'.at = run.at /\ run'.answers = run.answers
      /\ run'.pause = run.pause /\ run'.moves = [run.moves EXCEPT ![run.at] = chosen]
      /\ run'.tried = run.tried /\ run'.swapped = TRUE
  BY <1>1, <1>2 DEF PausedShapes, RunFields
<1>5. WorksOn
  BY <1>1, <1>3, <1>4 DEF WorksOn, PausedShapes, RouteOrNone, Paused!Effective
<1>6. Trail'
  BY <1>1, <1>3, <1>4 DEF Trail
<1>7. Envelope'
  BY <1>1 DEF Envelope
<1>8. run.pause.reason # "route_fault"
  BY <1>1 DEF Moving
<1> QED BY <1>1, <1>5, <1>6, <1>7, <1>8, WorkKeeps DEF PausedShapes

\* The envelope's word: a mark for the dead route, and one the node was not on.
LEMMA RerouteKeeps ==
    ASSUME PausedInv, run.on, run.phase = "leaf", Paused!BrakeAllows,
           NEW r \in Paused!Offered, Paused!Reroute(r)
    PROVE  PausedInv'
<1>1. PausedShapes /\ Envelope /\ Trail /\ Moving /\ run.at \in PausedNode /\ run.route \in Routes
  BY DEF PausedInv, PausedShapes, Trail
<1>2. /\ r \in Routes /\ r # run.route /\ r \notin Paused!ToSet(run.tried) /\ r # Nil
  <2>1. r \in Paused!Candidates
    BY DEF Paused!Offered
  <2>2. r \in Routes \ ({run.route} \cup Paused!ToSet(run.tried))
    BY <2>1, FirstIsGood DEF Paused!Candidates
  <2> QED BY <2>2, PausedConstants
<1>3. /\ brake' = brake \cup {run.route} /\ UNCHANGED <<plan, line, rows>>
      /\ ghost' = [ghost EXCEPT !.moves = Append(@, <<run.route, r>>)]
      /\ run' = [run EXCEPT !.phase = "moved", !.route = r, !.died = @ \cup {run.route},
                            !.sought = @ \/ Paused!Seeks, !.moves[run.at] = r,
                            !.tried = (IF @ = <<>> THEN <<run.route>> ELSE @) \o <<r>>]
  BY DEF Paused!Reroute
<1> DEFINE was == IF run.tried = <<>> THEN <<run.route>> ELSE run.tried
<1>4. /\ DOMAIN run' = RunFields /\ run'.phase = "moved" /\ run'.route = r
      /\ run'.on = run.on /\ run'.at = run.at /\ run'.answers = run.answers
      /\ run'.pause = run.pause /\ run'.moves = [run.moves EXCEPT ![run.at] = r]
      /\ run'.tried = was \o <<r>> /\ run'.swapped = run.swapped
      /\ run'.died = run.died \cup {run.route}
  BY <1>1, <1>3 DEF PausedShapes, RunFields
<1>5. WorksOn
  BY <1>1, <1>2, <1>4 DEF WorksOn, PausedShapes, RouteOrNone, Paused!Effective
<1>6. Trail'
  <2>1. /\ was \in Seq(Routes) /\ run.tried \in Seq(Routes)
        /\ Paused!ToSet(run.tried) \subseteq Paused!ToSet(was)
        /\ run.tried = <<>> => Paused!ToSet(run.tried) = {} /\ run.route \in Paused!ToSet(was)
    BY <1>1 DEF Trail, Paused!ToSet
  <2>2. was \o <<r>> \in Seq(Routes) /\ was \o <<r>> # <<>>
    <3> HIDE DEF was
    <3>1. <<r>> \in Seq(Routes) /\ Len(<<r>>) = 1
      BY <1>2
    <3>2. was \o <<r>> \in Seq(Routes) /\ Len(was \o <<r>>) = Len(was) + 1 /\ Len(was) \in Nat
      BY <2>1, <3>1
    <3> QED BY <3>2
  <2>3. Paused!ToSet(was \o <<r>>) = Paused!ToSet(was) \cup {r}
    <3> HIDE DEF was
    <3>1. /\ Len(was) \in Nat /\ DOMAIN was = 1..Len(was)
          /\ DOMAIN (was \o <<r>>) = 1..Len(was) + 1
          /\ \A n \in 1..Len(was) : (was \o <<r>>)[n] = was[n]
          /\ (was \o <<r>>)[Len(was) + 1] = r
      BY <1>2, <2>1
    <3>2. 1..Len(was) + 1 = 1..Len(was) \cup {Len(was) + 1}
      BY <3>1
    <3> QED BY <3>1, <3>2 DEF Paused!ToSet
  <2>4. ~run.swapped => /\ run.died \subseteq Paused!ToSet(was) /\ run.route \in Paused!ToSet(was)
                        /\ r \notin run.died
    BY <1>1, <1>2, <2>1 DEF Trail
  <2> HIDE DEF was
  <2> QED BY <1>2, <1>4, <2>2, <2>3, <2>4 DEF Trail
<1>7. /\ DOMAIN ghost' = {"said", "moves"} /\ ghost'.said = ghost.said
      /\ ghost'.moves = Append(ghost.moves, <<run.route, r>>)
      /\ ghost'.moves \in Seq(Routes \X Routes)
  BY <1>1, <1>2, <1>3 DEF PausedShapes
<1>8. Envelope'
  <2>1. /\ run.route \notin brake /\ Cardinality(brake) < MaxMoves /\ IsFiniteSet(brake)
        /\ ghost.moves \in Seq(Routes \X Routes) /\ Len(ghost.moves) = Cardinality(brake)
    BY <1>1, MarksAreCounted DEF Paused!BrakeAllows, Envelope, PausedShapes
  <2>2. IsFiniteSet(brake') /\ Cardinality(brake') = Cardinality(brake) + 1
    BY <1>3, <2>1, FS_AddElement
  <2> DEFINE old == ghost.moves
             new == ghost'.moves
  <2>3. /\ old \in Seq(Routes \X Routes) /\ new = Append(old, <<run.route, r>>)
        /\ Len(old) = Cardinality(brake)
    BY <1>7, <2>1
  <2>4. /\ Len(new) = Len(old) + 1 /\ DOMAIN new = 1..Len(old) + 1 /\ DOMAIN old = 1..Len(old)
        /\ Len(old) \in Nat /\ new[Len(old) + 1] = <<run.route, r>>
        /\ \A n \in 1..Len(old) : new[n] = old[n]
    <3> HIDE DEF old, new
    <3> QED BY <1>1, <1>2, <2>3
  <2>5. /\ \A i \in DOMAIN old : old[i][1] \in brake
        /\ \A i, j \in DOMAIN old : old[i][1] = old[j][1] => i = j
    BY <1>1 DEF Envelope
  <2>6. \A i \in DOMAIN new : i \in DOMAIN old \/ i = Len(old) + 1
    BY <2>4
  <2>7. new[Len(old) + 1][1] = run.route
    BY <2>4
  <2>8. \A i \in DOMAIN new : new[i][1] \in brake'
    BY <1>3, <2>4, <2>5, <2>6, <2>7
  <2>9. \A i, j \in DOMAIN new : new[i][1] = new[j][1] => i = j
    <3> SUFFICES ASSUME NEW i \in DOMAIN new, NEW j \in DOMAIN new, new[i][1] = new[j][1]
                 PROVE  i = j
      OBVIOUS
    <3> HIDE DEF old, new
    <3>1. i \in DOMAIN old => new[i] = old[i] /\ old[i][1] # run.route
      BY <2>1, <2>4, <2>5
    <3>2. j \in DOMAIN old => new[j] = old[j] /\ old[j][1] # run.route
      BY <2>1, <2>4, <2>5
    <3> QED BY <2>5, <2>6, <2>7, <3>1, <3>2
  <2>10. Len(new) = Cardinality(brake') /\ Len(new) <= MaxMoves
    <3> HIDE DEF old, new
    <3> QED BY <2>1, <2>2, <2>3, <2>4, PausedConstants, FS_CardinalityType
  <2> QED BY <2>2, <2>8, <2>9, <2>10 DEF Envelope
<1>9. run.pause.reason # "route_fault"
  BY <1>1 DEF Moving
<1> QED BY <1>1, <1>3, <1>5, <1>6, <1>7, <1>8, <1>9, WorkKeeps

\* What a death is told names the route the node was on.
LEMMA LeafDiesKeeps == ASSUME PausedInv, Paused!LeafDies PROVE PausedInv'
<1>1. /\ run.on /\ run.phase = "leaf"
      /\ PausedShapes /\ Words /\ Moving /\ run.at \in PausedNode
  BY DEF PausedInv, PausedShapes, Paused!LeafDies
<1> DEFINE told == Paused!PausesOnRoute
<1>2. /\ told.reason = "route_fault" /\ told.asker = run.at /\ told.route = run.route
  BY DEF Paused!PausesOnRoute, Paused!Pending
<1>3. CASE Paused!Substitute /\ UNCHANGED <<plan, fate, line, rows, brake, ghost>>
  BY <1>1, <1>3, SubstituteKeeps
<1>4. CASE Paused!BrakeAllows /\ \E r \in Paused!Offered : Paused!Reroute(r)
  BY <1>1, <1>4, RerouteKeeps
<1>5. CASE /\ run' = [Paused!Finished(run, Nil) EXCEPT
                        !.pause = IF Paused!RouteDied THEN Paused!Latch(@, told) ELSE @]
           /\ UNCHANGED <<plan, fate, line, rows, brake, ghost>>
  <2>1. /\ Paused!Finished(run, Nil).pause = run.pause
        /\ "pause" \in DOMAIN Paused!Finished(run, Nil)
    BY <1>1 DEF PausedShapes, RunFields, Paused!Finished
  <2>2. PICK p : /\ p = told \/ p = run.pause
                 /\ run' = [Paused!Finished(run, Nil) EXCEPT !.pause = p]
    BY <1>5, <2>1 DEF Paused!Latch
  <2>3. EndsNode(p)
    BY <1>1, <2>2, Finishes
  <2>4. Paused!GatesOpenOnHumanWord'
    BY <1>1, <1>5, NoGateOpens DEF Words
  <2>5. p.reason # "checkpoint" \/ Question(p)
    BY <1>1, <1>2, <2>2 DEF Words
  <2>6. p.reason = "route_fault" =>
           p.asker \in PausedNode /\ p.route = Effective(Headed(p.asker))
    <3>1. CASE p = told
      BY <1>1, <1>2, <3>1 DEF Moving
    <3>2. CASE p = run.pause
      BY <1>1, <3>2 DEF Moving
    <3> QED BY <2>2, <3>1, <3>2
  <2> QED BY <1>1, <1>5, <2>3, <2>4, <2>5, <2>6, FinishKeeps
<1> QED BY <1>3, <1>4, <1>5 DEF Paused!LeafDies

\* The moved node asks for its new cell, and stays on its route.
LEMMA NextAttemptKeeps == ASSUME PausedInv, Paused!NextAttempt PROVE PausedInv'
<1>1. /\ run.on /\ run.phase = "moved" /\ PausedShapes /\ Words /\ Envelope /\ Trail /\ Moving
      /\ run.at \in PausedNode
  BY DEF PausedInv, PausedShapes, Paused!NextAttempt
<1>2. CASE run' = Paused!Finished(run, Nil) /\ UNCHANGED <<plan, fate, line, rows, brake, ghost>>
  <2>1. EndsNode(run.pause)
    BY <1>1, <1>2, FinishesOnly
  <2>2. Paused!GatesOpenOnHumanWord'
    BY <1>1, <1>2, NoGateOpens DEF Words
  <2> QED BY <1>1, <1>2, <2>1, <2>2, FinishKeeps DEF Words, Moving
<1>3. CASE Paused!Replays(Paused!Asked(run.at, run.route))
  BY <1>1, <1>3, ReplayKeeps
<1>4. CASE /\ run' = [run EXCEPT !.phase = "leaf"]
           /\ UNCHANGED <<plan, fate, line, rows, brake, ghost>>
  <2>1. /\ DOMAIN run' = RunFields /\ run'.phase = "leaf" /\ run'.route = run.route
        /\ run'.on = run.on /\ run'.at = run.at /\ run'.answers = run.answers
        /\ run'.pause = run.pause /\ run'.moves = run.moves /\ run'.tried = run.tried
        /\ run'.died = run.died /\ run'.swapped = run.swapped
    BY <1>1, <1>4 DEF PausedShapes, RunFields
  <2>2. WorksOn
    <3>1. run.route = Effective(Headed(run.at)) /\ run.route \in Routes
      BY <1>1 DEF Moving, Trail
    <3> QED BY <1>1, <2>1, <3>1 DEF WorksOn, PausedShapes, Headed
  <2>3. Trail'
    BY <1>1, <2>1 DEF Trail
  <2>4. Envelope'
    BY <1>1, <1>4 DEF Envelope
  <2>5. run.pause.reason # "route_fault"
    BY <1>1 DEF Moving
  <2> QED BY <1>1, <1>4, <2>2, <2>3, <2>4, <2>5, WorkKeeps DEF PausedShapes
<1> QED BY <1>2, <1>3, <1>4 DEF Paused!NextAttempt

\* The user asks no question and names no route.
LEMMA UserPausesKeeps == ASSUME PausedInv, Paused!UserPauses PROVE PausedInv'
<1> DEFINE p == Paused!Pending("user", Nil, 0, Nil, Nil)
<1>1. /\ run.on /\ ~Paused!Stopped /\ run' = [run EXCEPT !.pause = p]
      /\ UNCHANGED <<plan, fate, line, rows, brake, ghost>> /\ p.reason = "user"
  BY DEF Paused!UserPauses, Paused!Pending
<1> HIDE DEF p
<1>2. PausedShapes /\ Words /\ Envelope /\ Trail /\ Moving
  BY DEF PausedInv
<1>3. /\ DOMAIN run' = RunFields /\ run'.pause = p
      /\ run'.on = run.on /\ run'.at = run.at /\ run'.phase = run.phase
      /\ run'.answers = run.answers /\ run'.route = run.route /\ run'.moves = run.moves
      /\ run'.tried = run.tried /\ run'.died = run.died /\ run'.swapped = run.swapped
  BY <1>1, <1>2 DEF PausedShapes, RunFields
<1>4. PausedNode' = PausedNode /\ Gates' = Gates /\ Defaults' = Defaults
  BY <1>1 DEF Paused!Node, Paused!Gates, Defaults, Paused!Address
<1>5. PausedShapes'
  <2>1. (~run.on => run.answers = {} /\ run.pause = Paused!NoPause)'
    BY <1>1, <1>3
  <2>2. (run.on \in BOOLEAN /\ run.at \in Nat /\ run.phase \in {"next", "leaf", "moved"})'
    BY <1>2, <1>3 DEF PausedShapes
  <2>3. (run.phase # "next" => run.on /\ run.at \in PausedNode)'
    BY <1>2, <1>3, <1>4 DEF PausedShapes
  <2>4. (run.on => run.moves \in [PausedNode -> RouteOrNone])'
    BY <1>1, <1>2, <1>3, <1>4 DEF PausedShapes
  <2>5. (DOMAIN run = RunFields)'
    BY <1>3
  <2>6. (plan \in AskingPlans /\ DOMAIN line = LineFields /\ line.routes \in [PausedNode -> RouteOrNone])'
    BY <1>1, <1>2, <1>4 DEF PausedShapes
  <2>7. (DOMAIN ghost = {"said", "moves"} /\ ghost.moves \in Seq(Routes \X Routes))'
    BY <1>1, <1>2 DEF PausedShapes
  <2> QED BY <2>1, <2>2, <2>3, <2>4, <2>5, <2>6, <2>7 DEF PausedShapes
<1>6. Words'
  <2>1. Paused!GatesOpenOnHumanWord'
    BY <1>1, <1>2, NoGateOpens DEF Words
  <2>2. (line.pending.reason # "checkpoint" \/ Question(line.pending))'
    BY <1>1, <1>2, <1>4 DEF Words, Question
  <2>3. (run.pause.reason # "checkpoint")'
    BY <1>1, <1>3
  <2> QED BY <1>1, <1>2, <1>3, <1>4, <2>1, <2>2, <2>3 DEF Words
<1>7. Envelope'
  BY <1>1, <1>2 DEF Envelope
<1>8. Trail'
  BY <1>2, <1>3 DEF Trail
<1>9. Moving'
  BY <1>1, <1>2, <1>3, <1>4 DEF Moving, Headed, Paused!Effective
<1> QED BY <1>5, <1>6, <1>7, <1>8, <1>9 DEF PausedInv

\* The stretch is over: nothing of it is left but what the line was told.
LEMMA EndKeeps ==
    ASSUME PausedInv, run' = Paused!Idle, UNCHANGED <<plan, rows, brake, ghost>>,
           DOMAIN line' = LineFields, line'.routes \in [PausedNode -> RouteOrNone],
           line'.pending.reason # "checkpoint" \/ Question(line'.pending),
           line'.pending.reason = "route_fault" =>
              /\ line'.pending.asker \in PausedNode
              /\ line'.pending.route = Effective(line'.routes[line'.pending.asker])
    PROVE  PausedInv'
<1>1. PausedShapes /\ Words /\ Envelope /\ Trail /\ Moving
  BY DEF PausedInv
<1>2. /\ DOMAIN run' = RunFields /\ run'.on \in BOOLEAN /\ ~run'.on /\ run'.at = 0 /\ run'.phase = "next"
      /\ run'.answers = {} /\ run'.pause = Paused!NoPause /\ run'.tried = <<>>
      /\ run'.died = {} /\ run'.swapped = FALSE /\ Paused!NoPause.reason = Nil
  BY DEF Paused!Idle, Paused!NoPause, Paused!Pending, RunFields
<1>3. PausedNode' = PausedNode /\ Gates' = Gates
  BY DEF Paused!Node, Paused!Gates
<1>4. PausedShapes'
  <2>1. (~run.on => run.answers = {} /\ run.pause = Paused!NoPause)'
    BY <1>2 DEF Paused!NoPause, Paused!Pending
  <2>2. (run.on \in BOOLEAN /\ run.at \in Nat)'
    BY <1>2
  <2>3. ~(run.phase # "next")' /\ ~run'.on
    BY <1>2
  <2> QED BY <1>1, <1>2, <1>3, <2>1, <2>2, <2>3 DEF PausedShapes
<1>5. Words'
  <2>1. Paused!GatesOpenOnHumanWord'
    BY <1>1, NoGateOpens DEF Words
  <2>2. (line.pending.reason # "checkpoint" \/ Question(line.pending))'
    BY <1>3 DEF Question
  <2>3. (run.pause.reason # "checkpoint")'
    BY <1>2, PausedConstants
  <2> QED BY <1>2, <2>1, <2>2, <2>3 DEF Words
<1>6. Envelope'
  BY <1>1 DEF Envelope
<1>7. Trail'
  BY <1>1, <1>2 DEF Trail
<1>8. Moving'
  BY <1>2, <1>3, PausedConstants DEF Moving, Paused!Effective
<1> QED BY <1>4, <1>5, <1>6, <1>7, <1>8 DEF PausedInv

\* The seal tells the line where the run stopped, and where its nodes are headed.
LEMMA PausedSealKeeps == ASSUME PausedInv, Paused!Seal PROVE PausedInv'
<1>1. PausedShapes /\ Words /\ Moving /\ run.on
  BY DEF PausedInv, Paused!Seal
<1>2. /\ run' = Paused!Idle /\ UNCHANGED <<plan, fate, rows, brake, ghost>>
      /\ DOMAIN line' = LineFields /\ line'.pending = run.pause
      /\ line'.routes = [i \in PausedNode |-> Headed(i)]
  BY <1>1 DEF Paused!Seal, Paused!Snapshot, Headed, PausedShapes, LineFields
<1>3. line'.routes \in [PausedNode -> RouteOrNone]
  BY <1>1, <1>2 DEF PausedShapes, Headed
<1>4. run.pause.reason # "checkpoint" \/ Question(run.pause)
  BY <1>1 DEF Words
<1>5. run.pause.reason = "route_fault" =>
        /\ run.pause.asker \in PausedNode
        /\ run.pause.route = Effective(line'.routes[run.pause.asker])
  BY <1>1, <1>2 DEF Moving
<1> QED BY <1>1, <1>2, <1>3, <1>4, <1>5, EndKeeps

\* A crash leaves the line as it was; the moves of the stretch are lost with it.
LEMMA PausedCrashKeeps == ASSUME PausedInv, Paused!Crash PROVE PausedInv'
<1>1. PausedShapes /\ Words /\ Moving
      /\ run' = Paused!Idle /\ UNCHANGED <<plan, fate, line, rows, brake, ghost>>
  BY DEF PausedInv, Paused!Crash
<1>2. line.pending.reason # "checkpoint" \/ Question(line.pending)
  BY <1>1 DEF Words
<1> QED BY <1>1, <1>2, EndKeeps DEF PausedShapes, Moving

\* A cancelled line has nothing pending.
LEMMA AbortRouteKeeps == ASSUME PausedInv, Paused!AbortRoute PROVE PausedInv'
<1>1. /\ PausedShapes /\ Words /\ Envelope /\ Trail /\ Moving
      /\ UNCHANGED <<plan, fate, rows, brake, run, ghost>>
      /\ line' = [line EXCEPT !.status = "cancelled", !.pending = Paused!NoPause]
      /\ Paused!NoPause.reason = Nil
  BY DEF PausedInv, Paused!AbortRoute, Paused!NoPause, Paused!Pending
<1>2. /\ DOMAIN line' = LineFields /\ line'.pending = Paused!NoPause
      /\ line'.routes = line.routes /\ ~run.on
  BY <1>1 DEF PausedShapes, LineFields, Paused!AbortRoute
<1>3. PausedNode' = PausedNode /\ Gates' = Gates /\ Defaults' = Defaults
  BY <1>1 DEF Paused!Node, Paused!Gates, Defaults, Paused!Address
<1>4. PausedShapes'
  BY <1>1, <1>2, <1>3 DEF PausedShapes
<1>5. Words'
  <2>1. Paused!GatesOpenOnHumanWord'
    BY <1>1, NoGateOpens DEF Words
  <2>2. (run.pause.reason # "checkpoint" \/ Question(run.pause))'
    BY <1>1, <1>3 DEF Words, Question
  <2>3. (line.pending.reason # "checkpoint")'
    BY <1>1, <1>2, PausedConstants
  <2> QED BY <1>1, <1>3, <2>1, <2>2, <2>3 DEF Words
<1>6. Envelope' /\ Trail'
  BY <1>1 DEF Envelope, Trail
<1>7. Moving'
  <2>1. run.pause = Paused!NoPause
    BY <1>1, <1>2 DEF PausedShapes
  <2> QED BY <1>1, <1>2, <2>1, PausedConstants DEF Moving
<1> QED BY <1>4, <1>5, <1>6, <1>7 DEF PausedInv

\* The ways of the routes are of no account, nor is a step of nobody's.
LEMMA PausedStutters ==
    ASSUME PausedInv, UNCHANGED <<plan, line, rows, brake, run, ghost>> PROVE PausedInv'
<1>1. PausedNode' = PausedNode /\ Gates' = Gates /\ Defaults' = Defaults
  BY DEF Paused!Node, Paused!Gates, Defaults, Paused!Address
<1>2. PausedShapes'
  BY <1>1 DEF PausedInv, PausedShapes
<1>3. Words'
  <2>1. Paused!GatesOpenOnHumanWord'
    BY NoGateOpens DEF PausedInv, Words
  <2>2. \A p \in {run.pause, line.pending} : (p.reason # "checkpoint" \/ Question(p))'
    BY <1>1 DEF PausedInv, Words, Question
  <2> QED BY <1>1, <2>1, <2>2 DEF PausedInv, Words
<1>4. Envelope' /\ Trail'
  BY DEF PausedInv, Envelope, Trail
<1>5. Moving'
  BY <1>1 DEF PausedInv, Moving, Headed, Paused!Effective
<1> QED BY <1>2, <1>3, <1>4, <1>5 DEF PausedInv

(* The resumes. *)

\* A launch starts on words that are a human's or a default's, with no move made.
LEMMA LaunchKeeps ==
    ASSUME PausedInv, NEW answers, NEW routes, Paused!Launch(answers, routes),
           UNCHANGED <<plan, rows, brake>>, DOMAIN ghost' = {"said", "moves"},
           ghost'.moves = ghost.moves, ghost.said \subseteq ghost'.said,
           answers \subseteq ghost'.said \cup Defaults,
           routes \in [PausedNode -> RouteOrNone]
    PROVE  PausedInv'
<1>1. PausedShapes /\ Words /\ Envelope /\ Trail /\ Moving
  BY DEF PausedInv
<1>2. /\ DOMAIN line' = LineFields /\ line'.pending = Paused!NoPause /\ line'.routes = routes
      /\ Paused!NoPause.reason = Nil
  BY <1>1 DEF Paused!Launch, PausedShapes, LineFields, Paused!NoPause, Paused!Pending
<1>3. /\ DOMAIN run' = RunFields /\ run'.on \in BOOLEAN /\ run'.on /\ run'.at = 1
      /\ run'.phase = "next" /\ run'.answers = answers /\ run'.pause = Paused!NoPause
      /\ run'.tried = <<>> /\ run'.died = {} /\ run'.swapped \in BOOLEAN /\ ~run'.swapped
      /\ run'.moves = [i \in PausedNode |-> Nil]
  BY DEF Paused!Launch, Paused!Started, Paused!Idle, Paused!NoPause, Paused!Pending, RunFields
<1>4. PausedNode' = PausedNode /\ Gates' = Gates /\ Defaults' = Defaults
  BY DEF Paused!Node, Paused!Gates, Defaults, Paused!Address
<1>5. PausedShapes'
  <2>1. run'.moves \in [PausedNode -> RouteOrNone]
    BY <1>3 DEF RouteOrNone
  <2>2. (run.on \in BOOLEAN /\ run.at \in Nat /\ run.phase \in {"next", "leaf", "moved"})'
    BY <1>3
  <2>3. ~(run.phase # "next")' /\ run'.on
    BY <1>3
  <2>4. (plan \in AskingPlans /\ DOMAIN line = LineFields
           /\ line.routes \in [PausedNode -> RouteOrNone])'
    BY <1>1, <1>2, <1>4 DEF PausedShapes
  <2>5. (DOMAIN ghost = {"said", "moves"} /\ ghost.moves \in Seq(Routes \X Routes))'
    BY <1>1 DEF PausedShapes
  <2>6. (DOMAIN run = RunFields)'
    BY <1>3
  <2> QED BY <1>4, <2>1, <2>2, <2>3, <2>4, <2>5, <2>6 DEF PausedShapes
<1>6. Words'
  <2>1. Paused!GatesOpenOnHumanWord'
    BY <1>1, NoGateOpens DEF Words
  <2>2. (run.pause.reason # "checkpoint" /\ line.pending.reason # "checkpoint")'
    BY <1>2, <1>3, PausedConstants
  <2> QED BY <1>3, <1>4, <2>1, <2>2 DEF Words
<1>7. Envelope'
  BY <1>1 DEF Envelope
<1>8. Trail'
  BY <1>1, <1>3 DEF Trail
<1>9. Moving'
  <2>1. (run.pause.reason # "route_fault" /\ line.pending.reason # "route_fault")'
    BY <1>2, <1>3, PausedConstants
  <2>2. ~(run.phase # "next")' /\ \A j \in PausedNode : run'.moves[j] = Nil
    BY <1>3
  <2> QED BY <1>4, <2>1, <2>2 DEF Moving
<1> QED BY <1>5, <1>6, <1>7, <1>8, <1>9 DEF PausedInv

\* A pending question has the address of the gate that asked it, or none.
LEMMA AskersAddress ==
    ASSUME plan \in AskingPlans, NEW p, Question(p)
    PROVE  Paused!PendingAddresses(p) \subseteq {Address(p.asker)}
<1>1. p.asker \in PausedNode
  BY DEF Question, Paused!Gates
<1>2. CASE p.form = "structured"
  BY <1>2 DEF Paused!PendingAddresses
<1>3. CASE p.form = "bare" /\ p.node = plan[p.asker].id
  <2>1. Paused!PendingAddresses(p) = IF Paused!Calls = {} THEN Paused!RootGates(p.node) ELSE {}
    BY <1>3 DEF Paused!PendingAddresses
  <2>2. CASE Paused!Calls = {}
    <3>1. plan[p.asker].call = Root
      BY <1>1, <2>2 DEF Paused!Calls
    <3>2. \A a \in Paused!RootGates(p.node) : a = <<plan[p.asker].id>>
      BY <1>3 DEF Paused!RootGates
    <3> QED BY <2>1, <2>2, <3>1, <3>2 DEF Paused!Address
  <2> QED BY <2>1, <2>2
<1>4. CASE /\ p.form = "namespaced" /\ plan[p.asker].call # Root
           /\ p.node = <<plan[p.asker].call>> \o plan[p.asker].id
  <2>1. Paused!PendingAddresses(p) = Paused!Under(p.node, {plan[p.asker].call})
    BY <1>4 DEF Paused!PendingAddresses
  <2>2. Tail(p.node) = plan[p.asker].id
    BY <1>1, <1>4, ReadBack
  <2>3. \A a \in Paused!Under(p.node, {plan[p.asker].call}) : a = <<plan[p.asker].call, Tail(p.node)>>
    BY DEF Paused!Under
  <2> QED BY <1>4, <2>1, <2>2, <2>3 DEF Paused!Address
<1> QED BY <1>2, <1>3, <1>4 DEF Question

\* What a resume runs with is what it was sent, or the default of the question.
LEMMA ResolvedAreWords ==
    ASSUME PausedInv, NEW given, NEW answers \in Paused!Resolved(given)
    PROVE  answers \subseteq given \cup Defaults
<1>1. PausedShapes /\ Words /\ plan \in AskingPlans
  BY DEF PausedInv, PausedShapes
<1> DEFINE address == Paused!PendingAddresses(line.pending)
           dflt == {<<a, d>> : a \in address, d \in Paused!DefaultOf(line.pending)}
<1>2. answers = given \/ (Paused!AtQuestion /\ answers = given \cup dflt)
  <2> HIDE DEF dflt
  <2>1. CASE ~Paused!AtQuestion
    BY <2>1 DEF Paused!Resolved
  <2>2. CASE Paused!AtQuestion
    <3>1. \/ answers \in {given} \cap {{}}
          \/ answers \in {given}
          \/ answers \in {given \cup dflt} \ {given}
      BY <2>2 DEF Paused!Resolved, dflt
    <3> QED BY <2>2, <3>1
  <2> QED BY <2>1, <2>2
<1>3. ASSUME Paused!AtQuestion PROVE dflt \subseteq Defaults
  <2>1. Question(line.pending)
    BY <1>1, <1>3 DEF Words, Paused!AtQuestion
  <2>2. address \subseteq {Address(line.pending.asker)}
    BY <1>1, <2>1, AskersAddress
  <2>3. \A d \in Paused!DefaultOf(line.pending) :
          plan[line.pending.asker].accept = {} /\ d = plan[line.pending.asker].default
    BY DEF Paused!DefaultOf
  <2>4. line.pending.asker \in Gates
    BY <2>1 DEF Question
  <2> HIDE DEF address
  <2> QED BY <2>2, <2>3, <2>4 DEF Defaults
<1> QED BY <1>2, <1>3

\* A label that can mean one gate only means its own.
LEMMA LabelOfOne ==
    ASSUME plan \in AskingPlans, NEW i \in Gates, ~Paused!Ambiguous(Paused!Label(i))
    PROVE  Paused!LegacyAddresses(Paused!Label(i)) \subseteq {Address(i)}
<1> DEFINE key == Paused!Label(i)
           S == Paused!LegacyAddresses(key)
<1>1. i \in PausedNode
  BY DEF Paused!Gates
<1>2. Address(i) \in S
  <2>1. CASE plan[i].call = Root
    <3>1. key = plan[i].id
      BY <2>1 DEF Paused!Label
    <3> HIDE DEF key
    <3>2. Address(i) \in Paused!RootGates(key)
      BY <2>1, <3>1 DEF Paused!RootGates, Paused!Address
    <3> QED BY <3>2 DEF Paused!LegacyAddresses
  <2>2. CASE plan[i].call # Root
    <3>1. key = <<plan[i].call>> \o plan[i].id
      BY <2>2 DEF Paused!Label
    <3>2. Len(key) > 1 /\ Head(key) = plan[i].call /\ Tail(key) = plan[i].id
      BY <1>1, <3>1, ReadBack
    <3>3. plan[i].call \in Paused!Calls
      BY <1>1, <2>2 DEF Paused!Calls
    <3> HIDE DEF key
    <3>4. Address(i) \in Paused!Under(key, Paused!Calls)
      BY <2>2, <3>2, <3>3 DEF Paused!Under, Paused!Address
    <3> QED BY <3>4 DEF Paused!LegacyAddresses
  <2> QED BY <2>1, <2>2
<1> HIDE DEF key
<1>3. S \subseteq {<<key>>, <<Head(key), Tail(key)>>}
  BY DEF Paused!LegacyAddresses, Paused!RootGates, Paused!Under
<1>4. IsFiniteSet({<<key>>, <<Head(key), Tail(key)>>})
  <2>1. ASSUME NEW a, NEW b PROVE IsFiniteSet({a, b})
    <3>1. IsFiniteSet({} \cup {a})
      BY FS_EmptySet, FS_AddElement
    <3>2. IsFiniteSet(({} \cup {a}) \cup {b})
      BY <3>1, FS_AddElement
    <3>3. ({} \cup {a}) \cup {b} = {a, b}
      OBVIOUS
    <3> QED BY <3>2, <3>3
  <2> QED BY <2>1
<1>5. IsFiniteSet(S)
  BY <1>3, <1>4, FS_Subset
<1>6. ~(Cardinality(S) > 1)
  BY MarksAreCounted DEF Paused!Ambiguous, key
<1> HIDE DEF S
<1>7. Cardinality(S \ {Address(i)}) = Cardinality(S) - 1 /\ IsFiniteSet(S \ {Address(i)})
  BY <1>2, <1>5, FS_RemoveElement
<1>8. Cardinality(S \ {Address(i)}) = 0
  <2>1. Cardinality(S \ {Address(i)}) \in Nat /\ Cardinality(S) \in Nat
    BY <1>5, <1>7, FS_CardinalityType
  <2> QED BY <1>6, <1>7, <2>1
<1>9. S \ {Address(i)} = {}
  BY <1>7, <1>8, FS_EmptySet
<1> QED BY <1>9 DEF S, key

\* A resume with no answer has none but the default of the question.
LEMMA ResumeBareKeeps == ASSUME PausedInv, Paused!ResumeBare PROVE PausedInv'
<1>1. PICK answers \in Paused!Resolved({}) : Paused!Launch(answers, line.routes)
  BY DEF Paused!ResumeBare
<1>2. UNCHANGED <<plan, fate, rows, brake, ghost>> /\ PausedShapes
  BY DEF PausedInv, Paused!ResumeBare
<1>3. answers \subseteq {} \cup Defaults
  BY ResolvedAreWords
<1> QED BY <1>1, <1>2, <1>3, LaunchKeeps DEF PausedShapes

\* What a human said is written down before the run is launched on it.
LEMMA SaidKeeps ==
    ASSUME PausedInv, NEW a, NEW v, NEW given, given \subseteq {<<a, v>>},
           ghost' = [ghost EXCEPT !.said = @ \cup {<<a, v>>}],
           NEW answers \in Paused!Resolved(given), Paused!Launch(answers, line.routes),
           UNCHANGED <<plan, fate, rows, brake>>
    PROVE  PausedInv'
<1>1. PausedShapes
  BY DEF PausedInv
<1>2. /\ DOMAIN ghost' = {"said", "moves"} /\ ghost'.moves = ghost.moves
      /\ ghost'.said = ghost.said \cup {<<a, v>>}
  BY <1>1 DEF PausedShapes
<1>3. answers \subseteq given \cup Defaults
  BY ResolvedAreWords
<1> QED BY <1>1, <1>2, <1>3, LaunchKeeps DEF PausedShapes

\* An answer relayed by its address is for that gate.
LEMMA ResumeAnsweredKeeps == ASSUME PausedInv, Paused!ResumeAnswered PROVE PausedInv'
<1>1. PICK i \in Gates, v \in Said :
        /\ ghost' = [ghost EXCEPT !.said = @ \cup {<<Address(i), v>>}]
        /\ \E answers \in Paused!Resolved({<<Address(i), v>>}) :
              Paused!Launch(answers, line.routes)
  BY DEF Paused!ResumeAnswered
<1>2. UNCHANGED <<plan, fate, rows, brake>>
  BY DEF Paused!ResumeAnswered
<1> QED BY <1>1, <1>2, SaidKeeps

\* An answer relayed by the label of a gate is for that gate, or refused.
LEMMA ResumeLegacyKeeps == ASSUME PausedInv, Paused!ResumeLegacy PROVE PausedInv'
<1>1. PICK i \in Gates, v \in Said :
        /\ ~Paused!Ambiguous(Paused!Label(i))
        /\ ghost' = [ghost EXCEPT !.said = @ \cup {<<Address(i), v>>}]
        /\ \E answers \in Paused!Resolved(Paused!Addressed(Paused!Label(i), v)) :
              Paused!Launch(answers, line.routes)
  BY DEF Paused!ResumeLegacy
<1>2. UNCHANGED <<plan, fate, rows, brake>> /\ plan \in AskingPlans
  BY DEF PausedInv, PausedShapes, Paused!ResumeLegacy
<1>3. Paused!LegacyAddresses(Paused!Label(i)) \subseteq {Address(i)}
  BY <1>1, <1>2, LabelOfOne
<1>4. Paused!Addressed(Paused!Label(i), v) \subseteq {<<Address(i), v>>}
  BY <1>3 DEF Paused!Addressed
<1> QED BY <1>1, <1>2, <1>4, SaidKeeps

\* An adapted spec puts its own routes on file.
LEMMA ResumeAdaptedKeeps == ASSUME PausedInv, Paused!ResumeAdapted PROVE PausedInv'
<1>1. PICK r \in Routes, i \in PausedNode :
        Paused!Launch({}, [[j \in PausedNode |-> plan[j].route] EXCEPT ![i] = r])
  BY DEF Paused!ResumeAdapted
<1>2. UNCHANGED <<plan, fate, rows, brake, ghost>> /\ PausedShapes /\ plan \in AskingPlans
  BY DEF PausedInv, PausedShapes, Paused!ResumeAdapted
<1>3. [[j \in PausedNode |-> plan[j].route] EXCEPT ![i] = r] \in [PausedNode -> RouteOrNone]
  <2>1. \A j \in PausedNode : plan[j].route \in RouteOrNone
    BY <1>2, PlanNodes
  <2> QED BY <1>1, <2>1 DEF RouteOrNone
<1> QED BY <1>1, <1>2, <1>3, LaunchKeeps DEF PausedShapes

\* A human's route is put on file for the node that died.
LEMMA AnswerRouteKeeps == ASSUME PausedInv, Paused!AnswerRoute PROVE PausedInv'
<1>1. PICK r \in Routes :
        Paused!Launch({}, [line.routes EXCEPT ![line.pending.asker] = r])
  BY DEF Paused!AnswerRoute
<1>2. UNCHANGED <<plan, fate, rows, brake, ghost>> /\ PausedShapes
  BY DEF PausedInv, PausedShapes, Paused!AnswerRoute
<1>3. [line.routes EXCEPT ![line.pending.asker] = r] \in [PausedNode -> RouteOrNone]
  BY <1>1, <1>2 DEF PausedShapes, RouteOrNone
<1> QED BY <1>1, <1>2, <1>3, LaunchKeeps DEF PausedShapes

\* Every step of a run that stops for somebody keeps the invariant.
LEMMA PausedStep == PausedInv /\ [Paused!PausedNext]_(Paused!vars) => PausedInv'
<1> SUFFICES ASSUME PausedInv, [Paused!PausedNext]_(Paused!vars) PROVE PausedInv'
  OBVIOUS
<1>1. CASE Paused!SkipsNull
  BY <1>1, SkipsNullKeeps
<1>2. CASE Paused!StartsNode
  BY <1>2, StartsNodeKeeps
<1>3. CASE Paused!LeafAnswers
  BY <1>3, LeafAnswersKeeps
<1>4. CASE Paused!LeafDies
  BY <1>4, LeafDiesKeeps
<1>5. CASE Paused!NextAttempt
  BY <1>5, NextAttemptKeeps
<1>6. CASE Paused!Gate
  BY <1>6, GateKeeps
<1>7. CASE Paused!UserPauses
  BY <1>7, UserPausesKeeps
<1>8. CASE Paused!Seal
  BY <1>8, PausedSealKeeps
<1>9. CASE Paused!Crash
  BY <1>9, PausedCrashKeeps
<1>10. CASE Paused!Outage
  BY <1>10, PausedStutters DEF Paused!Outage
<1>11. CASE Paused!ResumeBare
  BY <1>11, ResumeBareKeeps
<1>12. CASE Paused!ResumeAnswered
  BY <1>12, ResumeAnsweredKeeps
<1>13. CASE Paused!ResumeLegacy
  BY <1>13, ResumeLegacyKeeps
<1>14. CASE Paused!ResumeAdapted
  BY <1>14, ResumeAdaptedKeeps
<1>15. CASE Paused!AnswerRoute
  BY <1>15, AnswerRouteKeeps
<1>16. CASE Paused!AbortRoute
  BY <1>16, AbortRouteKeeps
<1>17. CASE UNCHANGED Paused!vars
  BY <1>17, PausedStutters DEF Paused!vars
<1> QED BY <1>1, <1>2, <1>3, <1>4, <1>5, <1>6, <1>7, <1>8, <1>9, <1>10, <1>11, <1>12,
           <1>13, <1>14, <1>15, <1>16, <1>17 DEF Paused!PausedNext

PausedPart == part = "paused" => PausedInv

\* The paused run's part never leaves the invariant.
LEMMA PausedHolds == Spec => []PausedPart
<1>1. Init => PausedPart
  BY PausedInitially DEF Init, PausedPart
<1>2. PausedPart /\ [Next]_vars => PausedPart'
  <2> SUFFICES ASSUME PausedPart, [Next]_vars, part' = "paused" PROVE PausedInv'
    BY DEF PausedPart
  <2>1. part = "paused" /\ [Paused!PausedNext]_(Paused!vars)
    <3>1. CASE Next
      BY <3>1 DEF Next
    <3>2. CASE UNCHANGED vars
      BY <3>2 DEF vars, after4, after7, Paused!vars
    <3> QED BY <3>1, <3>2
  <2> QED BY <2>1, PausedStep DEF PausedPart
<1> QED BY <1>1, <1>2, PTL DEF Spec

\* A gate is open only on what a human said to that very gate, or on the default
\* an unguarded one declares, and a guarded one only on what it accepts: for any
\* spec and any answers, whatever label, old question, crash or resume they came by.
THEOREM RecordsOpenGatesOnWord == Spec => []GatesOpenOnHumanWord
<1>1. PausedPart => GatesOpenOnHumanWord
  BY PausedSays DEF PausedPart, GatesOpenOnHumanWord
<1> QED BY <1>1, PausedHolds, PTL

\* The envelope moves no dead route twice and the run no oftener than it may, sends
\* no node back to a route it died on, and a route pause names the route the spec on
\* file would take again: for any routes, prices, tiers, outages and resumes.
THEOREM RecordsAuthoriseMoves == Spec => []MovesAreAuthorised
<1>1. PausedPart => MovesAreAuthorised
  BY PausedSays DEF PausedPart, MovesAreAuthorised
<1> QED BY <1>1, PausedHolds, PTL
===============================================================================
