--------------------------- MODULE AgentTurnProofs ---------------------------
(***************************************************************************)
(* Theorems about AgentTurn, for any provider APIs, any number of requests,*)
(* tools and workers, and any window.                                      *)
(***************************************************************************)
EXTENDS AgentTurn, FiniteSetTheorems, TLAPS

CallId == Nat \X Slot
Message == [role : {"user", "assistant", "tool"}, ids : SUBSET CallId, text : BOOLEAN]
Flow == {"top", "prepare", "send", "stream", "reply", "tools", "end", "dead"}
TurnRow ==
    [pc : Flow, n : Nat, latch : BOOLEAN, stop : Reason \cup {"none"}, error : BOOLEAN,
     interrupted : BOOLEAN, total : Nat, complete : BOOLEAN, uncertain : BOOLEAN]

TurnShapes ==
    /\ mode \in [dialect : Dialect, streams : BOOLEAN, forced : BOOLEAN, dispatch : BOOLEAN,
              sameFile : BOOLEAN]
    /\ agent \in [interrupt : BOOLEAN, steers : Nat, inbox : Nat]
    /\ turn \in TurnRow
    /\ stream \in [slot : [Slot -> {"none", "partial", "whole"}],
                   finish : Reason \cup {"none"}, receipt : BOOLEAN]
    /\ tools \in [queued : SUBSET CallId, running : SUBSET CallId, done : SUBSET CallId,
                  ran : Seq(CallId)]
    /\ billed \in [calls : Nat, summaries : Nat]
    /\ asked \in [n : Nat, dispatched : BOOLEAN]

Calls(f, i) == f[i].role = "assistant"

\* Messages by place: a result answers one call, and no two messages make one call.
Conversation(f) ==
    /\ IsFiniteSet(DOMAIN f) /\ DOMAIN f \subseteq Nat
    /\ \A i \in DOMAIN f : f[i] \in Message
    /\ \A i \in DOMAIN f : f[i].role = "tool" => \E id \in f[i].ids : f[i].ids = {id}
    /\ \A i, k \in DOMAIN f : Calls(f, i) /\ Calls(f, k) /\ i # k => f[i].ids \cap f[k].ids = {}

\* The results that follow a place, among the messages at S.
Follow(f, S, i) == {m \in S : m > i /\ \A j \in S : i < j /\ j <= m => f[j].role = "tool"}

\* HistoryReplays, of the messages at S.
Replays(f, S) ==
    /\ \A i \in S : Calls(f, i) =>
         /\ \A id \in f[i].ids : \E m \in Follow(f, S, i) : id \in f[m].ids
         /\ \A m \in Follow(f, S, i) : f[m].ids \subseteq f[i].ids
    /\ \A m \in S : f[m].role = "tool" => \E i \in S : Calls(f, i) /\ m \in Follow(f, S, i)

\* No call is of a request still to come.
Past(f, n) == \A i \in DOMAIN f : Calls(f, i) => \A id \in f[i].ids : id[1] <= n

Batch == tools.queued \cup tools.running \cup tools.done
Answering == turn.pc \in {"stream", "reply"}

(* The history replays but while the batch of its last message runs, and   *)
(* but for a last message whose calls nobody was there to dispatch.        *)
Telling ==
    /\ Conversation(hist.at)
    /\ hist.next \in Nat /\ \A i \in DOMAIN hist.at : i < hist.next
    /\ Past(hist.at, IF Answering THEN turn.n - 1 ELSE turn.n)
    /\ turn.pc \notin {"tools", "dead"} =>
         \/ Replays(hist.at, DOMAIN hist.at)
         \/ Undispatched /\ Replays(hist.at, DOMAIN hist.at \ {hist.next - 1})
    /\ turn.pc = "tools" =>
         /\ hist.next - 1 \in DOMAIN hist.at /\ Calls(hist.at, hist.next - 1)
         /\ hist.at[hist.next - 1].ids = Batch
         /\ Replays(hist.at, DOMAIN hist.at \ {hist.next - 1})

(* The batch is of this request, and of whole calls; what ran is not in it.  *)
Working ==
    /\ turn.pc # "tools" => tools.queued = {}
    /\ turn.pc \notin {"tools", "dead"} => tools.running = {}
    /\ turn.pc = "tools" =>
         /\ stream.finish # "none"
         /\ \A id \in Batch : id[1] = turn.n /\ stream.slot[id[2]] = "whole"
    /\ \A i \in DOMAIN tools.ran :
         /\ tools.ran[i][1] <= turn.n
         /\ Answering => tools.ran[i][1] < turn.n
         /\ tools.ran[i] \notin tools.queued
         /\ \A id \in tools.queued :
              mode.sameFile /\ tools.ran[i][1] = id[1] => tools.ran[i][2] < id[2]
    /\ \A i, j \in DOMAIN tools.ran : i < j =>
         /\ tools.ran[i] # tools.ran[j]
         /\ mode.sameFile /\ tools.ran[i][1] = tools.ran[j][1] => tools.ran[i][2] < tools.ran[j][2]

(* Once told to stop, a turn has at most the request it was preparing.       *)
Stopping ==
    /\ turn.pc \in {"prepare", "send"} => turn.n < MaxIterations
    /\ turn.n <= MaxIterations
    /\ Live /\ ~agent.interrupt => asked.n = MaxIterations /\ asked.dispatched
    /\ Live /\ agent.interrupt =>
         /\ turn.pc \in {"prepare", "send"} => turn.n = asked.n
         /\ turn.pc = "tools" => turn.n = asked.n /\ asked.dispatched
    /\ turn.n <= asked.n + 1
    /\ \A i \in DOMAIN tools.ran :
         tools.ran[i][1] < asked.n \/ (tools.ran[i][1] = asked.n /\ asked.dispatched)

(* The response being read is billed, and not metered yet. *)
Metering ==
    /\ turn.total + (IF turn.pc = "stream" THEN 1 ELSE 0) <= billed.calls
    /\ turn.pc # "dead" /\ turn.complete =>
         turn.total + (IF turn.pc = "stream" THEN 1 ELSE 0) = billed.calls

\* What is replied to was an answer.
Replying == turn.pc = "reply" => Reading(stream).kind = "answer"

TurnInv == TurnShapes /\ Telling /\ Working /\ Stopping /\ Metering /\ Replying

\* A message keeps its role and, but for the calls that go, what it says.
Trimmed(g, f) ==
    \A i \in DOMAIN g :
        /\ i \in DOMAIN f
        /\ g[i] \in Message
        /\ g[i].role = f[i].role /\ g[i].ids \subseteq f[i].ids
        /\ g[i].role = "tool" => g[i].ids = f[i].ids

(* What _strip_orphan_tools leaves of any part of a history that replays,  *)
(* replays: a result kept has its call, and a call kept has its result.    *)
LEMMA StripKeeps ==
    ASSUME NEW f, Conversation(f), Replays(f, DOMAIN f), NEW S, S \subseteq DOMAIN f,
           NEW g, g = StripOrphans(Restrict(f, S))
    PROVE  DOMAIN g \subseteq S /\ Trimmed(g, f) /\ Replays(g, DOMAIN g)
<1> DEFINE C == UNION {f[i].ids : i \in {j \in S : f[j].role = "assistant"}}
           R == UNION {f[i].ids : i \in {j \in S : f[j].role = "tool"}}
           Stays(m) == CASE m.role = "tool" -> m.ids \subseteq C
                         [] m.role = "assistant" -> m.ids = {} \/ m.ids \cap R # {} \/ m.text
                         [] OTHER -> TRUE
           Trim(m) == IF m.role = "assistant" THEN [m EXCEPT !.ids = @ \cap R] ELSE m
           r == Restrict(f, S)
<1>1. DOMAIN r = S /\ \A i \in S : r[i] = f[i]
  BY DEF Restrict
<1>2. /\ UNION {r[i].ids : i \in {j \in DOMAIN r : r[j].role = "assistant"}} = C
      /\ UNION {r[i].ids : i \in {j \in DOMAIN r : r[j].role = "tool"}} = R
  BY <1>1
<1>3. g = [i \in {j \in DOMAIN r : Stays(r[j])} |-> Trim(r[i])]
  <2> DEFINE CC == UNION {r[i].ids : i \in {j \in DOMAIN r : r[j].role = "assistant"}}
             RR == UNION {r[i].ids : i \in {j \in DOMAIN r : r[j].role = "tool"}}
  <2>1. g = [i \in {j \in DOMAIN r :
                      CASE r[j].role = "tool" -> r[j].ids \subseteq CC
                        [] r[j].role = "assistant" ->
                             r[j].ids = {} \/ r[j].ids \cap RR # {} \/ r[j].text
                        [] OTHER -> TRUE} |->
              IF r[i].role = "assistant" THEN [r[i] EXCEPT !.ids = @ \cap RR] ELSE r[i]]
    <3>1. g = StripOrphans(r)
      OBVIOUS
    <3> HIDE DEF r
    <3> QED BY <3>1 DEF StripOrphans
  <2>2. CC = C /\ RR = R
    BY <1>2
  <2> HIDE DEF r, C, R, CC, RR
  <2> QED BY <2>1, <2>2
<1>4. /\ DOMAIN g = {j \in S : Stays(f[j])}
      /\ \A i \in DOMAIN g : g[i] = Trim(f[i])
  <2> HIDE DEF r, Stays, Trim
  <2> QED BY <1>1, <1>3
<1> HIDE DEF r
<1>5. \A i \in DOMAIN g :
        /\ i \in S /\ f[i] \in Message /\ g[i] \in Message /\ g[i].role = f[i].role
        /\ f[i].role = "assistant" => g[i].ids = f[i].ids \cap R
        /\ f[i].role # "assistant" => g[i] = f[i]
        /\ f[i].role = "tool" => f[i].ids \subseteq C
  <2> TAKE i \in DOMAIN g
  <2>1. i \in S /\ f[i] \in Message /\ g[i] = Trim(f[i]) /\ Stays(f[i])
    <3> HIDE DEF Trim, Stays
    <3> QED BY <1>4 DEF Conversation
  <2>2. f[i].role = "tool" => f[i].ids \subseteq C
    <3> HIDE DEF C, R
    <3> QED BY <2>1
  <2>3. ASSUME f[i].role = "assistant"
        PROVE  g[i].ids = f[i].ids \cap R /\ g[i].role = f[i].role /\ g[i] \in Message
    <3> HIDE DEF Stays, C, R
    <3>1. g[i] = [f[i] EXCEPT !.ids = f[i].ids \cap R]
      BY <2>1, <2>3
    <3> QED BY <2>1, <2>3, <3>1 DEF Message
  <2>4. f[i].role # "assistant" => g[i] = f[i]
    <3> HIDE DEF Stays, C, R
    <3> QED BY <2>1
  <2> HIDE DEF Stays, Trim, C, R
  <2> QED BY <2>1, <2>2, <2>3, <2>4
<1>6. /\ \A i \in S : f[i].role = "tool" /\ f[i].ids \subseteq C => i \in DOMAIN g
      /\ \A i \in S : f[i].role = "assistant" /\ f[i].ids \cap R # {} => i \in DOMAIN g
  <2>1. \A i \in S : f[i].role = "tool" /\ f[i].ids \subseteq C => Stays(f[i])
    OBVIOUS
  <2>2. \A i \in S : f[i].role = "assistant" /\ f[i].ids \cap R # {} => Stays(f[i])
    OBVIOUS
  <2> HIDE DEF Stays, Trim, C, R
  <2> QED BY <2>1, <2>2, <1>4
<1> HIDE DEF Stays, Trim
<1>7. /\ \A id \in C : \E i \in S : Calls(f, i) /\ id \in f[i].ids
      /\ \A i \in S : Calls(f, i) => f[i].ids \subseteq C
      /\ \A id \in R : \E m \in S : f[m].role = "tool" /\ id \in f[m].ids
      /\ \A m \in S : f[m].role = "tool" => f[m].ids \subseteq R
  BY DEF Calls
<1> HIDE DEF C, R
\* The calls of a result are those of the one message it follows.
<1>8. ASSUME NEW m \in S, f[m].role = "tool", NEW i \in S, Calls(f, i), NEW id \in f[m].ids,
             id \in f[i].ids
      PROVE  m \in Follow(f, DOMAIN f, i) /\ f[m].ids \subseteq f[i].ids
  <2>1. PICK k \in DOMAIN f : Calls(f, k) /\ m \in Follow(f, DOMAIN f, k)
    BY <1>8 DEF Replays
  <2>2. f[m].ids \subseteq f[k].ids
    BY <2>1 DEF Replays
  <2>3. k = i
    BY <1>8, <2>1, <2>2 DEF Conversation
  <2> QED BY <2>1, <2>2, <2>3
<1>9. ASSUME NEW m \in DOMAIN g, g[m].role = "tool"
      PROVE  \E i \in DOMAIN g : /\ Calls(g, i) /\ m \in Follow(f, DOMAIN f, i)
                                 /\ f[m].ids \subseteq f[i].ids
  <2>1. m \in S /\ f[m].role = "tool" /\ f[m].ids \subseteq C /\ m \in DOMAIN f
    BY <1>9, <1>5
  <2>2. PICK id \in f[m].ids : f[m].ids = {id}
    BY <2>1 DEF Conversation
  <2>3. PICK i \in S : Calls(f, i) /\ id \in f[i].ids
    BY <2>1, <2>2, <1>7
  <2>4. id \in R
    BY <2>1, <2>2, <1>7
  <2>5. i \in DOMAIN g
    BY <2>3, <2>4, <1>6 DEF Calls
  <2> QED BY <2>1, <2>2, <2>3, <2>5, <1>5, <1>8 DEF Calls
<1>10. ASSUME NEW i \in DOMAIN g, NEW m \in DOMAIN g, m \in Follow(f, DOMAIN f, i)
       PROVE  m \in Follow(g, DOMAIN g, i)
  BY <1>10, <1>5 DEF Follow
<1>11. ASSUME NEW i \in DOMAIN g, Calls(g, i), NEW m \in Follow(g, DOMAIN g, i)
       PROVE  m \in Follow(f, DOMAIN f, i) /\ f[m].ids \subseteq f[i].ids /\ g[m] = f[m]
                /\ f[m].role = "tool" /\ m \in S
  <2>1. m \in DOMAIN g /\ m > i /\ i \in Nat /\ m \in Nat /\ g[m].role = "tool"
    BY <1>5 DEF Follow, Conversation
  <2>2. PICK k \in DOMAIN g : /\ Calls(g, k) /\ m \in Follow(f, DOMAIN f, k)
                              /\ f[m].ids \subseteq f[k].ids
    BY <2>1, <1>9
  <2>3. k \in Nat /\ k < m /\ i \in DOMAIN f /\ k \in DOMAIN f
    BY <2>2, <1>5 DEF Follow, Conversation
  <2>4. ~(i < k)
    BY <2>1, <2>2, <2>3 DEF Follow, Calls
  <2>5. ~(k < i)
    BY <2>1, <2>2, <2>3, <1>5, <1>11 DEF Follow, Calls
  <2>6. k = i
    BY <2>1, <2>3, <2>4, <2>5
  <2> QED BY <2>1, <2>2, <2>6, <1>5
<1>12. ASSUME NEW i \in DOMAIN g, Calls(g, i)
       PROVE  /\ \A id \in g[i].ids : \E m \in Follow(g, DOMAIN g, i) : id \in g[m].ids
              /\ \A m \in Follow(g, DOMAIN g, i) : g[m].ids \subseteq g[i].ids
  <2>1. g[i].ids = f[i].ids \cap R /\ Calls(f, i) /\ i \in S /\ i \in DOMAIN f
    BY <1>12, <1>5 DEF Calls
  <2>2. ASSUME NEW id \in g[i].ids PROVE \E m \in Follow(g, DOMAIN g, i) : id \in g[m].ids
    <3>1. PICK m \in S : f[m].role = "tool" /\ id \in f[m].ids
      BY <2>1, <2>2, <1>7
    <3>2. m \in Follow(f, DOMAIN f, i) /\ f[m].ids \subseteq f[i].ids
      BY <2>1, <2>2, <3>1, <1>8
    <3>3. f[m].ids \subseteq C
      BY <2>1, <3>2, <1>7
    <3>4. m \in DOMAIN g
      BY <3>1, <3>3, <1>6
    <3> QED BY <3>1, <3>2, <3>4, <1>5, <1>10
  <2>3. ASSUME NEW m \in Follow(g, DOMAIN g, i) PROVE g[m].ids \subseteq g[i].ids
    BY <2>1, <1>7, <1>11, <1>12
  <2> QED BY <2>2, <2>3
<1>13. \A m \in DOMAIN g : g[m].role = "tool" =>
         \E i \in DOMAIN g : Calls(g, i) /\ m \in Follow(g, DOMAIN g, i)
  BY <1>9, <1>10
<1>14. Replays(g, DOMAIN g)
  BY <1>12, <1>13 DEF Replays
<1>15. Trimmed(g, f)
  BY <1>5 DEF Trimmed
<1> QED BY <1>5, <1>14, <1>15

\* Of a history's messages some stay where they are, with no more calls.
Lessens(g, f) ==
    /\ DOMAIN g \subseteq DOMAIN f
    /\ \A i \in DOMAIN g : Calls(g, i) => Calls(f, i) /\ g[i].ids \subseteq f[i].ids

LEMMA RanksAscend ==
    ASSUME NEW h, Conversation(h.at), NEW i \in DOMAIN h.at, NEW k \in DOMAIN h.at, i <= k
    PROVE  /\ Rank(h, i) \in Nat /\ Rank(h, k) \in Nat
           /\ Rank(h, i) <= Rank(h, k)
           /\ Size(h) \in Nat
<1> DEFINE D == DOMAIN h.at
           A == {j \in D : j <= i}
           B == {j \in D : j <= k}
<1>1. IsFiniteSet(D) /\ D \subseteq Nat
  BY DEF Conversation
<1>2. A \in SUBSET B /\ B \in SUBSET D
  BY <1>1
<1>3. IsFiniteSet(B)
  BY <1>1, <1>2, FS_Subset
<1>4. IsFiniteSet(A) /\ Cardinality(A) <= Cardinality(B)
  BY <1>2, <1>3, FS_Subset
<1>5. Cardinality(A) \in Nat /\ Cardinality(B) \in Nat /\ Cardinality(D) \in Nat
  BY <1>1, <1>3, <1>4, FS_CardinalityType
<1>6. Rank(h, i) = Cardinality(A)
  BY DEF Rank
<1>7. Rank(h, k) = Cardinality(B)
  BY DEF Rank
<1>8. Size(h) = Cardinality(D)
  BY DEF Size
<1> HIDE DEF A, B, D
<1> QED BY <1>4, <1>5, <1>6, <1>7, <1>8

\* The head ends before the message the summary replaces, and the tail starts after it.
LEMMA SummaryParts ==
    ASSUME NEW h, Conversation(h.at), KeepFirst \in Nat, KeepLast \in Nat,
           Size(h) > KeepFirst + KeepLast,
           NEW middle \in DOMAIN h.at, Rank(h, middle) = KeepFirst + 1
    PROVE  /\ \A i \in First(h) : i \in DOMAIN h.at /\ i < middle
           /\ \A k \in Last(h) : k \in DOMAIN h.at /\ middle < k
<1>1. \A i \in DOMAIN h.at : i \in Nat
  BY DEF Conversation
<1>2. ASSUME NEW i \in First(h) PROVE i \in DOMAIN h.at /\ i < middle
  <2>1. i \in DOMAIN h.at /\ Rank(h, i) <= KeepFirst
    BY DEF First
  <2>2. ASSUME middle <= i PROVE FALSE
    <3>1. Rank(h, middle) <= Rank(h, i) /\ Rank(h, i) \in Nat
      BY <2>1, <2>2, RanksAscend
    <3> QED BY <2>1, <3>1
  <2> QED BY <1>1, <2>1, <2>2
<1>3. ASSUME NEW k \in Last(h) PROVE k \in DOMAIN h.at /\ middle < k
  <2>1. k \in DOMAIN h.at /\ Rank(h, k) > Size(h) - KeepLast
    BY DEF Last
  <2>2. ASSUME k <= middle PROVE FALSE
    <3>1. /\ Rank(h, k) <= Rank(h, middle) /\ Rank(h, k) \in Nat
          /\ Size(h) \in Nat
      BY <2>1, <2>2, RanksAscend
    <3> QED BY <2>1, <3>1
  <2> QED BY <1>1, <2>1, <2>2
<1> QED BY <1>2, <1>3

\* A message that is no result parts what is before it from what is after it.
LEMMA PartsReplay ==
    ASSUME NEW f, NEW x, NEW y, NEW S, NEW T, NEW middle,
           S \subseteq Nat, T \subseteq Nat, middle \in Nat,
           \A i \in S : i < middle, \A k \in T : middle < k,
           Replays(x, S), Replays(y, T),
           \A i \in S : f[i] = x[i], \A k \in T : f[k] = y[k],
           f[middle].role = "user"
    PROVE  Replays(f, S \cup {middle} \cup T)
<1> DEFINE D == S \cup {middle} \cup T
<1>1. ASSUME NEW i \in S PROVE Follow(f, D, i) = Follow(x, S, i)
  <2>1. \A m \in D : m \in Nat
    OBVIOUS
  <2>2. ASSUME NEW m \in Follow(f, D, i) PROVE m \in Follow(x, S, i)
    <3>1. m \in D /\ m > i /\ m \in Nat /\ \A j \in D : i < j /\ j <= m => f[j].role = "tool"
      BY <2>1 DEF Follow
    <3>2. ~(middle <= m)
      BY Zenon, <3>1
    <3>3. m \in S
      BY <3>1, <3>2
    <3> QED BY <3>1, <3>3 DEF Follow
  <2>3. ASSUME NEW m \in Follow(x, S, i) PROVE m \in Follow(f, D, i)
    <3>1. m \in S /\ m > i /\ m \in Nat /\ \A j \in S : i < j /\ j <= m => x[j].role = "tool"
      BY DEF Follow
    <3>2. \A j \in D : j <= m => j \in S
      BY <3>1
    <3> QED BY <3>1, <3>2 DEF Follow
  <2> QED BY Zenon, <2>2, <2>3
<1>2. ASSUME NEW i \in T PROVE Follow(f, D, i) = Follow(y, T, i)
  <2>1. ASSUME NEW j \in D, j > i PROVE j \in T
    <3>1. i \in Nat /\ middle < i
      OBVIOUS
    <3>2. CASE j \in S
      <4>1. j \in Nat /\ j < middle
        BY <3>2
      <4> QED BY <2>1, <3>1, <4>1
    <3>3. CASE j = middle
      BY <2>1, <3>1, <3>3
    <3> QED BY <3>2, <3>3
  <2> QED BY Zenon, <2>1 DEF Follow
<1>3. /\ \A i \in S : \A m \in Follow(x, S, i) : m \in S
      /\ \A i \in T : \A m \in Follow(y, T, i) : m \in T
  BY DEF Follow
<1>4. ASSUME NEW i \in D, Calls(f, i)
      PROVE  /\ \A id \in f[i].ids : \E m \in Follow(f, D, i) : id \in f[m].ids
             /\ \A m \in Follow(f, D, i) : f[m].ids \subseteq f[i].ids
  <2>1. i # middle
    BY <1>4 DEF Calls
  <2>2. CASE i \in S
    <3>1. f[i] = x[i] /\ Follow(f, D, i) = Follow(x, S, i)
      BY <1>1, <2>2
    <3>2. \A m \in Follow(f, D, i) : f[m] = x[m]
      BY Zenon, <1>3, <2>2, <3>1
    <3>3. /\ \A id \in x[i].ids : \E m \in Follow(x, S, i) : id \in x[m].ids
          /\ \A m \in Follow(x, S, i) : x[m].ids \subseteq x[i].ids
      BY <1>4, <2>2, <3>1 DEF Replays, Calls
    <3> HIDE DEF D
    <3> QED BY <3>1, <3>2, <3>3
  <2>3. CASE i \in T
    <3>1. f[i] = y[i] /\ Follow(f, D, i) = Follow(y, T, i)
      BY <1>2, <2>3
    <3>2. \A m \in Follow(f, D, i) : f[m] = y[m]
      BY Zenon, <1>3, <2>3, <3>1
    <3>3. /\ \A id \in y[i].ids : \E m \in Follow(y, T, i) : id \in y[m].ids
          /\ \A m \in Follow(y, T, i) : y[m].ids \subseteq y[i].ids
      BY <1>4, <2>3, <3>1 DEF Replays, Calls
    <3> HIDE DEF D
    <3> QED BY <3>1, <3>2, <3>3
  <2> QED BY Zenon, <2>1, <2>2, <2>3
<1>5. ASSUME NEW m \in D, f[m].role = "tool" PROVE \E i \in D : Calls(f, i) /\ m \in Follow(f, D, i)
  <2>1. m # middle
    BY <1>5
  <2>2. CASE m \in S
    <3>1. PICK i \in S : Calls(x, i) /\ m \in Follow(x, S, i)
      BY <1>5, <2>2 DEF Replays
    <3> QED BY <1>1, <3>1 DEF Calls
  <2>3. CASE m \in T
    <3>1. PICK i \in T : Calls(y, i) /\ m \in Follow(y, T, i)
      BY <1>5, <2>3 DEF Replays
    <3> QED BY Zenon, <1>2, <3>1 DEF Calls
  <2> QED BY <2>1, <2>2, <2>3
<1> QED BY Zenon, <1>4, <1>5 DEF Replays

\* A compacted history is one a provider replays, as the whole one was.
LEMMA CompressKeeps ==
    ASSUME NEW h, Conversation(h.at), Replays(h.at, DOMAIN h.at),
           KeepFirst \in Nat, KeepLast \in Nat, NEW small \in Compress(h)
    PROVE  /\ Conversation(small.at) /\ Replays(small.at, DOMAIN small.at)
           /\ Lessens(small.at, h.at) /\ small.next = h.next
<1>1. CASE Size(h) <= KeepFirst + KeepLast
  <2>1. small = h
    BY <1>1 DEF Compress
  <2> QED BY <2>1 DEF Lessens
<1>2. CASE ~(Size(h) <= KeepFirst + KeepLast)
  <2>1. PICK middle \in DOMAIN h.at :
          small = Around(h, middle) /\ Rank(h, middle) = KeepFirst + 1
    BY <1>2 DEF Compress
  <2>2. Size(h) \in Nat /\ middle \in Nat /\ DOMAIN h.at \subseteq Nat
    <3>1. DOMAIN h.at \subseteq Nat /\ middle \in Nat /\ middle <= middle
      BY DEF Conversation
    <3> QED BY <3>1, RanksAscend
  <2>3. Size(h) > KeepFirst + KeepLast
    BY <1>2, <2>2
  <2>4. /\ \A i \in First(h) : i \in DOMAIN h.at /\ i < middle
        /\ \A k \in Last(h) : k \in DOMAIN h.at /\ middle < k
    BY <2>1, <2>3, SummaryParts
  <2> DEFINE head == StripOrphans(Restrict(h.at, First(h)))
             tail == StripOrphans(Restrict(h.at, Last(h)))
             D == DOMAIN head \cup {middle} \cup DOMAIN tail
  <2>5. DOMAIN head \subseteq First(h) /\ Trimmed(head, h.at) /\ Replays(head, DOMAIN head)
    <3>1. First(h) \subseteq DOMAIN h.at
      BY <2>4
    <3> QED BY <3>1, StripKeeps
  <2>6. DOMAIN tail \subseteq Last(h) /\ Trimmed(tail, h.at) /\ Replays(tail, DOMAIN tail)
    <3>1. Last(h) \subseteq DOMAIN h.at
      BY <2>4
    <3> QED BY <3>1, StripKeeps
  <2>7. /\ small.at = [i \in D |-> IF i \in DOMAIN head THEN head[i]
                                   ELSE IF i \in DOMAIN tail THEN tail[i] ELSE User]
        /\ small.next = h.next
    BY <2>1 DEF Around
  <2> HIDE DEF head, tail
  <2>8. /\ DOMAIN small.at = D /\ D \subseteq DOMAIN h.at
        /\ \A i \in DOMAIN head : small.at[i] = head[i] /\ i < middle
        /\ \A k \in DOMAIN tail : small.at[k] = tail[k] /\ middle < k
        /\ small.at[middle] = User
    <3>1. /\ \A i \in DOMAIN head : i \in DOMAIN h.at /\ i < middle
          /\ \A k \in DOMAIN tail : k \in DOMAIN h.at /\ middle < k
      BY <2>4, <2>5, <2>6
    <3>2. /\ \A k \in DOMAIN tail : k \notin DOMAIN head
          /\ middle \notin DOMAIN head /\ middle \notin DOMAIN tail
      BY <2>2, <3>1
    <3> QED BY <2>7, <3>1, <3>2
  <2>9. /\ User \in Message /\ User.role = "user" /\ User.ids = {}
    BY DEF User, Message
  <2>10. Replays(small.at, DOMAIN small.at)
    <3>1. DOMAIN head \subseteq Nat /\ DOMAIN tail \subseteq Nat
      BY <2>2, <2>8
    <3>2. Replays(small.at, D)
      BY <2>2, <2>5, <2>6, <2>8, <2>9, <3>1, PartsReplay
    <3> QED BY <2>8, <3>2
  <2>11. \A i \in DOMAIN small.at :
           /\ i \in DOMAIN h.at /\ small.at[i] \in Message
           /\ \/ small.at[i] = User
              \/ /\ small.at[i].role = h.at[i].role /\ small.at[i].ids \subseteq h.at[i].ids
                 /\ small.at[i].role = "tool" => small.at[i].ids = h.at[i].ids
    BY <2>5, <2>6, <2>8, <2>9 DEF Trimmed
  <2>12. Lessens(small.at, h.at)
    BY <2>8, <2>9, <2>11 DEF Lessens, Calls
  <2>13. Conversation(small.at)
    <3>1. IsFiniteSet(DOMAIN small.at) /\ DOMAIN small.at \subseteq Nat
      <4>1. IsFiniteSet(DOMAIN h.at) /\ DOMAIN small.at \in SUBSET DOMAIN h.at
        BY <2>8 DEF Conversation
      <4> QED BY <2>2, <4>1, FS_Subset
    <3>2. \A i \in DOMAIN small.at : small.at[i].role = "tool" =>
            \E id \in small.at[i].ids : small.at[i].ids = {id}
      BY <2>9, <2>11 DEF Conversation
    <3>3. \A i, k \in DOMAIN small.at :
            Calls(small.at, i) /\ Calls(small.at, k) /\ i # k =>
              small.at[i].ids \cap small.at[k].ids = {}
      <4>1. ASSUME NEW i \in DOMAIN small.at, NEW k \in DOMAIN small.at,
                   Calls(small.at, i), Calls(small.at, k), i # k
            PROVE  small.at[i].ids \cap small.at[k].ids = {}
        <5>1. /\ i \in DOMAIN h.at /\ Calls(h.at, i) /\ small.at[i].ids \subseteq h.at[i].ids
              /\ k \in DOMAIN h.at /\ Calls(h.at, k) /\ small.at[k].ids \subseteq h.at[k].ids
          BY <2>12, <4>1 DEF Lessens
        <5>2. h.at[i].ids \cap h.at[k].ids = {}
          BY <4>1, <5>1 DEF Conversation
        <5> QED BY <5>1, <5>2
      <4> QED BY <4>1
    <3> QED BY <2>11, <3>1, <3>2, <3>3 DEF Conversation
  <2> QED BY <2>7, <2>10, <2>12, <2>13
<1> QED BY <1>1, <1>2

\* A message that is no result is said after the others.
LEMMA PlusKeeps ==
    ASSUME NEW h, Conversation(h.at), h.next \in Nat, \A i \in DOMAIN h.at : i < h.next,
           NEW m \in Message, m.role # "tool",
           \A i \in DOMAIN h.at : Calls(h.at, i) => h.at[i].ids \cap m.ids = {}
    PROVE  /\ Conversation(Plus(h, m).at)
           /\ Plus(h, m).next = h.next + 1
           /\ DOMAIN Plus(h, m).at = DOMAIN h.at \cup {h.next}
           /\ Plus(h, m).at[h.next] = m
           /\ \A i \in DOMAIN h.at : Plus(h, m).at[i] = h.at[i]
           /\ \A i \in DOMAIN Plus(h, m).at : i < h.next + 1
<1> DEFINE p == Plus(h, m)
<1>1. /\ p.next = h.next + 1
      /\ p.at = [i \in DOMAIN h.at \cup {h.next} |-> IF i = h.next THEN m ELSE h.at[i]]
  BY DEF Plus
<1> HIDE DEF p
<1>2. /\ DOMAIN p.at = DOMAIN h.at \cup {h.next}
      /\ p.at[h.next] = m
      /\ \A i \in DOMAIN h.at : p.at[i] = h.at[i]
  <2>1. h.next \notin DOMAIN h.at
    OBVIOUS
  <2> QED BY <1>1, <2>1
<1>3. DOMAIN h.at \subseteq Nat /\ IsFiniteSet(DOMAIN h.at) /\ h.next \notin DOMAIN h.at
  BY DEF Conversation
<1>4. \A i \in DOMAIN p.at : i < h.next + 1
  BY <1>2, <1>3
<1>5. IsFiniteSet(DOMAIN p.at) /\ DOMAIN p.at \subseteq Nat
  BY <1>2, <1>3, FS_AddElement
<1>6. \A i \in DOMAIN p.at : p.at[i] \in Message
  BY <1>2 DEF Conversation
<1>7. \A i \in DOMAIN p.at : p.at[i].role = "tool" => \E id \in p.at[i].ids : p.at[i].ids = {id}
  BY <1>2 DEF Conversation
<1>8. \A i, k \in DOMAIN p.at : Calls(p.at, i) /\ Calls(p.at, k) /\ i # k =>
        p.at[i].ids \cap p.at[k].ids = {}
  <2> TAKE i, k \in DOMAIN p.at
  <2> HAVE Calls(p.at, i) /\ Calls(p.at, k) /\ i # k
  <2>1. CASE i \in DOMAIN h.at /\ k \in DOMAIN h.at
    BY <1>2, <2>1 DEF Conversation, Calls
  <2>2. CASE i = h.next /\ k \in DOMAIN h.at
    BY <1>2, <2>2 DEF Calls
  <2>3. CASE i \in DOMAIN h.at /\ k = h.next
    BY <1>2, <2>3 DEF Calls
  <2> QED BY <1>2, <2>1, <2>2, <2>3
<1>9. Conversation(p.at)
  BY <1>5, <1>6, <1>7, <1>8 DEF Conversation
<1> QED BY <1>1, <1>2, <1>4, <1>9 DEF p

\* What replays does so as long as none of its messages changes.
LEMMA SameReplays ==
    ASSUME NEW f, NEW g, NEW S, Replays(f, S), \A i \in S : g[i] = f[i]
    PROVE  Replays(g, S)
<1>1. \A i \in S : Follow(g, S, i) = Follow(f, S, i) /\ Follow(f, S, i) \subseteq S
  BY DEF Follow
<1>2. ASSUME NEW i \in S, Calls(g, i)
      PROVE  /\ \A id \in g[i].ids : \E m \in Follow(g, S, i) : id \in g[m].ids
             /\ \A m \in Follow(g, S, i) : g[m].ids \subseteq g[i].ids
  BY <1>1, <1>2 DEF Replays, Calls
<1>3. \A m \in S : g[m].role = "tool" => \E i \in S : Calls(g, i) /\ m \in Follow(g, S, i)
  BY <1>1 DEF Replays, Calls
<1> QED BY <1>2, <1>3 DEF Replays

\* A message that calls nothing leaves what was said before it as it was.
LEMMA PlusReplays ==
    ASSUME NEW g, NEW S, S \subseteq Nat, NEW next \in Nat, \A i \in S : i < next,
           Replays(g, S), g[next].role # "tool", g[next].ids = {}
    PROVE  Replays(g, S \cup {next})
<1> DEFINE D == S \cup {next}
<1>1. ASSUME NEW i \in S PROVE Follow(g, D, i) = Follow(g, S, i)
  <2>1. i \in Nat /\ i < next /\ \A m \in S : m \in Nat /\ m < next
    OBVIOUS
  <2>2. ASSUME NEW m \in Follow(g, D, i) PROVE m \in Follow(g, S, i)
    <3>1. m \in D /\ m > i /\ \A j \in D : i < j /\ j <= m => g[j].role = "tool"
      BY DEF Follow
    <3>2. m # next
      BY <2>1, <3>1
    <3> QED BY <3>1, <3>2 DEF Follow
  <2>3. ASSUME NEW m \in Follow(g, S, i) PROVE m \in Follow(g, D, i)
    <3>1. m \in S /\ m > i /\ \A j \in S : i < j /\ j <= m => g[j].role = "tool"
      BY DEF Follow
    <3>2. m \in Nat /\ m < next
      BY Zenon, <2>1, <3>1
    <3>3. ~(next <= m)
      BY <3>2
    <3> QED BY Zenon, <3>1, <3>3 DEF Follow
  <2> QED BY Zenon, <2>2, <2>3
<1>2. Follow(g, D, next) = {}
  <2>1. \A m \in D : ~(m > next)
    OBVIOUS
  <2> HIDE DEF D
  <2> QED BY <2>1 DEF Follow
<1>3. ASSUME NEW i \in D, Calls(g, i)
      PROVE  /\ \A id \in g[i].ids : \E m \in Follow(g, D, i) : id \in g[m].ids
             /\ \A m \in Follow(g, D, i) : g[m].ids \subseteq g[i].ids
  <2>1. CASE i = next
    BY <1>2, <2>1
  <2>2. CASE i \in S
    BY Zenon, <1>1, <1>3, <2>2 DEF Replays
  <2> QED BY <2>1, <2>2
<1>4. \A m \in D : g[m].role = "tool" => \E i \in D : Calls(g, i) /\ m \in Follow(g, D, i)
  BY ZenonT(40), <1>1 DEF Replays
<1> QED BY Zenon, <1>3, <1>4 DEF Replays

\* The results of a batch, each once, after the message that asked for them.
LEMMA JoinReplays ==
    ASSUME NEW g, NEW S, S \subseteq Nat, NEW last \in Nat, \A i \in S : i < last,
           Replays(g, S), g[last].role = "assistant",
           NEW places, places \subseteq Nat, \A i \in places : i > last,
           \A i \in places : g[i].role = "tool" /\ g[i].ids \subseteq g[last].ids,
           \A id \in g[last].ids : \E i \in places : id \in g[i].ids
    PROVE  Replays(g, S \cup {last} \cup places)
<1> DEFINE D == S \cup {last} \cup places
<1>0. /\ last \in Nat /\ \A k \in S : k \in Nat /\ k < last
      /\ \A k \in places : k \in Nat /\ last < k /\ k # last /\ ~(k < last) /\ last <= k
  <2>1. ASSUME NEW k \in S PROVE k \in Nat /\ k < last
    OBVIOUS
  <2>2. ASSUME NEW k \in places
        PROVE  k \in Nat /\ last < k /\ k # last /\ ~(k < last) /\ last <= k
    <3>1. k \in Nat /\ k > last
      OBVIOUS
    <3> QED BY <3>1
  <2> QED BY <2>1, <2>2
<1>1. ASSUME NEW i \in S PROVE Follow(g, D, i) = Follow(g, S, i)
  <2>1. ASSUME NEW m \in Follow(g, D, i) PROVE m \in Follow(g, S, i)
    <3>1. m \in D /\ m > i /\ \A j \in D : i < j /\ j <= m => g[j].role = "tool"
      BY DEF Follow
    <3>2. last \in D /\ i < last /\ g[last].role # "tool"
      OBVIOUS
    <3>3. ~(last <= m)
      BY <3>1, <3>2
    <3>4. m # last /\ m \notin places
      <4>1. m \in Nat
        BY <3>1
      <4>2. m < last
        BY <1>0, <3>3, <4>1
      <4> QED BY <1>0, <4>1, <4>2
    <3>5. m \in S
      BY <3>1, <3>4
    <3> QED BY <3>1, <3>5 DEF Follow
  <2>2. ASSUME NEW m \in Follow(g, S, i) PROVE m \in Follow(g, D, i)
    <3>1. m \in S /\ m > i /\ \A j \in S : i < j /\ j <= m => g[j].role = "tool"
      BY DEF Follow
    <3>2. m < last /\ m \in Nat
      BY <1>0, <3>1
    <3>3. \A j \in D : j <= m => j \in S
      <4> TAKE j \in D
      <4>1. j = last => ~(j <= m)
        BY <1>0, <3>2
      <4>2. j \in places => ~(j <= m)
        BY <1>0, <3>2
      <4> QED BY <4>1, <4>2
    <3> QED BY <3>1, <3>3 DEF Follow
  <2> QED BY Zenon, <2>1, <2>2
<1>2. Follow(g, D, last) = places
  <2>1. \A j \in D : j > last <=> j \in places
    OBVIOUS
  <2> QED BY Zenon, <2>1 DEF Follow
<1>3. ASSUME NEW i \in D, Calls(g, i)
      PROVE  /\ \A id \in g[i].ids : \E m \in Follow(g, D, i) : id \in g[m].ids
             /\ \A m \in Follow(g, D, i) : g[m].ids \subseteq g[i].ids
  <2>1. CASE i = last
    BY Zenon, <1>2, <2>1
  <2>2. CASE i \in S
    BY Zenon, <1>1, <1>3, <2>2 DEF Replays
  <2> QED BY Zenon, <1>3, <2>1, <2>2 DEF Calls
<1>4. ASSUME NEW m \in D, g[m].role = "tool" PROVE \E i \in D : Calls(g, i) /\ m \in Follow(g, D, i)
  <2>1. CASE m \in S
    BY Zenon, <1>1, <1>4, <2>1 DEF Replays
  <2>2. CASE m \in places
    BY <1>2, <2>2 DEF Calls
  <2> QED BY Zenon, <1>4, <2>1, <2>2
<1> QED BY Zenon, <1>3, <1>4 DEF Replays

LEMMA TurnConstants ==
    ASSUME TurnAssumption
    PROVE  /\ MaxIterations \in Nat /\ MaxSlots \in Nat /\ KeepFirst \in Nat /\ KeepLast \in Nat
           /\ Dialect \subseteq {"chat", "anthropic", "responses"}
  BY DEF TurnAssumption

\* The rows of a turn that ends, in the fields the invariant reads.
LEMMA EndsRow ==
    ASSUME TurnAssumption, NEW t \in TurnRow, agent \in [interrupt : BOOLEAN, steers : Nat, inbox : Nat],
           Ends(t)
    PROVE  /\ turn' \in TurnRow /\ turn'.pc = "end" /\ turn'.n = t.n /\ turn'.total = t.total
           /\ turn'.complete = t.complete
           /\ agent' \in [interrupt : BOOLEAN, steers : Nat, inbox : Nat]
<1>1. /\ turn' = [t EXCEPT !.pc = "end"]
      /\ agent' = [agent EXCEPT !.interrupt = FALSE]
  BY DEF Ends
<1>2. /\ turn' \in TurnRow /\ turn'.pc = "end" /\ turn'.n = t.n /\ turn'.total = t.total
      /\ turn'.complete = t.complete
  BY <1>1 DEF TurnRow, Flow
<1> QED BY Zenon, <1>1, <1>2

LEMMA MovesTo ==
    ASSUME TurnAssumption, NEW t \in TurnRow, NEW pc \in Flow, NEW d, d = [t EXCEPT !.pc = pc]
    PROVE  /\ d \in TurnRow /\ d.pc = pc /\ d.n = t.n /\ d.total = t.total
           /\ d.complete = t.complete
  BY DEF TurnRow

LEMMA RowOfTurn ==
    ASSUME TurnAssumption, NEW t \in TurnRow
    PROVE  /\ t.pc \in Flow /\ t.n \in Nat /\ t.total \in Nat /\ t.complete \in BOOLEAN
           /\ t.error \in BOOLEAN /\ t.uncertain \in BOOLEAN
  BY DEF TurnRow

LEMMA RanIds ==
    ASSUME TurnAssumption, TurnShapes
    PROVE  /\ tools.ran \in Seq(CallId)
           /\ \A i \in DOMAIN tools.ran : tools.ran[i][1] \in Nat /\ tools.ran[i][2] \in Nat
           /\ \A id \in CallId : id[1] \in Nat /\ id[2] \in Nat /\ id[2] \in Slot
           /\ Batch \subseteq CallId
<1>1. \A id \in CallId : id[1] \in Nat /\ id[2] \in Nat /\ id[2] \in Slot
  BY TurnConstants DEF CallId, Slot
<1>2. tools.ran \in Seq(CallId) /\ Batch \subseteq CallId
  BY DEF TurnShapes, Batch
<1>3. \A i \in DOMAIN tools.ran : tools.ran[i] \in CallId
  BY <1>2
<1> QED BY <1>1, <1>2, <1>3

\* What a turn that neither speaks nor runs tools leaves of its history and its batch.
LEMMA SilenceKeeps ==
    ASSUME TurnAssumption, Telling, Working, TurnShapes, turn' \in TurnRow,
           hist' = hist, tools' = tools, mode' = mode,
           turn.pc \notin {"tools", "dead", "end"}, turn'.pc \notin {"tools", "dead"},
           \/ turn.n = turn'.n /\ (turn'.pc \in {"stream", "reply"} => turn.pc \in {"stream", "reply"})
           \/ turn'.n = turn.n + 1
    PROVE  Telling' /\ Working'
<1>1. turn.n \in Nat /\ turn'.n \in Nat /\ turn.n <= turn'.n
  BY RowOfTurn DEF TurnShapes
<1>2. Past(hist.at, IF Answering' THEN turn'.n - 1 ELSE turn'.n)
  <2>1. ASSUME NEW i \in DOMAIN hist.at, Calls(hist.at, i), NEW id \in hist.at[i].ids
        PROVE  id[1] <= (IF Answering' THEN turn'.n - 1 ELSE turn'.n)
    <3>1. id[1] <= (IF Answering THEN turn.n - 1 ELSE turn.n)
      BY <2>1 DEF Telling, Past
    <3>2. id[1] \in Nat
      <4>1. hist.at[i] \in Message
        BY <2>1 DEF Telling, Conversation
      <4> QED BY <4>1 DEF Message, CallId
    <3>3. CASE turn.n = turn'.n /\ (Answering' => Answering)
      BY <1>1, <3>1, <3>2, <3>3
    <3>4. CASE turn'.n = turn.n + 1
      BY <1>1, <3>1, <3>2, <3>4
    <3> QED BY <3>3, <3>4 DEF Answering
  <2> QED BY <2>1 DEF Past
<1>3. Telling'
  BY <1>2 DEF Telling, Undispatched, At
<1>4. \A i \in DOMAIN tools.ran :
        tools.ran[i][1] <= turn'.n /\ (Answering' => tools.ran[i][1] < turn'.n)
  BY <1>1, RanIds DEF Working, Answering
<1>5. Working'
  BY <1>4 DEF Working
<1> QED BY <1>3, <1>5

LEMMA Readings ==
    ASSUME TurnAssumption, TurnShapes,
           NEW got \in [slot : [Slot -> {"none", "partial", "whole"}],
                        finish : Reason \cup {"none"}, receipt : BOOLEAN]
    PROVE  /\ Reading(got).kind \in {"answer", "refused"}
           /\ Reading(got).receipt \in BOOLEAN
           /\ Reading(got).receipt => got.receipt
           /\ Reading(got).kind = "answer" =>
                /\ got.finish # "none" /\ Reading(got).finish \in Reason
                /\ Reading(got).slots \subseteq Slot
                /\ Reading(got).finish # "tool_calls" => Reading(got).slots = {}
<1>1. mode.dialect \in {"chat", "anthropic", "responses"}
  BY Zenon, TurnConstants DEF TurnShapes
<1>2. Whole(got) \subseteq Slot /\ Delivered(got) \subseteq Slot
  BY DEF Whole, Delivered
<1>3. CASE got.finish = "none"
  BY <1>3 DEF Reading, Refused, None, TurnShapes
<1>4. CASE got.finish # "none" /\ mode.dialect = "chat"
  <2>1. CASE mode.streams
    BY Zenon, <1>2, <1>4, <2>1 DEF Reading, Refused, Answer, None, Reason
  <2>2. CASE ~mode.streams
    BY <1>2, <1>4, <2>2 DEF Reading, Refused, Answer, None, Reason
  <2> QED BY <2>1, <2>2
<1>5. CASE got.finish # "none" /\ mode.dialect = "anthropic"
  BY <1>2, <1>5 DEF Reading, Refused, Answer, None, Reason
<1>6. CASE got.finish # "none" /\ mode.dialect = "responses"
  BY <1>2, <1>6 DEF Reading, Refused, Answer, None, Reason
<1> QED BY <1>1, <1>3, <1>4, <1>5, <1>6

LEMMA ReadStays ==
    ASSUME TurnAssumption, Replying, mode' = mode, stream' = stream, turn' = turn
    PROVE  Replying'
  BY Zenon DEF Replying, Reading, Whole, Delivered, Answer, Refused

LEMMA TopKeeps == ASSUME TurnAssumption, TurnInv, Top PROVE TurnInv'
<1> USE DEF TurnInv
<1>1. /\ turn.pc = "top" /\ turn \in TurnRow
      /\ mode' = mode /\ hist' = hist /\ stream' = stream /\ tools' = tools
      /\ billed' = billed /\ asked' = asked
      /\ turn.n \in Nat /\ turn.total \in Nat /\ MaxIterations \in Nat
  BY TurnConstants, RowOfTurn DEF TurnShapes, Top, At
<1>2. CASE turn.n = MaxIterations \/ (turn.n # MaxIterations /\ agent.interrupt)
  <2>1. PICK t \in {[turn EXCEPT !.error = TRUE], [turn EXCEPT !.interrupted = TRUE]} :
          Ends(t)
    BY <1>2 DEF Top
  <2>2. t \in TurnRow /\ t.n = turn.n /\ t.total = turn.total /\ t.complete = turn.complete
    BY Zenon, <1>1, <2>1 DEF TurnRow
  <2>3. /\ turn' \in TurnRow /\ turn'.pc = "end" /\ turn'.n = turn.n /\ turn'.total = turn.total
        /\ turn'.complete = turn.complete
        /\ agent' \in [interrupt : BOOLEAN, steers : Nat, inbox : Nat]
    BY <2>1, <2>2, EndsRow DEF TurnShapes
  <2>4. Telling' /\ Working'
    BY <1>1, <2>3, SilenceKeeps
  <2>5. TurnShapes'
    BY <1>1, <2>3 DEF TurnShapes
  <2>6. Stopping'
    BY <1>1, <2>3 DEF Stopping, Live
  <2>7. Metering' /\ Replying'
    BY <1>1, <2>3 DEF Metering, Replying
  <2> QED BY <2>4, <2>5, <2>6, <2>7
<1>3. CASE turn.n # MaxIterations /\ ~agent.interrupt
  <2>1. turn' = [turn EXCEPT !.pc = "prepare"] /\ agent' = agent
    BY <1>3 DEF Top
  <2>2. /\ turn' \in TurnRow /\ turn'.pc = "prepare" /\ turn'.n = turn.n
        /\ turn'.total = turn.total /\ turn'.complete = turn.complete
    BY <1>1, <2>1, MovesTo DEF Flow
  <2>3. Telling' /\ Working'
    BY <1>1, <2>2, SilenceKeeps
  <2>4. TurnShapes'
    BY <1>1, <2>1, <2>2 DEF TurnShapes
  <2>5. Stopping'
    BY <1>1, <1>3, <2>1, <2>2 DEF Stopping, Live
  <2>6. Metering' /\ Replying'
    BY <1>1, <2>2 DEF Metering, Replying
  <2> QED BY <2>3, <2>4, <2>5, <2>6
<1> QED BY <1>2, <1>3 DEF TurnShapes

\* A request that ends the turn, or that opens a stream.
LEMMA SendKeeps == ASSUME TurnAssumption, TurnInv, Send PROVE TurnInv'
<1> USE DEF TurnInv
<1>1. /\ turn.pc = "send" /\ turn \in TurnRow /\ turn.n < MaxIterations
      /\ mode' = mode /\ hist' = hist /\ tools' = tools /\ asked' = asked
      /\ turn.n \in Nat /\ turn.total \in Nat /\ MaxIterations \in Nat /\ billed \in [calls : Nat, summaries : Nat]
  BY TurnConstants, RowOfTurn DEF TurnShapes, Send, At, Stopping
<1>2. stream' \in [slot : [Slot -> {"none", "partial", "whole"}],
                   finish : Reason \cup {"none"}, receipt : BOOLEAN]
  BY DEF Send, Silent, None
<1>3. CASE billed' = [billed EXCEPT !.calls = @ + 1] /\ agent' = agent /\ turn' = [turn EXCEPT !.pc = "stream", !.n = @ + 1]
  <2>1. /\ turn' \in TurnRow /\ turn'.pc = "stream" /\ turn'.n = turn.n + 1
        /\ turn'.total = turn.total /\ turn'.complete = turn.complete
    <3>1. ASSUME NEW k \in Nat, NEW t, t = [turn EXCEPT !.pc = "stream", !.n = k]
          PROVE  /\ t \in TurnRow /\ t.pc = "stream" /\ t.n = k
                 /\ t.total = turn.total /\ t.complete = turn.complete
      BY Zenon, <1>1, <3>1 DEF TurnRow, Flow
    <3>2. turn.n + 1 \in Nat /\ turn' = [turn EXCEPT !.pc = "stream", !.n = turn.n + 1]
      BY <1>1, <1>3
    <3> HIDE DEF TurnInv
    <3> QED BY Zenon, <3>1, <3>2
  <2>2. Telling' /\ Working'
    BY <1>1, <2>1, SilenceKeeps
  <2>3. TurnShapes'
    BY <1>1, <1>2, <1>3, <2>1 DEF TurnShapes
  <2>4. Stopping'
    BY <1>1, <1>3, <2>1 DEF Stopping, Live, TurnShapes
  <2>5. Metering' /\ Replying'
    BY <1>1, <1>3, <2>1 DEF Metering, Replying
  <2> QED BY <2>2, <2>3, <2>4, <2>5
<1>4. CASE /\ billed' = billed
           /\ Ends([turn EXCEPT !.n = @ + 1, !.error = TRUE, !.complete = FALSE])
  <2>1. PICK t : t = [turn EXCEPT !.n = turn.n + 1, !.error = TRUE, !.complete = FALSE]
    OBVIOUS
  <2>2. t \in TurnRow /\ t.n = turn.n + 1 /\ t.total = turn.total /\ t.complete = FALSE
    <3>1. ASSUME NEW k \in Nat, NEW d, d = [turn EXCEPT !.n = k, !.error = TRUE, !.complete = FALSE]
          PROVE  d \in TurnRow /\ d.n = k /\ d.total = turn.total /\ d.complete = FALSE
      BY Zenon, <1>1, <3>1 DEF TurnRow
    <3>2. turn.n + 1 \in Nat
      BY <1>1
    <3> HIDE DEF TurnInv
    <3> QED BY Zenon, <2>1, <3>1, <3>2
  <2>3. Ends(t)
    BY <1>4, <2>1
  <2>4. /\ turn' \in TurnRow /\ turn'.pc = "end" /\ turn'.n = turn.n + 1
        /\ turn'.total = turn.total /\ turn'.complete = FALSE
        /\ agent' \in [interrupt : BOOLEAN, steers : Nat, inbox : Nat]
    BY <2>2, <2>3, EndsRow DEF TurnShapes
  <2>5. Telling' /\ Working'
    BY <1>1, <2>4, SilenceKeeps
  <2>6. TurnShapes'
    BY <1>1, <1>2, <1>4, <2>4 DEF TurnShapes
  <2>7. Stopping'
    BY <1>1, <2>4 DEF Stopping, Live, TurnShapes
  <2>8. Metering' /\ Replying'
    BY <1>1, <1>4, <2>4 DEF Metering, Replying
  <2> QED BY <2>5, <2>6, <2>7, <2>8
<1> QED BY <1>3, <1>4 DEF Send

\* A stream that is given up, by its turn or by its provider.
LEMMA StreamEnds ==
    ASSUME TurnAssumption, TurnInv, turn.pc = "stream", stream' = stream \/ stream' \in
             [slot : [Slot -> {"none", "partial", "whole"}],
              finish : Reason \cup {"none"}, receipt : BOOLEAN],
           NEW t \in TurnRow, t.n = turn.n, t.total \in {turn.total, turn.total + 1},
           t.complete = FALSE, Ends(t),
           mode' = mode, hist' = hist, tools' = tools, asked' = asked, billed' = billed
    PROVE  TurnInv'
<1> USE DEF TurnInv
<1>1. /\ turn' \in TurnRow /\ turn'.pc = "end" /\ turn'.n = turn.n
      /\ turn'.total = t.total /\ turn'.complete = FALSE
      /\ agent' \in [interrupt : BOOLEAN, steers : Nat, inbox : Nat]
  BY EndsRow DEF TurnShapes
<1>2. turn.n \in Nat /\ turn.total \in Nat /\ billed \in [calls : Nat, summaries : Nat] /\ turn \in TurnRow
  BY RowOfTurn DEF TurnShapes
<1>3. Telling' /\ Working'
  BY <1>1, SilenceKeeps
<1>4. TurnShapes'
  BY <1>1 DEF TurnShapes
<1>5. Stopping'
  BY <1>1 DEF Stopping, Live
<1>6. Metering' /\ Replying'
  BY <1>1, <1>2 DEF Metering, Replying
<1> QED BY <1>3, <1>4, <1>5, <1>6

LEMMA AbortKeeps == ASSUME TurnAssumption, TurnInv, Abort PROVE TurnInv'
<1>1. PICK t : t = [turn EXCEPT !.interrupted = TRUE, !.uncertain = TRUE, !.complete = FALSE]
  OBVIOUS
<1>2. t \in TurnRow /\ t.n = turn.n /\ t.total = turn.total /\ t.complete = FALSE
  BY Zenon, <1>1 DEF TurnRow, TurnInv, TurnShapes
<1>3. /\ turn.pc = "stream" /\ Ends(t) /\ stream' = stream
      /\ mode' = mode /\ hist' = hist /\ tools' = tools /\ asked' = asked /\ billed' = billed
  BY <1>1 DEF Abort, At
<1> QED BY Zenon, <1>2, <1>3, StreamEnds

LEMMA BreakKeeps == ASSUME TurnAssumption, TurnInv, Break PROVE TurnInv'
<1>1. PICK t : t = [turn EXCEPT !.error = TRUE, !.complete = FALSE]
  OBVIOUS
<1>2. t \in TurnRow /\ t.n = turn.n /\ t.total = turn.total /\ t.complete = FALSE
  BY Zenon, <1>1 DEF TurnRow, TurnInv, TurnShapes
<1>3. /\ turn.pc = "stream" /\ Ends(t) /\ stream' = stream
      /\ mode' = mode /\ hist' = hist /\ tools' = tools /\ asked' = asked /\ billed' = billed
  BY <1>1 DEF Break, At
<1> QED BY Zenon, <1>2, <1>3, StreamEnds

LEMMA DeliverKeeps == ASSUME TurnAssumption, TurnInv, Deliver PROVE TurnInv'
<1> USE DEF TurnInv
<1>1. /\ turn.pc = "stream" /\ mode' = mode /\ agent' = agent /\ hist' = hist /\ turn' = turn
      /\ tools' = tools /\ billed' = billed /\ asked' = asked
  BY DEF Deliver, At
<1>2. stream' \in [slot : [Slot -> {"none", "partial", "whole"}],
                   finish : Reason \cup {"none"}, receipt : BOOLEAN]
  <2>1. PICK k \in Slot, piece \in {"partial", "whole"} :
          stream' = [stream EXCEPT !.slot[k] = piece]
    BY Zenon DEF Deliver
  <2> QED BY Zenon, <2>1 DEF TurnShapes
<1>3. TurnShapes'
  BY <1>1, <1>2 DEF TurnShapes
<1>4. Telling' /\ Working'
  BY <1>1, SilenceKeeps DEF TurnShapes
<1>5. Stopping' /\ Metering' /\ Replying'
  BY <1>1 DEF Stopping, Metering, Replying, Live
<1> QED BY <1>3, <1>4, <1>5

LEMMA EndOfStreamKeeps == ASSUME TurnAssumption, TurnInv, EndOfStream PROVE TurnInv'
<1> USE DEF TurnInv
<1>1. /\ turn.pc = "stream" /\ turn \in TurnRow /\ mode' = mode /\ hist' = hist
      /\ tools' = tools /\ billed' = billed /\ asked' = asked
      /\ turn.n \in Nat /\ turn.total \in Nat /\ billed \in [calls : Nat, summaries : Nat] /\ turn.complete \in BOOLEAN
  BY RowOfTurn DEF EndOfStream, At, TurnShapes
<1>2. PICK finish \in Reason \cup {"none"}, receipt \in BOOLEAN :
        /\ stream' = [stream EXCEPT !.finish = finish, !.receipt = receipt]
        /\ IF Reading(stream').kind = "refused"
             THEN Ends([Metered(turn, Reading(stream').receipt)
                               EXCEPT !.error = TRUE, !.complete = FALSE])
             ELSE /\ turn' = [Metered(turn, receipt) EXCEPT
                                !.pc = "reply", !.complete = Completed(turn, receipt)]
                  /\ agent' = agent
  BY Zenon DEF EndOfStream, None
<1>3. /\ stream' \in [slot : [Slot -> {"none", "partial", "whole"}],
                      finish : Reason \cup {"none"}, receipt : BOOLEAN]
  <2>1. ASSUME NEW s, s = [stream EXCEPT !.finish = finish, !.receipt = receipt]
        PROVE  s \in [slot : [Slot -> {"none", "partial", "whole"}],
                      finish : Reason \cup {"none"}, receipt : BOOLEAN]
    BY Zenon, <2>1 DEF TurnShapes
  <2> QED BY Zenon, <1>2, <2>1
<1>4. /\ Reading(stream').kind \in {"answer", "refused"}
      /\ Reading(stream').receipt \in BOOLEAN
  BY <1>3, Readings
<1>5. ASSUME NEW got \in BOOLEAN, NEW u, u = Metered(turn, got)
      PROVE  /\ u \in TurnRow /\ u.n = turn.n /\ u.complete = turn.complete
             /\ u.total = turn.total + (IF got THEN 1 ELSE 0) /\ u.total \in Nat
  BY <1>1, <1>5 DEF Metered, TurnRow
<1>6. CASE Reading(stream').kind = "refused"
  <2> DEFINE r == Reading(stream').receipt
  <2>1. PICK u : u = Metered(turn, r)
    OBVIOUS
  <2>2. u \in TurnRow /\ u.n = turn.n /\ u.total \in {turn.total, turn.total + 1}
    BY <1>1, <1>4, <1>5, <2>1
  <2>3. PICK t : t = [u EXCEPT !.error = TRUE, !.complete = FALSE]
    OBVIOUS
  <2>4. t \in TurnRow /\ t.n = turn.n /\ t.total = u.total /\ t.complete = FALSE
    BY Zenon, <2>2, <2>3 DEF TurnRow
  <2>5. Ends(t)
    BY <1>2, <1>6, <2>1, <2>3
  <2> QED BY Zenon, <1>1, <1>3, <2>2, <2>4, <2>5, StreamEnds
<1>7. CASE Reading(stream').kind = "answer"
  <2>1. PICK u : u = Metered(turn, receipt)
    OBVIOUS
  <2>2. /\ u \in TurnRow /\ u.n = turn.n
        /\ u.total = turn.total + (IF receipt THEN 1 ELSE 0) /\ u.total \in Nat
    BY <1>5, <2>1
  <2>3. turn' = [u EXCEPT !.pc = "reply", !.complete = Completed(turn, receipt)]
          /\ agent' = agent
    BY <1>2, <1>7, <2>1
  <2>4. Completed(turn, receipt) \in BOOLEAN
          /\ (Completed(turn, receipt) <=> turn.complete /\ receipt)
    BY DEF Completed
  <2>5. /\ turn' \in TurnRow /\ turn'.pc = "reply" /\ turn'.n = turn.n /\ turn'.total = u.total
        /\ turn'.complete => turn.complete /\ receipt
    <3>1. ASSUME NEW c \in BOOLEAN, NEW t, t = [u EXCEPT !.pc = "reply", !.complete = c]
          PROVE  t \in TurnRow /\ t.pc = "reply" /\ t.n = u.n /\ t.total = u.total /\ t.complete = c
      BY Zenon, <2>2, <3>1 DEF TurnRow, Flow
    <3> HIDE DEF TurnInv
    <3> QED BY Zenon, <2>2, <2>3, <2>4, <3>1
  <2>6. Telling' /\ Working'
    BY <1>1, <2>5, SilenceKeeps
  <2>7. TurnShapes'
    BY <1>1, <1>3, <2>3, <2>5 DEF TurnShapes
  <2>8. Stopping'
    BY <1>1, <2>3, <2>5 DEF Stopping, Live
  <2>9. Metering'
    BY <1>1, <2>2, <2>5 DEF Metering
  <2>10. Replying'
    <3>1. Reading(stream)' = Reading(stream')
      BY <1>1 DEF Reading, Whole, Delivered, Answer, Refused
    <3> QED BY <1>7, <3>1 DEF Replying
  <2> QED BY <2>6, <2>7, <2>8, <2>9, <2>10
<1> QED BY <1>4, <1>6, <1>7

\* A word of the user, or of the provider, without a call.
LEMMA SpeakKeeps ==
    ASSUME TurnAssumption, TurnInv, turn.pc \notin {"tools", "dead", "end"},
           NEW m \in Message, m.role # "tool", m.ids = {}, NEW h, h = Plus(hist, m)
    PROVE  /\ Conversation(h.at) /\ Replays(h.at, DOMAIN h.at)
           /\ h.next \in Nat /\ \A i \in DOMAIN h.at : i < h.next
           /\ Past(h.at, IF Answering THEN turn.n - 1 ELSE turn.n)
<1>1. /\ Conversation(hist.at) /\ Replays(hist.at, DOMAIN hist.at)
      /\ hist.next \in Nat /\ \A i \in DOMAIN hist.at : i < hist.next
      /\ Past(hist.at, IF Answering THEN turn.n - 1 ELSE turn.n)
  BY DEF TurnInv, Telling, Undispatched, At
<1>2. /\ Conversation(h.at) /\ h.next = hist.next + 1
      /\ DOMAIN h.at = DOMAIN hist.at \cup {hist.next}
      /\ h.at[hist.next] = m
      /\ \A i \in DOMAIN hist.at : h.at[i] = hist.at[i]
      /\ \A i \in DOMAIN h.at : i < hist.next + 1
  <2>1. \A i \in DOMAIN hist.at : Calls(hist.at, i) => hist.at[i].ids \cap m.ids = {}
    OBVIOUS
  <2> QED BY <1>1, <2>1, PlusKeeps
<1>3. Replays(h.at, DOMAIN hist.at)
  BY <1>1, <1>2, SameReplays
<1>4. Replays(h.at, DOMAIN h.at)
  <2>1. DOMAIN hist.at \subseteq Nat
    BY <1>1 DEF Conversation
  <2>2. Replays(h.at, DOMAIN hist.at \cup {hist.next})
    BY <1>1, <1>2, <1>3, <2>1, PlusReplays
  <2> QED BY <1>2, <2>2
<1>5. Past(h.at, IF Answering THEN turn.n - 1 ELSE turn.n)
  BY <1>1, <1>2 DEF Past, Calls
<1> QED BY <1>1, <1>2, <1>4, <1>5

LEMMA PrepareKeeps == ASSUME TurnAssumption, TurnInv, Prepare PROVE TurnInv'
<1> USE DEF TurnInv
<1>1. /\ turn.pc = "prepare" /\ turn \in TurnRow /\ mode' = mode /\ stream' = stream
      /\ tools' = tools /\ asked' = asked
      /\ turn.n \in Nat /\ turn.total \in Nat /\ ~Answering
      /\ agent' = [agent EXCEPT !.inbox = 0]
  BY Zenon, RowOfTurn DEF Prepare, At, TurnShapes, Answering
<1>13. billed' \in [calls : Nat, summaries : Nat] /\ billed'.calls = billed.calls
  <2>1. billed' = billed \/ billed' = [billed EXCEPT !.summaries = @ + 1]
    <3>1. billed' \in {billed, Summarised}
      BY DEF Prepare
    <3> QED BY <3>1 DEF Summarised
  <2>2. billed \in [calls : Nat, summaries : Nat]
    BY DEF TurnShapes
  <2>3. [billed EXCEPT !.summaries = @ + 1] \in [calls : Nat, summaries : Nat]
          /\ [billed EXCEPT !.summaries = @ + 1].calls = billed.calls
    BY <2>2
  <2> QED BY Zenon, <2>1, <2>2, <2>3
<1>2. PICK ms : ms = IF agent.inbox > 0 THEN Plus(hist, User) ELSE hist
  OBVIOUS
<1>3. /\ Conversation(ms.at) /\ Replays(ms.at, DOMAIN ms.at)
      /\ ms.next \in Nat /\ \A i \in DOMAIN ms.at : i < ms.next
      /\ Past(ms.at, turn.n)
  <2>1. CASE ms = hist
    BY <1>1, <2>1 DEF Telling, Undispatched, At
  <2>2. CASE ms = Plus(hist, User)
    <3>1. User \in Message /\ User.role # "tool" /\ User.ids = {}
      BY DEF User, Message
    <3>2. turn.pc \notin {"tools", "dead", "end"}
      BY <1>1
    <3> HIDE DEF TurnInv
    <3> QED BY <1>1, <2>2, <3>1, <3>2, SpeakKeeps
  <2> QED BY <1>2, <2>1, <2>2
<1>4. /\ hist' = ms \/ hist' \in Compress(ms)
      /\ \E latch \in BOOLEAN : turn' = [turn EXCEPT !.pc = "send", !.latch = latch]
  <2>1. PICK big \in BOOLEAN : big = (~turn.latch /\ Size(ms) > Window)
    BY Zenon
  <2>2. turn = [turn EXCEPT !.latch = turn.latch] /\ turn.latch \in BOOLEAN
    BY <1>1 DEF TurnRow
  <2>3. CASE hist' = ms /\ turn' = [turn EXCEPT !.pc = "send"]
    <3>1. turn' = [turn EXCEPT !.pc = "send", !.latch = turn.latch]
      BY Zenon, <1>1, <2>3 DEF TurnRow
    <3> QED BY Zenon, <2>2, <2>3, <3>1
  <2>4. CASE hist' = ms /\ turn' = [turn EXCEPT !.pc = "send", !.latch = TRUE]
    BY Zenon, <2>4
  <2>5. CASE \E small \in Compress(ms) :
               /\ hist' = small
               /\ turn' = [turn EXCEPT !.pc = "send", !.latch = Size(small) >= Size(ms)]
    <3>1. PICK small \in Compress(ms) :
               /\ hist' = small
               /\ turn' = [turn EXCEPT !.pc = "send", !.latch = Size(small) >= Size(ms)]
      BY Zenon, <2>5
    <3>2. (Size(small) >= Size(ms)) \in BOOLEAN
      OBVIOUS
    <3> QED BY Zenon, <3>1, <3>2
  <2> HIDE DEF TurnInv
  <2> QED BY Zenon, <1>2, <2>3, <2>4, <2>5 DEF Prepare
<1>5. /\ turn' \in TurnRow /\ turn'.pc = "send" /\ turn'.n = turn.n
      /\ turn'.total = turn.total /\ turn'.complete = turn.complete
  <2>1. ASSUME NEW b \in BOOLEAN, NEW t, t = [turn EXCEPT !.pc = "send", !.latch = b]
        PROVE  /\ t \in TurnRow /\ t.pc = "send" /\ t.n = turn.n
               /\ t.total = turn.total /\ t.complete = turn.complete
    BY Zenon, <1>1, <2>1 DEF TurnRow, Flow
  <2> HIDE DEF TurnInv
  <2> QED BY Zenon, <1>4, <2>1
<1>6. /\ Conversation(hist'.at) /\ Replays(hist'.at, DOMAIN hist'.at)
      /\ hist'.next \in Nat /\ \A i \in DOMAIN hist'.at : i < hist'.next
      /\ Past(hist'.at, turn.n)
  <2>1. CASE hist' = ms
    BY <1>3, <2>1
  <2>2. CASE hist' \in Compress(ms)
    <3>1. /\ Conversation(hist'.at) /\ Replays(hist'.at, DOMAIN hist'.at)
          /\ Lessens(hist'.at, ms.at) /\ hist'.next = ms.next
      BY <1>3, <2>2, TurnConstants, CompressKeeps
    <3> QED BY <1>3, <3>1 DEF Lessens, Past
  <2> QED BY <1>4, <2>1, <2>2
<1>7. Telling'
  BY <1>5, <1>6 DEF Telling, Answering
<1>8. Working'
  BY <1>1, <1>5, SilenceKeeps DEF Working, Answering
<1>9. agent' \in [interrupt : BOOLEAN, steers : Nat, inbox : Nat]
        /\ agent'.interrupt = agent.interrupt
  BY Zenon, <1>1 DEF TurnShapes
<1>10. TurnShapes'
  BY <1>1, <1>5, <1>9, <1>13 DEF TurnShapes
<1>11. Stopping'
  BY <1>1, <1>5, <1>9 DEF Stopping, Live
<1>12. Metering' /\ Replying'
  BY <1>1, <1>5, <1>13 DEF Metering, Replying
<1> HIDE DEF TurnInv
<1> QED BY <1>7, <1>8, <1>10, <1>11, <1>12 DEF TurnInv

LEMMA JoinKeeps == ASSUME TurnAssumption, TurnInv, Join PROVE TurnInv'
<1> USE DEF TurnInv
<1> DEFINE places == {hist.next + id[2] : id \in tools.done}
           last == hist.next - 1
           g == hist'.at
<1>1. /\ turn.pc = "tools" /\ turn \in TurnRow /\ mode' = mode /\ agent' = agent
      /\ stream' = stream /\ tools' = tools /\ billed' = billed /\ asked' = asked
      /\ turn' = [turn EXCEPT !.pc = "top"] /\ tools.queued = {} /\ tools.running = {}
      /\ turn.n \in Nat /\ turn.total \in Nat /\ ~Answering
      /\ Batch = tools.done
  BY RowOfTurn DEF Join, At, TurnShapes, Answering, Batch
<1>2. /\ g = [i \in DOMAIN hist.at \cup places |->
                IF i \in places THEN Result(<<turn.n, i - hist.next>>) ELSE hist.at[i]]
      /\ hist'.next = hist.next + MaxSlots + 1
  BY DEF Join
<1>3. /\ Conversation(hist.at) /\ hist.next \in Nat /\ DOMAIN hist.at \subseteq Nat
      /\ \A i \in DOMAIN hist.at : i < hist.next
      /\ last \in DOMAIN hist.at /\ hist.at[last].role = "assistant"
      /\ hist.at[last].ids = tools.done
      /\ Replays(hist.at, DOMAIN hist.at \ {last}) /\ Past(hist.at, turn.n)
  BY <1>1 DEF Telling, Calls, Conversation
<1>4. \A id \in tools.done :
        /\ id \in CallId /\ id = <<turn.n, id[2]>> /\ id[2] \in Nat /\ 1 <= id[2] /\ id[2] <= MaxSlots
  <2> TAKE id \in tools.done
  <2>1. id \in CallId /\ id[1] = turn.n
    BY <1>1, RanIds DEF Working
  <2>2. id = <<id[1], id[2]>> /\ id[2] \in Slot
    BY <2>1 DEF CallId
  <2> QED BY <2>1, <2>2, TurnConstants DEF Slot
<1>5. \A i \in places :
        /\ i \in Nat /\ i > last /\ i >= hist.next /\ i <= hist.next + MaxSlots
        /\ i - hist.next \in Slot
        /\ <<turn.n, i - hist.next>> \in tools.done
  <2> TAKE i \in places
  <2>1. PICK id \in tools.done : i = hist.next + id[2]
    OBVIOUS
  <2>2. i - hist.next = id[2]
    BY <1>3, <1>4, <2>1
  <2> QED BY <1>3, <1>4, <2>1, <2>2, TurnConstants DEF Slot
<1>5a. /\ \A i \in places : i \in Nat /\ hist.next <= i /\ i <= hist.next + MaxSlots
       /\ \A i \in DOMAIN hist.at : i \in Nat /\ i < hist.next
       /\ hist.next \in Nat /\ MaxSlots \in Nat
  <2> HIDE DEF places
  <2>1. \A i \in DOMAIN hist.at : i \in Nat /\ i < hist.next
    BY <1>3
  <2> QED BY Zenon, <1>3, <1>5, <2>1, TurnConstants
<1>6. \A id \in tools.done : /\ hist.next + id[2] \in places
                             /\ id = <<turn.n, (hist.next + id[2]) - hist.next>>
  BY <1>3, <1>4
<1> HIDE DEF places, g, TurnInv
<1>7. /\ DOMAIN g = DOMAIN hist.at \cup places
      /\ \A i \in DOMAIN hist.at : i \notin places /\ g[i] = hist.at[i]
      /\ \A i \in places : g[i] = Result(<<turn.n, i - hist.next>>)
  <2>1. \A i \in DOMAIN hist.at : i \notin places
    <3> TAKE i \in DOMAIN hist.at
    <3>1. i \in Nat /\ hist.next \in Nat /\ ~(hist.next <= i)
      BY <1>5a
    <3> QED BY <1>5a, <3>1
  <2> QED BY <1>2, <2>1
<1>8. \A i \in places :
        /\ g[i] \in Message /\ g[i].role = "tool"
        /\ g[i].ids = {<<turn.n, i - hist.next>>}
  <2> TAKE i \in places
  <2>1. <<turn.n, i - hist.next>> \in CallId
    BY <1>4, <1>5
  <2>2. g[i] = [role |-> "tool", ids |-> {<<turn.n, i - hist.next>>}, text |-> TRUE]
    BY <1>7 DEF Result
  <2>3. \A id \in CallId : [role |-> "tool", ids |-> {id}, text |-> TRUE] \in Message
    BY DEF Message
  <2> QED BY <2>1, <2>2, <2>3
<1>9. Conversation(g)
  <2>1. IsFiniteSet(DOMAIN g) /\ DOMAIN g \subseteq Nat
    <3> DEFINE end == hist.next + MaxSlots
    <3>1. places \in SUBSET (0 .. end) /\ end \in Int
      BY <1>3, <1>5a, TurnConstants
    <3> HIDE DEF end
    <3>2. IsFiniteSet(0 .. end)
      BY <3>1, FS_Interval
    <3>3. IsFiniteSet(places)
      BY Zenon, <3>1, <3>2, FS_Subset
    <3>4. IsFiniteSet(DOMAIN hist.at)
      BY <1>3 DEF Conversation
    <3>5. IsFiniteSet(DOMAIN hist.at \cup places)
      BY Zenon, <3>3, <3>4, FS_Union
    <3> QED BY Zenon, <1>3, <1>5, <1>7, <3>5
  <2>2. \A i \in DOMAIN g : g[i] \in Message
    BY <1>3, <1>7, <1>8 DEF Conversation
  <2>3. \A i \in DOMAIN g : g[i].role = "tool" => \E id \in g[i].ids : g[i].ids = {id}
    <3> TAKE i \in DOMAIN g
    <3>1. CASE i \in places
      BY Zenon, <1>8, <3>1
    <3>2. CASE i \in DOMAIN hist.at
      BY <1>3, <1>7, <3>2 DEF Conversation
    <3> QED BY <1>7, <3>1, <3>2
  <2>4. \A i \in DOMAIN g : Calls(g, i) => i \in DOMAIN hist.at /\ Calls(hist.at, i)
    BY <1>7, <1>8 DEF Calls
  <2>5. \A i, k \in DOMAIN g : Calls(g, i) /\ Calls(g, k) /\ i # k => g[i].ids \cap g[k].ids = {}
    BY <1>3, <1>7, <2>4 DEF Conversation
  <2> QED BY <2>1, <2>2, <2>3, <2>5 DEF Conversation
<1>10. Replays(g, DOMAIN g)
  <2> DEFINE S == DOMAIN hist.at \ {last}
  <2>1. Replays(g, S)
    BY <1>3, <1>7, SameReplays
  <2>2. S \subseteq Nat /\ last \in Nat /\ \A i \in S : i < last
    BY <1>3
  <2>3. g[last].role = "assistant" /\ g[last].ids = tools.done
    BY <1>3, <1>7
  <2>4. places \subseteq Nat /\ \A i \in places : i > last
    BY Zenon, <1>5
  <2>5. \A i \in places : g[i].role = "tool" /\ g[i].ids \subseteq g[last].ids
    BY <1>5, <1>8, <2>3
  <2>6. \A id \in g[last].ids : \E i \in places : id \in g[i].ids
    <3> TAKE id \in g[last].ids
    <3>1. id \in tools.done
      BY <2>3
    <3>2. hist.next + id[2] \in places /\ id = <<turn.n, (hist.next + id[2]) - hist.next>>
      BY <1>6, <3>1
    <3>3. g[hist.next + id[2]].ids = {<<turn.n, (hist.next + id[2]) - hist.next>>}
      BY <1>8, <3>2
    <3> QED BY <3>2, <3>3
  <2>7. DOMAIN g = S \cup {last} \cup places
    BY <1>3, <1>7
  <2>8. Replays(g, S \cup {last} \cup places)
    <3> HIDE DEF S, last
    <3> QED BY Zenon, <2>1, <2>2, <2>3, <2>4, <2>5, <2>6, JoinReplays
  <2> QED BY <2>7, <2>8
<1>11. Past(g, turn.n)
  BY <1>3, <1>7, <1>8 DEF Past, Calls
<1>12. hist'.next \in Nat /\ \A i \in DOMAIN g : i < hist'.next
  <2>1. hist'.next = hist.next + MaxSlots + 1 /\ hist'.next \in Nat
    BY <1>2, <1>5a
  <2>2. \A i \in DOMAIN hist.at : i < hist'.next
    BY <1>5a, <2>1
  <2>3. \A i \in places : i < hist'.next
    BY <1>5a, <2>1
  <2> QED BY <1>7, <2>1, <2>2, <2>3
<1>13. /\ turn' \in TurnRow /\ turn'.pc = "top" /\ turn'.n = turn.n
       /\ turn'.total = turn.total /\ turn'.complete = turn.complete
  BY <1>1, MovesTo DEF Flow
<1>14. Telling'
  BY <1>9, <1>10, <1>11, <1>12, <1>13 DEF Telling, Answering, g
<1>15. Working'
  BY <1>1, <1>13 DEF Working, Answering, TurnInv
<1>16. TurnShapes'
  BY <1>1, <1>13 DEF TurnShapes, TurnInv
<1>17. Stopping'
  BY <1>1, <1>13 DEF Stopping, Live, TurnInv
<1>18. Metering' /\ Replying'
  BY <1>1, <1>13 DEF Metering, Replying, TurnInv
<1> QED BY <1>14, <1>15, <1>16, <1>17, <1>18 DEF TurnInv

\* A reply that ends the turn, or goes on without a tool.
LEMMA RepliedKeeps ==
    ASSUME TurnAssumption, TurnInv, turn.pc = "reply",
           mode' = mode, stream' = stream, tools' = tools, billed' = billed, asked' = asked,
           agent' \in [interrupt : BOOLEAN, steers : Nat, inbox : Nat],
           turn' \in TurnRow, turn'.pc \in {"end", "top"}, turn'.n = turn.n,
           turn'.total = turn.total, turn'.complete = turn.complete,
           turn'.pc = "top" => agent' = agent,
           \/ hist' = hist
           \/ \E m \in Message : m.role # "tool" /\ m.ids = {} /\ hist' = Plus(hist, m)
    PROVE  TurnInv'
<1>1. turn.n \in Nat /\ turn.total \in Nat /\ turn \in TurnRow /\ turn.pc \notin {"tools", "dead"}
  BY RowOfTurn DEF TurnInv, TurnShapes
<1>2. /\ Conversation(hist'.at) /\ Replays(hist'.at, DOMAIN hist'.at)
      /\ hist'.next \in Nat /\ \A i \in DOMAIN hist'.at : i < hist'.next
      /\ Past(hist'.at, turn.n - 1)
  <2>1. CASE hist' = hist
    BY <1>1, <2>1 DEF TurnInv, Telling, Answering, Undispatched, At
  <2>2. CASE \E m \in Message : m.role # "tool" /\ m.ids = {} /\ hist' = Plus(hist, m)
    <3>1. PICK m \in Message : m.role # "tool" /\ m.ids = {} /\ hist' = Plus(hist, m)
      BY <2>2
    <3>2. Answering
      BY DEF Answering
    <3> QED BY <1>1, <3>1, <3>2, SpeakKeeps
  <2> QED BY <2>1, <2>2
<1>3. Past(hist'.at, turn.n)
  <2> SUFFICES ASSUME NEW i \in DOMAIN hist'.at, Calls(hist'.at, i), NEW id \in hist'.at[i].ids
               PROVE  id[1] <= turn.n
    BY DEF Past
  <2>1. id[1] <= turn.n - 1
    BY <1>2 DEF Past
  <2>2. id \in CallId
    BY <1>2 DEF Conversation, Message
  <2> QED BY <1>1, <2>1, <2>2 DEF CallId
<1>4. Telling'
  BY <1>2, <1>3 DEF Telling, Answering
<1>5. Working'
  BY <1>1 DEF Working, Answering, TurnInv
<1>6. TurnShapes'
  BY DEF TurnShapes, TurnInv
<1>7. Stopping'
  BY DEF Stopping, Live, TurnInv
<1>8. Metering' /\ Replying'
  BY DEF Metering, Replying, TurnInv
<1> QED BY <1>4, <1>5, <1>6, <1>7, <1>8 DEF TurnInv

\* The calls of the answer are this request's, and of whole calls.
LEMMA AskedCalls ==
    ASSUME TurnAssumption, TurnInv, turn.pc = "reply"
    PROVE  /\ stream.finish # "none" /\ Answered.finish \in Reason
           /\ Answered.finish # "tool_calls" => Ids = {}
           /\ Ids \subseteq CallId /\ \A id \in Ids : id[1] = turn.n
           /\ ~Dangling /\ Answered.finish = "tool_calls" =>
                \A id \in Ids : stream.slot[id[2]] = "whole"
<1>1. /\ stream.finish # "none" /\ Answered.finish \in Reason
      /\ Answered.slots \subseteq Slot
      /\ Answered.finish # "tool_calls" => Answered.slots = {}
  <2>1. /\ TurnShapes
        /\ stream \in [slot : [Slot -> {"none", "partial", "whole"}],
                       finish : Reason \cup {"none"}, receipt : BOOLEAN]
        /\ Reading(stream).kind = "answer"
    BY DEF TurnInv, TurnShapes, Replying
  <2>2. Answered = Reading(stream)
    BY DEF Answered
  <2> QED BY <2>1, <2>2, Readings
<1>2. turn.n \in Nat
  BY RowOfTurn DEF TurnInv, TurnShapes
<1>3. Ids \subseteq CallId /\ \A id \in Ids : id[1] = turn.n
  BY <1>1, <1>2 DEF Ids, CallId
<1>4. Answered.finish # "tool_calls" => Ids = {}
  BY <1>1 DEF Ids
<1>5. ASSUME ~Dangling, Answered.finish = "tool_calls", NEW id \in Ids
      PROVE  stream.slot[id[2]] = "whole"
  <2>1. PICK k \in Answered.slots : id = <<turn.n, k>>
    BY DEF Ids
  <2>2. k \in Whole(stream)
    BY <1>5, <2>1 DEF Dangling
  <2> QED BY <2>1, <2>2 DEF Whole
<1> QED BY <1>1, <1>3, <1>4, <1>5

\* A message that makes the calls of an answer: what was said before it replays.
LEMMA AskingKeeps ==
    ASSUME TurnAssumption, TurnInv, turn.pc = "reply", NEW text \in BOOLEAN,
           NEW h, h = Plus(hist, Said(Ids, text))
    PROVE  /\ Conversation(h.at) /\ Past(h.at, turn.n)
           /\ h.next \in Nat /\ \A i \in DOMAIN h.at : i < h.next
           /\ h.next - 1 \in DOMAIN h.at /\ Calls(h.at, h.next - 1)
           /\ h.at[h.next - 1].ids = Ids
           /\ Replays(h.at, DOMAIN h.at \ {h.next - 1})
<1>1. turn.n \in Nat /\ Answering
  BY RowOfTurn DEF TurnInv, TurnShapes, Answering
<1>2. Ids \subseteq CallId /\ \A id \in Ids : id[1] = turn.n
  BY AskedCalls
<1> DEFINE m == Said(Ids, text)
<1>3. m \in Message /\ m.role = "assistant" /\ m.ids = Ids
  BY <1>2 DEF Said, Message
<1> HIDE DEF m
<1>4. /\ Conversation(hist.at) /\ Replays(hist.at, DOMAIN hist.at)
      /\ hist.next \in Nat /\ \A i \in DOMAIN hist.at : i < hist.next
      /\ Past(hist.at, turn.n - 1)
  BY <1>1 DEF TurnInv, Telling, Answering, Undispatched, At
<1>5. \A i \in DOMAIN hist.at : Calls(hist.at, i) => hist.at[i].ids \cap m.ids = {}
  <2> TAKE i \in DOMAIN hist.at
  <2> HAVE Calls(hist.at, i)
  <2>1. ASSUME NEW id \in hist.at[i].ids, id \in Ids PROVE FALSE
    <3>1. id[1] <= turn.n - 1 /\ id[1] = turn.n
      BY <1>2, <1>4, <2>1 DEF Past
    <3> QED BY <1>1, <3>1
  <2> QED BY <1>3, <2>1
<1>6. /\ Conversation(h.at) /\ h.next = hist.next + 1
      /\ DOMAIN h.at = DOMAIN hist.at \cup {hist.next}
      /\ h.at[hist.next] = m
      /\ \A i \in DOMAIN hist.at : h.at[i] = hist.at[i]
      /\ \A i \in DOMAIN h.at : i < hist.next + 1
  <2>1. h = Plus(hist, m) /\ m.role # "tool"
    BY <1>3 DEF m
  <2> QED BY <1>3, <1>4, <1>5, <2>1, PlusKeeps
<1>7. Past(h.at, turn.n)
  <2> SUFFICES ASSUME NEW i \in DOMAIN h.at, Calls(h.at, i), NEW id \in h.at[i].ids
               PROVE  id[1] <= turn.n
    BY DEF Past
  <2>1. CASE i = hist.next
    BY <1>1, <1>2, <1>3, <1>6, <2>1
  <2>2. CASE i \in DOMAIN hist.at
    <3>1. id[1] <= turn.n - 1
      BY <1>4, <1>6, <2>2 DEF Past, Calls
    <3>2. id \in CallId
      BY <1>4, <1>6, <2>2 DEF Conversation, Message
    <3> QED BY <1>1, <3>1, <3>2 DEF CallId
  <2> QED BY <1>6, <2>1, <2>2
<1>8. h.next - 1 = hist.next /\ h.next \in Nat /\ hist.next \notin DOMAIN hist.at
  BY <1>4, <1>6
<1>9. DOMAIN h.at \ {hist.next} = DOMAIN hist.at
  BY <1>6, <1>8
<1>10. Replays(h.at, DOMAIN hist.at)
  BY <1>4, <1>6, SameReplays
<1>11. h.at[hist.next].ids = Ids /\ Calls(h.at, hist.next) /\ hist.next \in DOMAIN h.at
  BY <1>3, <1>6 DEF Calls
<1>12. \A i \in DOMAIN h.at : i < h.next
  BY <1>6
<1> QED BY Zenon, <1>6, <1>7, <1>8, <1>9, <1>10, <1>11, <1>12

\* The calls of an answer go to the pool.
LEMMA DispatchKeeps ==
    ASSUME TurnAssumption, TurnInv, turn.pc = "reply", ~agent.interrupt, ~Dangling,
           Answered.finish = "tool_calls", NEW text \in BOOLEAN,
           turn' = [turn EXCEPT !.pc = "tools"],
           hist' = Plus(hist, Said(Ids, text)),
           tools' = [tools EXCEPT !.queued = Ids, !.done = {}],
           agent' = agent, mode' = mode, stream' = stream, billed' = billed, asked' = asked
    PROVE  TurnInv'
<1>1. /\ turn.n \in Nat /\ turn.total \in Nat /\ turn \in TurnRow
      /\ tools.running = {} /\ tools.ran \in Seq(CallId) /\ Answering
  BY RowOfTurn, RanIds DEF TurnInv, TurnShapes, Working, Answering
<1>2. /\ turn' \in TurnRow /\ turn'.pc = "tools" /\ turn'.n = turn.n
      /\ turn'.total = turn.total /\ turn'.complete = turn.complete
  BY <1>1, MovesTo DEF Flow
<1>3. /\ stream.finish # "none" /\ Ids \subseteq CallId /\ \A id \in Ids : id[1] = turn.n
      /\ \A id \in Ids : stream.slot[id[2]] = "whole"
  BY AskedCalls
<1>4. /\ tools' \in [queued : SUBSET CallId, running : SUBSET CallId, done : SUBSET CallId,
                     ran : Seq(CallId)]
      /\ tools'.queued = Ids /\ tools'.running = {} /\ tools'.done = {}
      /\ tools'.ran = tools.ran
  <2>1. ASSUME NEW q \in SUBSET CallId, NEW t, t = [tools EXCEPT !.queued = q, !.done = {}]
        PROVE  /\ t \in [queued : SUBSET CallId, running : SUBSET CallId, done : SUBSET CallId,
                         ran : Seq(CallId)]
               /\ t.queued = q /\ t.running = tools.running /\ t.done = {} /\ t.ran = tools.ran
    BY Zenon, <2>1 DEF TurnInv, TurnShapes
  <2> QED BY ZenonT(40), <1>1, <1>3, <2>1
<1>10. Telling'
  <2>1. /\ Conversation(hist'.at) /\ Past(hist'.at, turn.n)
        /\ hist'.next \in Nat /\ \A i \in DOMAIN hist'.at : i < hist'.next
        /\ hist'.next - 1 \in DOMAIN hist'.at /\ Calls(hist'.at, hist'.next - 1)
        /\ hist'.at[hist'.next - 1].ids = Ids
        /\ Replays(hist'.at, DOMAIN hist'.at \ {hist'.next - 1})
    BY AskingKeeps
  <2>2. Batch' = Ids
    BY <1>4 DEF Batch
  <2> QED BY Zenon, <1>2, <2>1, <2>2 DEF Telling, Answering
<1>11. Working'
  <2>1. \A i \in DOMAIN tools.ran : tools.ran[i][1] < turn.n /\ tools.ran[i][1] \in Nat
    BY <1>1, RanIds DEF TurnInv, Working
  <2>2. \A id \in Batch' : id[1] = turn.n /\ stream.slot[id[2]] = "whole"
    BY <1>3, <1>4 DEF Batch
  <2>3. \A i \in DOMAIN tools.ran :
          /\ tools.ran[i][1] <= turn.n
          /\ tools.ran[i] \notin Ids
          /\ \A id \in Ids : tools.ran[i][1] # id[1]
    BY <1>1, <1>3, <2>1
  <2>4. \A i, j \in DOMAIN tools.ran : i < j =>
         /\ tools.ran[i] # tools.ran[j]
         /\ mode.sameFile /\ tools.ran[i][1] = tools.ran[j][1] => tools.ran[i][2] < tools.ran[j][2]
    BY DEF TurnInv, Working
  <2> QED BY <1>2, <1>3, <1>4, <2>2, <2>3, <2>4 DEF Working, Answering
<1>12. TurnShapes'
  BY <1>2, <1>4 DEF TurnInv, TurnShapes
<1>13. Stopping'
  BY <1>1, <1>2, <1>4 DEF TurnInv, Stopping, Live
<1>14. Metering' /\ Replying'
  BY <1>2 DEF TurnInv, Metering, Replying
<1> QED BY <1>10, <1>11, <1>12, <1>13, <1>14 DEF TurnInv

\* Nobody is there to dispatch the calls of an answer: the turn ends on them.
LEMMA HandBackKeeps ==
    ASSUME TurnAssumption, TurnInv, turn.pc = "reply", ~Dangling,
           Answered.finish = "tool_calls", ~mode.dispatch, NEW text \in BOOLEAN,
           hist' = Plus(hist, Said(Ids, text)),
           mode' = mode, stream' = stream, tools' = tools, billed' = billed, asked' = asked,
           agent' \in [interrupt : BOOLEAN, steers : Nat, inbox : Nat],
           turn' \in TurnRow, turn'.pc = "end", turn'.n = turn.n, turn'.stop = "tool_calls",
           turn'.total = turn.total, turn'.complete = turn.complete
    PROVE  TurnInv'
<1>1. turn.n \in Nat /\ turn.total \in Nat /\ turn \in TurnRow
  BY RowOfTurn DEF TurnInv, TurnShapes
<1>2. /\ Conversation(hist'.at) /\ Past(hist'.at, turn.n)
      /\ hist'.next \in Nat /\ \A i \in DOMAIN hist'.at : i < hist'.next
      /\ hist'.next - 1 \in DOMAIN hist'.at /\ Calls(hist'.at, hist'.next - 1)
      /\ hist'.at[hist'.next - 1].ids = Ids
      /\ Replays(hist'.at, DOMAIN hist'.at \ {hist'.next - 1})
  BY AskingKeeps
<1>3. Ids # {}
  <2>1. Answered.slots # {}
    BY DEF Dangling
  <2> QED BY <2>1 DEF Ids
<1>4. Undispatched'
  BY <1>2, <1>3 DEF Undispatched, At, Calls
<1>5. Telling'
  BY Zenon, <1>2, <1>4 DEF Telling, Answering
<1>6. Working'
  BY <1>1 DEF Working, Answering, TurnInv
<1>7. TurnShapes'
  BY DEF TurnShapes, TurnInv
<1>8. Stopping'
  BY DEF Stopping, Live, TurnInv
<1>9. Metering' /\ Replying'
  BY DEF Metering, Replying, TurnInv
<1> QED BY <1>5, <1>6, <1>7, <1>8, <1>9 DEF TurnInv

LEMMA ReplyKeeps == ASSUME TurnAssumption, TurnInv, Reply PROVE TurnInv'
<1>1. /\ turn.pc = "reply" /\ mode' = mode /\ stream' = stream /\ billed' = billed /\ asked' = asked
      /\ turn \in TurnRow
      /\ agent \in [interrupt : BOOLEAN, steers : Nat, inbox : Nat]
  BY DEF Reply, At, TurnInv, TurnShapes
<1>2. PICK text \in BOOLEAN :
        \/ /\ Dangling
           /\ Ends([turn EXCEPT !.error = TRUE]) /\ hist' = hist /\ tools' = tools
        \/ /\ Ends([turn EXCEPT !.stop = "stop"])
           /\ hist' = Plus(hist, Said({}, TRUE)) /\ tools' = tools
        \/ /\ ~Dangling /\ Answered.finish = "tool_calls" /\ ~agent.interrupt
           /\ turn' = [turn EXCEPT !.pc = "tools"]
           /\ hist' = Plus(hist, Said(Ids, text))
           /\ tools' = [tools EXCEPT !.queued = Ids, !.done = {}] /\ agent' = agent
        \/ /\ Ends([turn EXCEPT !.interrupted = TRUE]) /\ hist' = hist /\ tools' = tools
        \/ /\ Answered.finish # "tool_calls"
           /\ turn' = [turn EXCEPT !.pc = "top"]
           /\ hist' = Plus(hist, Said(Ids, text)) /\ tools' = tools
           /\ agent' = agent
        \/ /\ Answered.finish # "tool_calls"
           /\ Ends([turn EXCEPT !.stop = Answered.finish])
           /\ hist' = Plus(hist, Said(Ids, text)) /\ tools' = tools
        \/ /\ ~Dangling /\ Answered.finish = "tool_calls" /\ ~mode.dispatch
           /\ Ends([turn EXCEPT !.stop = Answered.finish])
           /\ hist' = Plus(hist, Said(Ids, text)) /\ tools' = tools
  <2>1. PICK text \in BOOLEAN, named \in BOOLEAN :
       CASE Dangling ->
              /\ Ends([turn EXCEPT !.error = TRUE])
              /\ hist' = hist /\ tools' = tools
         [] ~Dangling /\ ForcedAnswer(named) ->
              /\ Ends([turn EXCEPT !.stop = "stop"])
              /\ hist' = Plus(hist, Said({}, TRUE)) /\ tools' = tools
         [] ~Dangling /\ ~ForcedAnswer(named) /\ Answered.finish = "tool_calls"
              /\ mode.dispatch ->
              IF ~agent.interrupt
                THEN /\ turn' = [turn EXCEPT !.pc = "tools"]
                     /\ hist' = Plus(hist, Said(Ids, text))
                     /\ tools' = [tools EXCEPT !.queued = Ids, !.done = {}]
                     /\ agent' = agent
                ELSE /\ Ends([turn EXCEPT !.interrupted = TRUE])
                     /\ hist' = hist /\ tools' = tools
         [] ~Dangling /\ ~ForcedAnswer(named) /\ Answered.finish = "pause" ->
              /\ turn' = [turn EXCEPT !.pc = "top"]
              /\ hist' = Plus(hist, Said(Ids, text))
              /\ agent' = agent /\ tools' = tools
         [] OTHER ->
              /\ Ends([turn EXCEPT !.stop = Answered.finish])
              /\ hist' = Plus(hist, Said(Ids, text))
              /\ tools' = tools
    BY Zenon DEF Reply, MayDispatch
  <2>2. CASE Dangling
    BY <2>1, <2>2
  <2>3. CASE ~Dangling /\ ForcedAnswer(named)
    BY <2>1, <2>3
  <2>4. CASE ~Dangling /\ ~ForcedAnswer(named) /\ Answered.finish = "tool_calls" /\ mode.dispatch
    BY Zenon, <2>1, <2>4
  <2>5. CASE ~Dangling /\ ~ForcedAnswer(named) /\ Answered.finish = "pause"
    BY Zenon, <2>1, <2>5
  <2>6. CASE ~Dangling /\ ~ForcedAnswer(named)
               /\ Answered.finish \notin {"tool_calls", "pause"}
    BY Zenon, <2>1, <2>6
  <2>7. CASE ~Dangling /\ ~ForcedAnswer(named) /\ Answered.finish = "tool_calls" /\ ~mode.dispatch
    BY Zenon, <2>1, <2>7
  <2> QED BY Zenon, <2>2, <2>3, <2>4, <2>5, <2>6, <2>7
<1>3. /\ Answered.finish \in Reason
      /\ Answered.finish # "tool_calls" => Ids = {}
  BY <1>1, AskedCalls
<1>4. \A b \in BOOLEAN : /\ Said({}, b) \in Message /\ Said({}, b).role # "tool"
                         /\ Said({}, b).ids = {}
  BY DEF Said, Message
\* The turn ends.
<1>5. ASSUME NEW t \in TurnRow, t.n = turn.n, t.total = turn.total, t.complete = turn.complete,
             Ends(t), tools' = tools,
             \/ hist' = hist
             \/ \E m \in Message : m.role # "tool" /\ m.ids = {} /\ hist' = Plus(hist, m)
      PROVE  TurnInv'
  <2>1. /\ turn' \in TurnRow /\ turn'.pc = "end" /\ turn'.n = t.n /\ turn'.total = t.total
        /\ turn'.complete = t.complete
        /\ agent' \in [interrupt : BOOLEAN, steers : Nat, inbox : Nat]
    BY <1>1, <1>5, EndsRow
  <2> QED BY <1>1, <1>5, <2>1, RepliedKeeps
<1>6. /\ [turn EXCEPT !.error = TRUE] \in TurnRow
      /\ [turn EXCEPT !.error = TRUE].n = turn.n /\ [turn EXCEPT !.error = TRUE].total = turn.total
      /\ [turn EXCEPT !.error = TRUE].complete = turn.complete
  BY Zenon, <1>1 DEF TurnRow
<1>7. /\ [turn EXCEPT !.interrupted = TRUE] \in TurnRow
      /\ [turn EXCEPT !.interrupted = TRUE].n = turn.n
      /\ [turn EXCEPT !.interrupted = TRUE].total = turn.total
      /\ [turn EXCEPT !.interrupted = TRUE].complete = turn.complete
  BY Zenon, <1>1 DEF TurnRow
<1>8. ASSUME NEW reason \in Reason, NEW t, t = [turn EXCEPT !.stop = reason]
      PROVE  t \in TurnRow /\ t.n = turn.n /\ t.total = turn.total /\ t.complete = turn.complete
  BY <1>1, <1>8 DEF TurnRow
<1>9. CASE /\ Ends([turn EXCEPT !.error = TRUE]) /\ hist' = hist /\ tools' = tools
  BY Zenon, <1>5, <1>6, <1>9
<1>10. CASE /\ Ends([turn EXCEPT !.interrupted = TRUE]) /\ hist' = hist /\ tools' = tools
  BY Zenon, <1>5, <1>7, <1>10
<1>11. CASE /\ Ends([turn EXCEPT !.stop = "stop"])
            /\ hist' = Plus(hist, Said({}, TRUE)) /\ tools' = tools
  <2>1. PICK t : t = [turn EXCEPT !.stop = "stop"]
    BY Zenon
  <2>2. "stop" \in Reason
    BY DEF Reason
  <2>3. t \in TurnRow /\ t.n = turn.n /\ t.total = turn.total /\ t.complete = turn.complete
    BY <1>8, <2>1, <2>2
  <2>4. Ends(t) /\ \E m \in Message : m.role # "tool" /\ m.ids = {} /\ hist' = Plus(hist, m)
    BY Zenon, <1>4, <1>11, <2>1
  <2> QED BY Zenon, <1>5, <1>11, <2>3, <2>4
<1>12. CASE /\ Answered.finish # "tool_calls"
            /\ Ends([turn EXCEPT !.stop = Answered.finish])
            /\ hist' = Plus(hist, Said(Ids, text)) /\ tools' = tools
  <2>1. PICK t : t = [turn EXCEPT !.stop = Answered.finish]
    BY Zenon
  <2>2. t \in TurnRow /\ t.n = turn.n /\ t.total = turn.total /\ t.complete = turn.complete
    BY <1>3, <1>8, <2>1
  <2>3. Ends(t) /\ \E m \in Message : m.role # "tool" /\ m.ids = {} /\ hist' = Plus(hist, m)
    BY <1>3, <1>4, <1>12, <2>1
  <2> QED BY <1>5, <1>12, <2>2, <2>3
<1>13. CASE /\ Answered.finish # "tool_calls"
            /\ turn' = [turn EXCEPT !.pc = "top"]
            /\ hist' = Plus(hist, Said(Ids, text)) /\ tools' = tools
            /\ agent' = agent
  <2>1. /\ turn' \in TurnRow /\ turn'.pc = "top" /\ turn'.n = turn.n
        /\ turn'.total = turn.total /\ turn'.complete = turn.complete
    BY <1>1, <1>13, MovesTo DEF Flow
  <2>2. \E m \in Message : m.role # "tool" /\ m.ids = {} /\ hist' = Plus(hist, m)
    BY <1>3, <1>4, <1>13
  <2> QED BY <1>1, <1>13, <2>1, <2>2, RepliedKeeps
<1>14. CASE /\ ~Dangling /\ Answered.finish = "tool_calls" /\ ~agent.interrupt
            /\ turn' = [turn EXCEPT !.pc = "tools"]
            /\ hist' = Plus(hist, Said(Ids, text))
            /\ tools' = [tools EXCEPT !.queued = Ids, !.done = {}] /\ agent' = agent
  BY <1>1, <1>14, DispatchKeeps
<1>15. CASE /\ ~Dangling /\ Answered.finish = "tool_calls" /\ ~mode.dispatch
            /\ Ends([turn EXCEPT !.stop = Answered.finish])
            /\ hist' = Plus(hist, Said(Ids, text)) /\ tools' = tools
  <2>1. PICK t : t = [turn EXCEPT !.stop = "tool_calls"]
    BY Zenon
  <2>2. /\ t \in TurnRow /\ t.n = turn.n /\ t.total = turn.total /\ t.complete = turn.complete
        /\ t.stop = "tool_calls"
    <3>1. "tool_calls" \in Reason
      BY DEF Reason
    <3>2. t.stop = "tool_calls"
      BY Zenon, <1>1, <2>1 DEF TurnRow
    <3> QED BY <1>8, <2>1, <3>1, <3>2
  <2>3. Ends(t)
    BY Zenon, <1>15, <2>1
  <2>4. /\ turn' \in TurnRow /\ turn'.pc = "end" /\ turn'.n = turn.n
        /\ turn'.total = turn.total /\ turn'.complete = turn.complete
        /\ turn'.stop = "tool_calls"
        /\ agent' \in [interrupt : BOOLEAN, steers : Nat, inbox : Nat]
    <3>1. turn' = [t EXCEPT !.pc = "end"]
      BY <2>3 DEF Ends
    <3>2. turn'.stop = "tool_calls"
      BY Zenon, <2>2, <3>1 DEF TurnRow
    <3> QED BY <1>1, <2>2, <2>3, <3>2, EndsRow
  <2> QED BY <1>1, <1>15, <2>4, HandBackKeeps
<1> QED BY Zenon, <1>2, <1>9, <1>10, <1>11, <1>12, <1>13, <1>14, <1>15

\* Who calls from outside the turn changes nothing it has said or run.
LEMMA BesideKeeps ==
    ASSUME TurnAssumption, TurnInv, mode' = mode, hist' = hist, turn' = turn, stream' = stream, tools' = tools,
           billed' = billed
    PROVE  Telling' /\ Working' /\ Metering' /\ Replying'
<1>1. Replying'
  BY ReadStays DEF TurnInv
<1>2. Telling'
  BY DEF TurnInv, Telling, Answering, Batch, Undispatched, At
<1>3. Working'
  BY DEF TurnInv, Working, Answering, Batch
<1>4. Metering'
  BY DEF TurnInv, Metering
<1> QED BY <1>1, <1>2, <1>3, <1>4

LEMMA RequestInterruptKeeps == ASSUME TurnAssumption, TurnInv, RequestInterrupt PROVE TurnInv'
<1>1. /\ mode' = mode /\ hist' = hist /\ turn' = turn /\ stream' = stream /\ tools' = tools
      /\ billed' = billed /\ Live /\ ~agent.interrupt
      /\ agent' = [agent EXCEPT !.interrupt = TRUE]
      /\ asked' = [n |-> turn.n, dispatched |-> turn.pc \notin {"stream", "reply"}]
  BY DEF RequestInterrupt
<1>2. turn \in TurnRow /\ turn.n \in Nat /\ turn.pc \in Flow
  BY RowOfTurn DEF TurnInv, TurnShapes
<1>3. /\ agent' \in [interrupt : BOOLEAN, steers : Nat, inbox : Nat] /\ agent'.interrupt
      /\ asked' \in [n : Nat, dispatched : BOOLEAN] /\ asked'.n = turn.n
      /\ asked'.dispatched <=> turn.pc \notin {"stream", "reply"}
  BY Zenon, <1>1, <1>2 DEF TurnInv, TurnShapes
<1>4. TurnShapes'
  BY <1>1, <1>3 DEF TurnInv, TurnShapes
<1>5. \A i \in DOMAIN tools.ran :
        /\ tools.ran[i][1] \in Nat /\ tools.ran[i][1] <= turn.n
        /\ turn.pc \in {"stream", "reply"} => tools.ran[i][1] < turn.n
  BY RanIds DEF TurnInv, Working, Answering
<1>6. Stopping'
  <2>1. \A i \in DOMAIN tools.ran :
          tools.ran[i][1] < asked'.n \/ (tools.ran[i][1] = asked'.n /\ asked'.dispatched)
    BY <1>2, <1>3, <1>5
  <2> QED BY <1>1, <1>2, <1>3, <2>1 DEF TurnInv, Stopping, Live
<1> QED BY <1>1, <1>4, <1>6, BesideKeeps DEF TurnInv

LEMMA SteerKeeps == ASSUME TurnAssumption, TurnInv, Steer PROVE TurnInv'
<1>1. /\ mode' = mode /\ hist' = hist /\ turn' = turn /\ stream' = stream /\ tools' = tools
      /\ billed' = billed /\ asked' = asked
      /\ agent' = [agent EXCEPT !.steers = @ + 1, !.inbox = @ + 1]
  BY DEF Steer
<1>2. agent' \in [interrupt : BOOLEAN, steers : Nat, inbox : Nat]
        /\ agent'.interrupt = agent.interrupt
  <2>1. ASSUME NEW s \in Nat, NEW b \in Nat, NEW a, a = [agent EXCEPT !.steers = s, !.inbox = b]
        PROVE  a \in [interrupt : BOOLEAN, steers : Nat, inbox : Nat]
                 /\ a.interrupt = agent.interrupt
    BY Zenon, <2>1 DEF TurnInv, TurnShapes
  <2>2. agent.steers + 1 \in Nat /\ agent.inbox + 1 \in Nat
    BY DEF TurnInv, TurnShapes
  <2> QED BY Zenon, <1>1, <2>1, <2>2
<1>3. TurnShapes'
  BY <1>1, <1>2 DEF TurnInv, TurnShapes
<1>4. Stopping'
  BY <1>1, <1>2 DEF TurnInv, Stopping, Live
<1> QED BY <1>1, <1>3, <1>4, BesideKeeps DEF TurnInv

LEMMA SignalKeeps == ASSUME TurnAssumption, TurnInv, Signal PROVE TurnInv'
<1>1. /\ mode' = mode /\ hist' = hist /\ stream' = stream /\ billed' = billed /\ asked' = asked
      /\ Live /\ turn' = [turn EXCEPT !.pc = "dead"]
      /\ agent' = [agent EXCEPT !.interrupt = FALSE]
      /\ tools' = [tools EXCEPT !.queued = {}]
  BY DEF Signal
<1>2. turn \in TurnRow /\ turn.n \in Nat /\ turn.total \in Nat /\ billed \in [calls : Nat, summaries : Nat]
  BY RowOfTurn DEF TurnInv, TurnShapes
<1>3. /\ turn' \in TurnRow /\ turn'.pc = "dead" /\ turn'.n = turn.n
      /\ turn'.total = turn.total /\ turn'.complete = turn.complete
  BY <1>1, <1>2, MovesTo DEF Flow
<1>4. /\ tools' \in [queued : SUBSET CallId, running : SUBSET CallId, done : SUBSET CallId,
                     ran : Seq(CallId)]
      /\ tools'.queued = {} /\ tools'.ran = tools.ran
      /\ agent' \in [interrupt : BOOLEAN, steers : Nat, inbox : Nat]
  BY Zenon, <1>1 DEF TurnInv, TurnShapes
<1>5. TurnShapes'
  BY Zenon, <1>1, <1>3, <1>4 DEF TurnInv, TurnShapes
<1>6. Past(hist.at, turn.n)
  <2> SUFFICES ASSUME NEW i \in DOMAIN hist.at, Calls(hist.at, i), NEW id \in hist.at[i].ids
               PROVE  id[1] <= turn.n
    BY DEF Past
  <2>1. id[1] <= (IF Answering THEN turn.n - 1 ELSE turn.n)
    BY DEF TurnInv, Telling, Past
  <2>2. id \in CallId
    BY DEF TurnInv, Telling, Conversation, Message
  <2> QED BY <1>2, <2>1, <2>2 DEF CallId
<1>7. Telling'
  BY <1>1, <1>3, <1>6 DEF TurnInv, Telling, Answering
<1>8. Working'
  BY <1>1, <1>3, <1>4 DEF TurnInv, Working, Answering
<1>9. Stopping'
  BY <1>1, <1>3, <1>4 DEF TurnInv, Stopping, Live
<1>10. Metering' /\ Replying'
  BY <1>1, <1>2, <1>3 DEF TurnInv, Metering, Replying
<1> QED BY <1>5, <1>7, <1>8, <1>9, <1>10 DEF TurnInv

\* The pool takes a call of the batch, or has done with it.
LEMMA ToolsOnly ==
    ASSUME TurnAssumption, TurnInv, mode' = mode, agent' = agent, hist' = hist, turn' = turn, stream' = stream,
           billed' = billed, asked' = asked,
           tools' \in [queued : SUBSET CallId, running : SUBSET CallId, done : SUBSET CallId,
                       ran : Seq(CallId)],
           turn.pc = "tools" => Batch' = Batch
    PROVE  TurnShapes' /\ Telling' /\ Metering' /\ Replying'
<1>1. Replying'
  BY ReadStays DEF TurnInv
<1>2. TurnShapes'
  BY DEF TurnInv, TurnShapes
<1>3. Telling'
  BY DEF TurnInv, Telling, Answering, Undispatched, At
<1>4. Metering'
  BY DEF TurnInv, Metering
<1> QED BY <1>1, <1>2, <1>3, <1>4

LEMMA RunKeeps == ASSUME TurnAssumption, TurnInv, NEW id \in tools.queued, Run(id) PROVE TurnInv'
<1>1. /\ mode' = mode /\ agent' = agent /\ hist' = hist /\ turn' = turn /\ stream' = stream
      /\ billed' = billed /\ asked' = asked
      /\ tools' = [tools EXCEPT !.queued = @ \ {id}, !.running = @ \cup {id}, !.ran = Append(@, id)]
      /\ Before(id) = {}
  BY DEF Run
<1>2. /\ turn.pc = "tools" /\ id \in CallId /\ id[1] = turn.n /\ id[2] \in Nat
      /\ tools.ran \in Seq(CallId) /\ turn.n \in Nat
      /\ tools.queued \subseteq CallId /\ tools.running \subseteq CallId
  BY RanIds, RowOfTurn DEF TurnInv, TurnShapes, Working, Batch
<1>3. /\ tools' \in [queued : SUBSET CallId, running : SUBSET CallId, done : SUBSET CallId,
                     ran : Seq(CallId)]
      /\ tools'.queued = tools.queued \ {id} /\ tools'.running = tools.running \cup {id}
      /\ tools'.done = tools.done /\ tools'.ran = Append(tools.ran, id)
  <2>1. PICK q \in SUBSET CallId, r \in SUBSET CallId, s \in Seq(CallId) :
          q = tools.queued \ {id} /\ r = tools.running \cup {id} /\ s = Append(tools.ran, id)
    <3>1. /\ tools.queued \ {id} \in SUBSET CallId /\ tools.running \cup {id} \in SUBSET CallId
          /\ Append(tools.ran, id) \in Seq(CallId)
      BY <1>2
    <3> QED BY Zenon, <3>1
  <2>2. tools' = [tools EXCEPT !.queued = q, !.running = r, !.ran = s]
    BY <1>1, <2>1
  <2>3. tools \in [queued : SUBSET CallId, running : SUBSET CallId, done : SUBSET CallId,
                   ran : Seq(CallId)]
    BY DEF TurnInv, TurnShapes
  <2>4. /\ tools' \in [queued : SUBSET CallId, running : SUBSET CallId, done : SUBSET CallId,
                       ran : Seq(CallId)]
        /\ tools'.queued = q /\ tools'.running = r /\ tools'.done = tools.done /\ tools'.ran = s
    BY Zenon, <2>2, <2>3
  <2> QED BY <2>1, <2>4
<1>4. Batch' = Batch
  BY <1>3 DEF Batch
<1>5. TurnShapes' /\ Telling' /\ Metering' /\ Replying'
  BY <1>1, <1>3, <1>4, ToolsOnly
<1>6. /\ DOMAIN tools'.ran = 1 .. Len(tools.ran) + 1 /\ DOMAIN tools.ran = 1 .. Len(tools.ran)
      /\ Len(tools.ran) \in Nat
      /\ \A i \in DOMAIN tools.ran : tools'.ran[i] = tools.ran[i]
      /\ tools'.ran[Len(tools.ran) + 1] = id
  BY <1>2, <1>3
<1>7. \A i \in DOMAIN tools'.ran :
        i \in DOMAIN tools.ran \/ (i = Len(tools.ran) + 1 /\ tools'.ran[i] = id)
  BY <1>6
<1>8. \A i \in DOMAIN tools.ran :
        /\ tools.ran[i][1] \in Nat /\ tools.ran[i][2] \in Nat /\ tools.ran[i][1] <= turn.n
        /\ tools.ran[i] # id /\ tools.ran[i] \notin tools.queued
        /\ mode.sameFile /\ tools.ran[i][1] = id[1] => tools.ran[i][2] < id[2]
        /\ \A d \in tools.queued :
             mode.sameFile /\ tools.ran[i][1] = d[1] => tools.ran[i][2] < d[2]
  BY RanIds DEF TurnInv, Working
\* The calls still queued are after this one, when they are on one file.
<1>9. \A d \in tools.queued : d # id /\ mode.sameFile => id[2] < d[2]
  <2> SUFFICES ASSUME NEW d \in tools.queued, d # id, mode.sameFile PROVE id[2] < d[2]
    OBVIOUS
  <2>1. ~(d[2] < id[2])
    BY <1>1 DEF Before
  <2>2. d \in CallId /\ d[1] = id[1] /\ d[2] \in Nat
    BY <1>2, RanIds DEF TurnInv, Working, Batch
  <2>3. d[2] # id[2]
    BY <1>2, <2>2 DEF CallId
  <2> QED BY <1>2, <2>1, <2>2, <2>3
<1>10. Working'
  <2>1. \A i \in DOMAIN tools'.ran :
         /\ tools'.ran[i][1] <= turn.n
         /\ tools'.ran[i] \notin tools'.queued
         /\ \A d \in tools'.queued :
              mode.sameFile /\ tools'.ran[i][1] = d[1] => tools'.ran[i][2] < d[2]
    <3> TAKE i \in DOMAIN tools'.ran
    <3>1. CASE i \in DOMAIN tools.ran
      BY <1>3, <1>6, <1>8, <3>1
    <3>2. CASE tools'.ran[i] = id
      BY <1>2, <1>3, <1>9, <3>2
    <3> QED BY <1>7, <3>1, <3>2
  <2>2. \A i, j \in DOMAIN tools'.ran : i < j =>
         /\ tools'.ran[i] # tools'.ran[j]
         /\ mode.sameFile /\ tools'.ran[i][1] = tools'.ran[j][1] =>
              tools'.ran[i][2] < tools'.ran[j][2]
    <3> TAKE i, j \in DOMAIN tools'.ran
    <3> HAVE i < j
    <3>1. i \in DOMAIN tools.ran
      BY <1>6
    <3>2. CASE j \in DOMAIN tools.ran
      BY <1>6, <3>1, <3>2 DEF TurnInv, Working
    <3>3. CASE tools'.ran[j] = id
      BY <1>6, <1>8, <3>1, <3>3
    <3> QED BY <1>7, <3>2, <3>3
  <2>3. ~Answering
    BY <1>2 DEF Answering
  <2>4. stream.finish # "none" /\ \A d \in Batch : d[1] = turn.n /\ stream.slot[d[2]] = "whole"
    BY <1>2 DEF TurnInv, Working
  <2> QED BY <1>1, <1>2, <1>4, <2>1, <2>2, <2>3, <2>4 DEF Working, Answering
<1>11. Stopping'
  <2>1. turn.n < asked.n \/ (turn.n = asked.n /\ asked.dispatched)
    BY <1>2 DEF TurnInv, Stopping, Live, TurnShapes
  <2>2. \A i \in DOMAIN tools'.ran :
          tools'.ran[i][1] < asked.n \/ (tools'.ran[i][1] = asked.n /\ asked.dispatched)
    <3> TAKE i \in DOMAIN tools'.ran
    <3>1. CASE i \in DOMAIN tools.ran
      BY <1>6, <3>1 DEF TurnInv, Stopping
    <3>2. CASE tools'.ran[i] = id
      BY <1>2, <2>1, <3>2
    <3> QED BY <1>7, <3>1, <3>2
  <2> QED BY <1>1, <2>2 DEF TurnInv, Stopping, Live
<1> QED BY <1>5, <1>10, <1>11 DEF TurnInv

LEMMA ReturnKeeps == ASSUME TurnAssumption, TurnInv, NEW id \in tools.running, Return(id) PROVE TurnInv'
<1>1. /\ mode' = mode /\ agent' = agent /\ hist' = hist /\ turn' = turn /\ stream' = stream
      /\ billed' = billed /\ asked' = asked
      /\ tools' = [tools EXCEPT !.running = @ \ {id}, !.done = @ \cup {id}]
  BY DEF Return
<1>2. turn.pc \in {"tools", "dead"} /\ id \in CallId
  BY RanIds DEF TurnInv, Working, Batch
<1>3. /\ tools' \in [queued : SUBSET CallId, running : SUBSET CallId, done : SUBSET CallId,
                     ran : Seq(CallId)]
      /\ tools'.queued = tools.queued /\ tools'.running = tools.running \ {id}
      /\ tools'.done = tools.done \cup {id} /\ tools'.ran = tools.ran
  <2>1. tools \in [queued : SUBSET CallId, running : SUBSET CallId, done : SUBSET CallId,
                   ran : Seq(CallId)]
    BY DEF TurnInv, TurnShapes
  <2>2. PICK r \in SUBSET CallId, d \in SUBSET CallId :
          r = tools.running \ {id} /\ d = tools.done \cup {id}
    BY Zenon, <1>2, <2>1
  <2>3. tools' = [tools EXCEPT !.running = r, !.done = d]
    BY <1>1, <2>2
  <2>4. /\ tools' \in [queued : SUBSET CallId, running : SUBSET CallId, done : SUBSET CallId,
                       ran : Seq(CallId)]
        /\ tools'.queued = tools.queued /\ tools'.running = r /\ tools'.done = d
        /\ tools'.ran = tools.ran
    BY Zenon, <2>1, <2>3
  <2> QED BY <2>2, <2>4
<1>4. Batch' = Batch
  BY <1>3 DEF Batch
<1>5. TurnShapes' /\ Telling' /\ Metering' /\ Replying'
  BY <1>1, <1>3, <1>4, ToolsOnly
<1>6. Working'
  BY <1>1, <1>2, <1>3, <1>4 DEF TurnInv, Working, Answering
<1>7. Stopping'
  BY <1>1, <1>3 DEF TurnInv, Stopping, Live
<1> QED BY <1>5, <1>6, <1>7 DEF TurnInv

LEMMA TurnStutters == ASSUME TurnAssumption, TurnInv, UNCHANGED turnVars PROVE TurnInv'
<1>1. /\ mode' = mode /\ agent' = agent /\ hist' = hist /\ turn' = turn /\ stream' = stream
      /\ tools' = tools /\ billed' = billed /\ asked' = asked
  BY DEF turnVars
<1>2. TurnShapes' /\ Stopping'
  BY <1>1 DEF TurnInv, TurnShapes, Stopping, Live
<1> QED BY <1>1, <1>2, BesideKeeps DEF TurnInv

LEMMA TurnStep == ASSUME TurnAssumption, TurnInv, [TurnNext]_(turnVars) PROVE TurnInv'
  BY RequestInterruptKeeps, SteerKeeps, TopKeeps, PrepareKeeps, SendKeeps, AbortKeeps,
     DeliverKeeps, BreakKeeps, EndOfStreamKeeps, ReplyKeeps, JoinKeeps, SignalKeeps, RunKeeps,
     ReturnKeeps, TurnStutters DEF TurnNext

LEMMA TurnInitially == ASSUME TurnAssumption, TurnInit PROVE TurnInv
<1>1. /\ mode \in [dialect : Dialect, streams : BOOLEAN, forced : BOOLEAN, dispatch : BOOLEAN,
              sameFile : BOOLEAN]
      /\ agent = [interrupt |-> FALSE, steers |-> 0, inbox |-> 0]
      /\ hist = [at |-> [i \in {0} |-> User], next |-> 1]
      /\ turn = [pc |-> "top", n |-> 0, latch |-> FALSE, stop |-> "none", error |-> FALSE,
                 interrupted |-> FALSE, total |-> 0, complete |-> TRUE, uncertain |-> FALSE]
      /\ stream = [slot |-> [k \in Slot |-> "none"], finish |-> "none", receipt |-> FALSE]
      /\ tools = [queued |-> {}, running |-> {}, done |-> {}, ran |-> <<>>]
      /\ billed = [calls |-> 0, summaries |-> 0] /\ asked = [n |-> MaxIterations, dispatched |-> TRUE]
  BY DEF TurnInit, Silent, None
<1>2. TurnShapes
  <2>1. turn \in TurnRow
    BY <1>1 DEF TurnRow, Flow
  <2>2. tools.ran \in Seq(CallId)
    BY <1>1
  <2> QED BY <1>1, <2>1, <2>2, TurnConstants DEF TurnShapes
<1>3. /\ DOMAIN hist.at = {0} /\ hist.at[0] = User /\ hist.next = 1
      /\ User \in Message /\ User.role = "user"
  BY <1>1 DEF User, Message
<1>4. Conversation(hist.at)
  <2>1. IsFiniteSet({0})
    BY FS_Singleton
  <2> QED BY <1>3, <2>1 DEF Conversation, Calls
<1>5. Replays(hist.at, DOMAIN hist.at) /\ Past(hist.at, 0)
  BY <1>3 DEF Replays, Past, Calls
<1>6. Telling
  BY <1>1, <1>3, <1>4, <1>5 DEF Telling, Answering
<1>7. Working
  BY <1>1 DEF Working, Answering
<1>8. Stopping
  BY <1>1, TurnConstants DEF Stopping, Live
<1>9. Metering /\ Replying
  BY <1>1 DEF Metering, Replying
<1> QED BY <1>2, <1>6, <1>7, <1>8, <1>9 DEF TurnInv

LEMMA InvTurns ==
    ASSUME TurnAssumption, TurnInv
    PROVE  HistoryReplays /\ ToolsRunAsAsked /\ MeterIsAFloor
<1>1. HistoryReplays
  <2> SUFFICES ASSUME turn.pc \in {"stream", "end"}
               PROVE  /\ \A i \in Told : hist.at[i].role = "assistant" =>
                           UNION {hist.at[m].ids : m \in Answers(i)} = hist.at[i].ids
                      /\ \A m \in Told : hist.at[m].role = "tool" =>
                           \E i \in Told : m \in Answers(i) /\ hist.at[i].role = "assistant"
    BY DEF HistoryReplays
  <2>1. Replays(hist.at, Told)
    <3>1. \A i \in DOMAIN hist.at : i \in Nat /\ i < hist.next /\ hist.next \in Nat
      BY DEF TurnInv, Telling, Conversation
    <3>2. CASE ~Undispatched
      <4>1. Told = DOMAIN hist.at
        BY <3>2 DEF Told
      <4> QED BY <3>2, <4>1 DEF TurnInv, Telling
    <3>3. CASE Undispatched
      <4>1. Told = DOMAIN hist.at \ {hist.next - 1}
        BY <3>1, <3>3 DEF Told
      <4>2. PICK i \in DOMAIN hist.at :
              i = hist.next - 1 /\ Calls(hist.at, i) /\ hist.at[i].ids # {}
        BY <3>3 DEF Undispatched, Calls
      <4>3. Follow(hist.at, DOMAIN hist.at, i) = {}
        BY <3>1, <4>2 DEF Follow
      <4>4. ~Replays(hist.at, DOMAIN hist.at)
        BY <4>2, <4>3 DEF Replays
      <4> QED BY <4>1, <4>4 DEF TurnInv, Telling
    <3> QED BY <3>2, <3>3
  <2>2. \A i \in Told : Answers(i) = Follow(hist.at, Told, i)
    BY DEF Answers, Follow
  <2>3. ASSUME NEW i \in Told, hist.at[i].role = "assistant"
        PROVE  UNION {hist.at[m].ids : m \in Answers(i)} = hist.at[i].ids
    <3>1. /\ \A id \in hist.at[i].ids : \E m \in Answers(i) : id \in hist.at[m].ids
          /\ \A m \in Answers(i) : hist.at[m].ids \subseteq hist.at[i].ids
      BY <2>1, <2>2, <2>3 DEF Replays, Calls
    <3> QED BY <3>1
  <2> QED BY <2>1, <2>2, <2>3 DEF Replays, Calls
<1>2. ToolsRunAsAsked
  <2>1. \A id \in Range(tools.ran) :
          id[1] < asked.n \/ (id[1] = asked.n /\ asked.dispatched)
    BY DEF TurnInv, Stopping, Range
  <2>2. \A id \in tools.queued \cup tools.running :
          turn.pc = "tools" => stream.slot[id[2]] = "whole" /\ stream.finish # "none"
    BY DEF TurnInv, Working, Batch
  <2> QED BY <2>1, <2>2 DEF TurnInv, Working, Stopping, ToolsRunAsAsked, At, None
<1>3. MeterIsAFloor
  <2>1. turn.total \in Nat /\ billed \in [calls : Nat, summaries : Nat]
    BY RowOfTurn DEF TurnInv, TurnShapes
  <2> QED BY <2>1 DEF TurnInv, Metering, MeterIsAFloor, At
<1> QED BY <1>1, <1>2, <1>3

(* A history replays through compaction, interrupts and forced answers, no *)
(* tool runs that was not asked for, twice or after the stop, and the      *)
(* meter is a floor of the bill (agent/loop.py run_conversation).          *)
THEOREM TurnsStayFaithful ==
    ASSUME TurnAssumption
    PROVE  TurnSpec => [](HistoryReplays /\ ToolsRunAsAsked /\ MeterIsAFloor)
<1>1. TurnInit => TurnInv
  BY TurnInitially
<1>2. TurnInv /\ [TurnNext]_turnVars => TurnInv'
  BY TurnStep
<1>3. TurnInv => HistoryReplays /\ ToolsRunAsAsked /\ MeterIsAFloor
  BY InvTurns
<1> QED BY <1>1, <1>2, <1>3, PTL DEF TurnSpec
===============================================================================
