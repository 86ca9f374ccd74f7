-------------------------- MODULE StreamServerProofs --------------------------
(***************************************************************************)
(* Theorems about StreamServer, for any number of requests, producers,     *)
(* queued pieces and pieces of an answer.                                  *)
(***************************************************************************)
EXTENDS StreamServer, FiniteSetTheorems, TLAPS

BridgeRow ==
    [queue : Seq(1..Answer), closed : BOOLEAN, disp : Disposition, receipt : BOOLEAN,
     pending : BOOLEAN, ready : BOOLEAN, cancelled : BOOLEAN, bound : BOOLEAN,
     interrupted : BOOLEAN]

ProdRow ==
    [pc : {"none", "started", "bound", "putting", "wound", "publish", "tail", "ended"},
     size : 0..Answer, made : 0..Answer, fate : {"completed", "failed", "cancelled"}]

HttpRow ==
    [pc : {"idle", "launch", "launched", "drain", "done", "refused"} \cup Reading \cup Closing,
     launching : BOOLEAN, cancel : BOOLEAN, sent : Seq(1..Answer), piece : 0..Answer,
     terminal : {"none", "stop", "error"}]

HostRow ==
    [closed : BOOLEAN, pc : {"up", "wait", "down"} \cup Closing, todo : SUBSET Request,
     at : Request \cup {Nobody}, cleaned : BOOLEAN]

Types ==
    /\ bridge \in [Request -> BridgeRow]
    /\ prod \in [Request -> ProdRow]
    /\ http \in [Request -> HttpRow]
    /\ workers \subseteq Request
    /\ host \in HostRow

\* The response still reads, or will.
Delivering(h) == h.pc \in {"idle", "launch", "launched"} \cup Reading

\* The piece it holds is neither queued nor sent.
Held(h) == IF h.pc = "write" THEN 1 ELSE 0

(* One request: what its bridge, its producer and its task know of each    *)
(* other. What is sent, held and queued is the beginning of the answer,    *)
(* and all of it as long as nobody closed the bridge.                      *)
RequestInv(b, p, h, down) ==
    /\ Len(b.queue) =< Depth
    /\ p.made =< p.size
    /\ p.pc = "putting" => p.made < p.size
    /\ p.pc \in {"none", "started"} => p.made = 0
    /\ p.pc \in {"wound", "publish", "tail", "ended"} /\ p.fate = "completed" =>
          p.made = p.size
    /\ b.receipt <=> p.pc \in {"tail", "ended"}
    /\ b.disp = "completed" => b.receipt /\ p.fate = "completed"
    /\ h.pc \in {"idle", "launch"} => p.pc = "none"
    /\ h.pc \in {"launch", "launched"} => h.launching
    /\ \A i \in 1..Len(h.sent) : h.sent[i] = i
    /\ Delivering(h) =>
          /\ b.closed => down
          /\ h.pc = "write" => h.piece = Len(h.sent) + 1
          /\ \A i \in 1..Len(b.queue) : b.queue[i] = Len(h.sent) + Held(h) + i
          /\ ~b.closed => Len(h.sent) + Held(h) + Len(b.queue) = p.made
          /\ h.terminal # "stop"
    /\ h.pc = "frame" => b.queue = <<>> /\ (b.closed \/ b.receipt)
    /\ h.terminal = "stop" =>
          /\ b.receipt /\ p.fate = "completed" /\ b.disp = "completed"
          /\ Len(h.sent) = p.size \/ down

(* The inventory and the host: a thread and a reservation are owned, and   *)
(* a shutdown is for ever.                                                 *)
Owned(r) == Alive(r) \/ http[r].pc = "launch" => r \in workers

HostInv ==
    /\ IsFiniteSet(workers) /\ Cardinality(workers) =< Workers
    /\ host.pc # "up" => host.closed
    /\ host.cleaned => host.closed
    /\ host.cleaned => \A r \in Request : ~Alive(r) /\ http[r].pc # "launch"

StreamInv ==
    /\ Types
    /\ \A r \in Request : RequestInv(bridge[r], prod[r], http[r], host.closed) /\ Owned(r)
    /\ HostInv

-------------------------------------------------------------------------------
(* Queues of pieces *)

\* A piece joins the end of a queue.
LEMMA AtTheEnd ==
    ASSUME NEW S, NEW q \in Seq(S), NEW e \in S
    PROVE  /\ Append(q, e) \in Seq(S) /\ Len(Append(q, e)) = Len(q) + 1
           /\ \A i \in 1..Len(q) + 1 : Append(q, e)[i] = IF i = Len(q) + 1 THEN e ELSE q[i]
OBVIOUS

\* A piece leaves its head.
LEMMA FromTheHead ==
    ASSUME NEW S, NEW q \in Seq(S), q # <<>>
    PROVE  /\ Head(q) \in S /\ Head(q) = q[1]
           /\ Tail(q) \in Seq(S) /\ Len(Tail(q)) = Len(q) - 1 /\ Len(q) \in Nat \ {0}
           /\ \A i \in 1..Len(q) - 1 : Tail(q)[i] = q[i + 1]
OBVIOUS

\* An empty queue is one of no pieces.
LEMMA Empty == <<>> \in Seq(1..Answer) /\ Len(<<>>) = 0
OBVIOUS

-------------------------------------------------------------------------------
(* One request moves *)

\* What the steps of one request leave alone of all others.
OnlyMoves(r, b, p, h) ==
    /\ bridge' = [bridge EXCEPT ![r] = b]
    /\ prod' = [prod EXCEPT ![r] = p]
    /\ http' = [http EXCEPT ![r] = h]

\* A request that moves within its invariant leaves every row as it should be.
LEMMA RowMoves ==
    ASSUME StreamInv, NEW r \in Request,
           NEW b \in BridgeRow, NEW p \in ProdRow, NEW h \in HttpRow,
           OnlyMoves(r, b, p, h), RequestInv(b, p, h, host.closed)
    PROVE  /\ bridge' \in [Request -> BridgeRow] /\ prod' \in [Request -> ProdRow]
           /\ http' \in [Request -> HttpRow]
           /\ bridge'[r] = b /\ prod'[r] = p /\ http'[r] = h
           /\ \A q \in Request : q # r =>
                 bridge'[q] = bridge[q] /\ prod'[q] = prod[q] /\ http'[q] = http[q]
           /\ \A q \in Request : RequestInv(bridge'[q], prod'[q], http'[q], host.closed)
<1>1. /\ bridge' \in [Request -> BridgeRow] /\ prod' \in [Request -> ProdRow]
      /\ http' \in [Request -> HttpRow]
      /\ bridge'[r] = b /\ prod'[r] = p /\ http'[r] = h
      /\ \A q \in Request : q # r =>
            bridge'[q] = bridge[q] /\ prod'[q] = prod[q] /\ http'[q] = http[q]
  BY DEF StreamInv, Types, OnlyMoves
<1>2. ASSUME NEW q \in Request
      PROVE  RequestInv(bridge'[q], prod'[q], http'[q], host.closed)
  <2>1. CASE q = r
    BY <1>1, <2>1
  <2>2. CASE q # r
    BY <1>1, <2>2 DEF StreamInv
  <2> QED BY <2>1, <2>2
<1> QED BY <1>1, <1>2

\* Where nothing new is alive or reserved, the inventory has nothing to learn.
LEMMA RequestMoves ==
    ASSUME StreamInv, NEW r \in Request,
           NEW b \in BridgeRow, NEW p \in ProdRow, NEW h \in HttpRow,
           OnlyMoves(r, b, p, h), UNCHANGED <<workers, host>>,
           RequestInv(b, p, h, host.closed),
           p.pc \in {"none", "ended"} \/ Alive(r),
           h.pc = "launch" => http[r].pc = "launch"
    PROVE  StreamInv'
<1>1. /\ bridge' \in [Request -> BridgeRow] /\ prod' \in [Request -> ProdRow]
      /\ http' \in [Request -> HttpRow]
      /\ bridge'[r] = b /\ prod'[r] = p /\ http'[r] = h
      /\ \A q \in Request : q # r =>
            bridge'[q] = bridge[q] /\ prod'[q] = prod[q] /\ http'[q] = http[q]
      /\ \A q \in Request : RequestInv(bridge'[q], prod'[q], http'[q], host.closed)
  BY RowMoves
<1>2. ASSUME NEW q \in Request
      PROVE  (Alive(q) \/ http[q].pc = "launch")' => Alive(q) \/ http[q].pc = "launch"
  <2>1. CASE q = r
    BY <1>1, <2>1 DEF Alive
  <2>2. CASE q # r
    BY <1>1, <2>2 DEF Alive
  <2> QED BY <2>1, <2>2
<1>3. \A q \in Request : Owned(q)'
  BY <1>2 DEF StreamInv, Owned
<1>4. HostInv'
  BY <1>2 DEF StreamInv, HostInv
<1> QED BY <1>1, <1>3, <1>4 DEF StreamInv, Types

-------------------------------------------------------------------------------
(* The producer's steps *)

\* A step that leaves a row alone replaces it by itself.
LEMMA SameRow ==
    ASSUME StreamInv, NEW r \in Request
    PROVE  /\ bridge = [bridge EXCEPT ![r] = bridge[r]]
           /\ prod = [prod EXCEPT ![r] = prod[r]]
           /\ http = [http EXCEPT ![r] = http[r]]
<1>1. bridge \in [Request -> BridgeRow] /\ prod \in [Request -> ProdRow]
      /\ http \in [Request -> HttpRow]
  BY DEF StreamInv, Types
<1> QED BY <1>1

\* The rows of a request are of their types.
LEMMA Rows ==
    ASSUME StreamInv, NEW r \in Request
    PROVE  /\ bridge[r] \in BridgeRow /\ prod[r] \in ProdRow /\ http[r] \in HttpRow
           /\ RequestInv(bridge[r], prod[r], http[r], host.closed) /\ Owned(r)
           /\ host \in HostRow
BY DEF StreamInv, Types

\* The loop's callback sets the flag a reader waits for.
LEMMA NotifyKeeps ==
    ASSUME StreamAssumption, StreamInv, NEW r \in Request, Notify(r)
    PROVE  StreamInv'
<1> DEFINE b == Woken(bridge[r])
<1>1. OnlyMoves(r, b, prod[r], http[r]) /\ UNCHANGED <<workers, host>>
  BY SameRow DEF Notify, OnlyMoves
<1>2. b \in BridgeRow
  BY Rows DEF Woken, BridgeRow
<1>3. RequestInv(b, prod[r], http[r], host.closed)
  BY Rows DEF Woken, BridgeRow, RequestInv, Delivering
<1>4. prod[r].pc \in {"none", "ended"} \/ Alive(r)
  BY DEF Alive
<1> HIDE DEF b
<1> QED BY <1>1, <1>2, <1>3, <1>4, Rows, RequestMoves

\* A producer's step moves its own rows only.
LEMMA ProducerKeeps ==
    ASSUME StreamAssumption, StreamInv, NEW r \in Request, Producer(r)
    PROVE  StreamInv'
<1> DEFINE b0 == bridge[r]  p0 == prod[r]  h0 == http[r]  down == host.closed
<1>0. /\ b0 \in BridgeRow /\ p0 \in ProdRow /\ h0 \in HttpRow /\ down \in BOOLEAN
      /\ RequestInv(b0, p0, h0, down) /\ Alive(r)
      /\ Workers \in Nat /\ Depth \in Nat /\ Answer \in Nat
      /\ Len(b0.queue) \in Nat /\ Len(h0.sent) \in Nat
  <2>1. Alive(r)
    BY DEF Producer, Bind, Offer, Put, Unbind, Conclude, Publish, Exit, Alive
  <2>2. b0 \in BridgeRow /\ p0 \in ProdRow /\ h0 \in HttpRow /\ host \in HostRow
        /\ RequestInv(b0, p0, h0, down)
    BY Rows
  <2>3. b0.queue \in Seq(1..Answer) /\ h0.sent \in Seq(1..Answer) /\ down \in BOOLEAN
    BY <2>2 DEF BridgeRow, HttpRow, HostRow
  <2>4. Len(b0.queue) \in Nat /\ Len(h0.sent) \in Nat
    BY <2>3
  <2> QED BY <2>1, <2>2, <2>3, <2>4 DEF StreamAssumption
<1>m. ASSUME NEW b \in BridgeRow, NEW p \in ProdRow, OnlyMoves(r, b, p, h0),
             UNCHANGED <<workers, host>>, RequestInv(b, p, h0, down)
      PROVE  StreamInv'
  BY <1>0, <1>m, RequestMoves
<1>1. CASE Bind(r)
  <2>1. PICK n \in 0..Answer, fate \in {"completed", "failed"} :
          prod' = [prod EXCEPT ![r] = [@ EXCEPT !.pc = "bound", !.size = n, !.fate = fate]]
    BY <1>1 DEF Bind
  <2> DEFINE p == [p0 EXCEPT !.pc = "bound", !.size = n, !.fate = fate]
             b == [b0 EXCEPT !.bound = TRUE, !.interrupted = b0.interrupted \/ b0.cancelled]
  <2>2. OnlyMoves(r, b, p, h0) /\ UNCHANGED <<workers, host>>
    BY <1>1, <2>1, SameRow DEF Bind, OnlyMoves
  <2>3. b \in BridgeRow /\ p \in ProdRow
    BY <1>0 DEF BridgeRow, ProdRow
  <2>4. /\ b.queue = b0.queue /\ b.closed = b0.closed /\ b.disp = b0.disp
        /\ b.receipt = b0.receipt /\ p.pc = "bound" /\ p.size = n /\ p.made = p0.made
        /\ p0.pc = "started"
    BY <1>0, <1>1 DEF Bind, BridgeRow, ProdRow
  <2> HIDE DEF b, p
  <2>5. RequestInv(b, p, h0, down)
    BY <1>0, <2>4 DEF RequestInv, Delivering
  <2> QED BY <2>2, <2>3, <2>5, <1>m
<1>2. CASE Offer(r)
  <2> DEFINE p == [p0 EXCEPT !.pc = "putting"]
  <2>1. OnlyMoves(r, b0, p, h0) /\ UNCHANGED <<workers, host>>
    BY <1>2, SameRow DEF Offer, Step, OnlyMoves
  <2>2. /\ p \in ProdRow /\ p.pc = "putting" /\ p.size = p0.size /\ p.made = p0.made
        /\ p.fate = p0.fate /\ p0.pc = "bound" /\ p0.made < p0.size
    BY <1>0, <1>2 DEF Offer, ProdRow
  <2> HIDE DEF p
  <2>3. RequestInv(b0, p, h0, down)
    BY <1>0, <2>2 DEF RequestInv, Delivering
  <2> QED BY <1>0, <2>1, <2>2, <2>3, <1>m
<1>3. CASE Put(r)
  <2> DEFINE p == [p0 EXCEPT !.pc = "bound", !.made = p0.made + 1]
  <2>0. /\ p0.pc = "putting" /\ p0.made < p0.size
        /\ p0.made \in Nat /\ p0.size \in 0..Answer
        /\ p0.made + 1 \in 1..Answer /\ p0.made + 1 \in 0..Answer
    BY <1>0, <1>3 DEF Put, ProdRow, RequestInv
  <2>1. /\ p \in ProdRow /\ p.pc = "bound" /\ p.size = p0.size /\ p.made = p0.made + 1
        /\ p.fate = p0.fate
    BY <1>0, <2>0 DEF ProdRow
  <2>2. CASE b0.closed \/ b0.receipt
    <3>1. OnlyMoves(r, b0, p, h0) /\ UNCHANGED <<workers, host>>
      BY <1>3, <2>2, SameRow DEF Put, OnlyMoves
    <3> HIDE DEF p
    <3>2. RequestInv(b0, p, h0, down)
      BY <1>0, <2>0, <2>1, <2>2 DEF RequestInv, Delivering
    <3> QED BY <1>0, <2>1, <3>1, <3>2, <1>m
  <2>3. CASE ~(b0.closed \/ b0.receipt)
    <3> DEFINE q == Append(b0.queue, p0.made + 1)
               b == Notified([b0 EXCEPT !.queue = q])
    <3>1. OnlyMoves(r, b, p, h0) /\ UNCHANGED <<workers, host>> /\ Len(b0.queue) < Depth
      BY <1>3, <2>3, SameRow DEF Put, OnlyMoves
    <3>2. /\ q \in Seq(1..Answer) /\ Len(q) = Len(b0.queue) + 1
          /\ \A i \in 1..Len(b0.queue) + 1 :
                q[i] = IF i = Len(b0.queue) + 1 THEN p0.made + 1 ELSE b0.queue[i]
      BY <1>0, <2>0, AtTheEnd DEF BridgeRow
    <3> HIDE DEF p, q
    <3>3. /\ b \in BridgeRow /\ b.queue = q /\ b.closed = b0.closed /\ b.disp = b0.disp
          /\ b.receipt = b0.receipt
      BY <1>0, <3>2 DEF Notified, BridgeRow
    <3> HIDE DEF b
    <3>4. h0.pc # "frame" /\ h0.terminal # "stop" /\ Held(h0) \in 0..1
      BY <1>0, <2>3 DEF RequestInv, Held
    <3>5. ASSUME Delivering(h0)
          PROVE  /\ Len(h0.sent) + Held(h0) + Len(b0.queue) = p0.made
                 /\ \A i \in 1..Len(b0.queue) : b0.queue[i] = Len(h0.sent) + Held(h0) + i
      BY <1>0, <2>3, <3>5 DEF RequestInv
    <3>6. ASSUME Delivering(h0)
          PROVE  /\ Len(h0.sent) + Held(h0) + Len(q) = p.made
                 /\ \A i \in 1..Len(q) : q[i] = Len(h0.sent) + Held(h0) + i
      <4> DEFINE n == Len(b0.queue)  k == Len(h0.sent) + Held(h0)
      <4>1. n \in Nat /\ k \in Int /\ k + n = p0.made /\ Len(q) = n + 1 /\ p.made = p0.made + 1
        BY <1>0, <2>1, <3>2, <3>4, <3>5, <3>6
      <4>2. ASSUME NEW i \in 1..Len(q) PROVE q[i] = k + i
        <5>1. /\ i \in 1..n + 1 /\ q[i] = IF i = n + 1 THEN p0.made + 1 ELSE b0.queue[i]
              /\ i \in 1..n => b0.queue[i] = k + i
          BY <3>2, <3>5, <3>6, <4>1
        <5> HIDE DEF n, k
        <5> QED BY <2>0, <4>1, <5>1
      <4> HIDE DEF n, k
      <4>3. k + Len(q) = p.made
        BY <2>0, <4>1
      <4> QED BY <4>2, <4>3 DEF k
    <3>7. Len(q) =< Depth
      BY <1>0, <3>1, <3>2
    <3>8. ASSUME Delivering(h0)
          PROVE  h0.pc = "write" => h0.piece = Len(h0.sent) + 1
      BY <1>0, <3>8 DEF RequestInv
    <3>9. RequestInv(b, p, h0, down)
      BY <1>0, <2>0, <2>1, <2>3, <3>3, <3>4, <3>6, <3>7, <3>8 DEF RequestInv
    <3> QED BY <2>1, <3>1, <3>3, <3>9, <1>m
  <2> QED BY <2>2, <2>3
<1>4. CASE Unbind(r)
  <2> DEFINE p == [p0 EXCEPT !.pc = "wound",
                     !.fate = IF b0.interrupted THEN "cancelled" ELSE p0.fate]
             b == [b0 EXCEPT !.bound = FALSE]
  <2>1. OnlyMoves(r, b, p, h0) /\ UNCHANGED <<workers, host>>
    BY <1>4, SameRow DEF Unbind, OnlyMoves
  <2>2. /\ p \in ProdRow /\ p.pc = "wound" /\ p.size = p0.size /\ p.made = p0.made
        /\ p.fate = "completed" => p.made = p.size
        /\ p0.pc = "bound"
    BY <1>0, <1>4 DEF Unbind, ProdRow
  <2>3. /\ b \in BridgeRow /\ b.queue = b0.queue /\ b.closed = b0.closed /\ b.disp = b0.disp
        /\ b.receipt = b0.receipt
    BY <1>0 DEF BridgeRow
  <2> HIDE DEF b, p
  <2>4. RequestInv(b, p, h0, down)
    BY <1>0, <2>2, <2>3 DEF RequestInv, Delivering
  <2> QED BY <2>1, <2>2, <2>3, <2>4, <1>m
<1>5. CASE Conclude(r)
  <2> DEFINE p == [p0 EXCEPT !.pc = "publish",
                     !.fate = IF b0.cancelled THEN "cancelled" ELSE p0.fate]
  <2>1. OnlyMoves(r, b0, p, h0) /\ UNCHANGED <<workers, host>>
    BY <1>5, SameRow DEF Conclude, OnlyMoves
  <2>2. /\ p \in ProdRow /\ p.pc = "publish" /\ p.size = p0.size /\ p.made = p0.made
        /\ p.fate = "completed" => p0.fate = "completed"
        /\ p0.pc = "wound"
    BY <1>0, <1>5 DEF Conclude, ProdRow
  <2> HIDE DEF p
  <2>3. RequestInv(b0, p, h0, down)
    BY <1>0, <2>2 DEF RequestInv, Delivering
  <2> QED BY <1>0, <2>1, <2>2, <2>3, <1>m
<1>6. CASE Publish(r)
  <2> DEFINE p == [p0 EXCEPT !.pc = "tail"]
             b == Published(b0, p0.fate)
  <2>1. OnlyMoves(r, b, p, h0) /\ UNCHANGED <<workers, host>>
    BY <1>6, SameRow DEF Publish, Step, OnlyMoves
  <2>2. /\ p \in ProdRow /\ p.pc = "tail" /\ p.size = p0.size /\ p.made = p0.made
        /\ p.fate = p0.fate /\ p0.pc = "publish"
    BY <1>0, <1>6 DEF Publish, ProdRow
  <2>3. /\ b \in BridgeRow /\ b.queue = b0.queue /\ b.closed = b0.closed /\ b.receipt
        /\ b.disp = IF b0.disp = "none" THEN p0.fate ELSE b0.disp
    BY <1>0 DEF Published, Notified, BridgeRow, ProdRow, Disposition
  <2> HIDE DEF b, p
  <2>4. RequestInv(b, p, h0, down)
    BY <1>0, <2>2, <2>3 DEF RequestInv, Delivering
  <2> QED BY <2>1, <2>2, <2>3, <2>4, <1>m
<1>7. CASE Exit(r)
  <2> DEFINE p == [p0 EXCEPT !.pc = "ended"]
  <2>1. OnlyMoves(r, b0, p, h0) /\ UNCHANGED <<workers, host>>
    BY <1>7, SameRow DEF Exit, Step, OnlyMoves
  <2>2. /\ p \in ProdRow /\ p.pc = "ended" /\ p.size = p0.size /\ p.made = p0.made
        /\ p.fate = p0.fate /\ p0.pc = "tail"
    BY <1>0, <1>7 DEF Exit, ProdRow
  <2> HIDE DEF p
  <2>3. RequestInv(b0, p, h0, down)
    BY <1>0, <2>2 DEF RequestInv, Delivering
  <2> QED BY <1>0, <2>1, <2>2, <2>3, <1>m
<1> QED BY <1>1, <1>2, <1>3, <1>4, <1>5, <1>6, <1>7 DEF Producer

-------------------------------------------------------------------------------
(* The inventory *)

\* What is reaped is neither alive nor reserved.
LEMMA ReapedOwns ==
    ASSUME StreamAssumption, StreamInv
    PROVE  /\ Reaped \subseteq Request /\ IsFiniteSet(Reaped)
           /\ Cardinality(Reaped) \in Nat /\ Cardinality(Reaped) =< Workers
           /\ \A q \in Request : Alive(q) \/ http[q].pc = "launch" => q \in Reaped
<1>1. /\ Reaped \subseteq workers /\ workers \subseteq Request
      /\ IsFiniteSet(workers) /\ Cardinality(workers) =< Workers
  BY DEF Reaped, StreamInv, Types, HostInv
<1>2. /\ IsFiniteSet(Reaped) /\ Cardinality(Reaped) =< Cardinality(workers)
      /\ Cardinality(Reaped) \in Nat /\ Cardinality(workers) \in Nat /\ Workers \in Nat
  BY <1>1, FS_Subset, FS_CardinalityType DEF StreamAssumption
<1>3. ASSUME NEW q \in Request, Alive(q) \/ http[q].pc = "launch"
      PROVE  q \in Reaped
  <2>1. q \in workers /\ (http[q].pc = "launch" => http[q].launching)
    BY <1>3, Rows DEF Owned, RequestInv
  <2> QED BY <1>3, <2>1 DEF Reaped, Retained
<1> QED BY <1>1, <1>2, <1>3

\* A request is admitted into a free slot, or refused.
LEMMA AdmitKeeps ==
    ASSUME StreamAssumption, StreamInv, NEW r \in Request, Admit(r)
    PROVE  StreamInv'
<1> DEFINE b0 == bridge[r]  p0 == prod[r]  h0 == http[r]  down == host.closed
<1>0. /\ b0 \in BridgeRow /\ p0 \in ProdRow /\ h0 \in HttpRow
      /\ RequestInv(b0, p0, h0, down) /\ h0.pc = "idle"
  BY Rows DEF Admit
<1>1. CASE host.closed \/ Cardinality(Reaped) >= Workers
  <2> DEFINE h == [h0 EXCEPT !.pc = "refused"]
  <2>1. OnlyMoves(r, b0, p0, h) /\ workers' = Reaped /\ UNCHANGED host
    BY <1>1, SameRow DEF Admit, Goto, OnlyMoves
  <2>2. /\ h \in HttpRow /\ h.pc = "refused" /\ h.sent = h0.sent /\ h.terminal = h0.terminal
    BY <1>0 DEF HttpRow
  <2> HIDE DEF h
  <2>3. RequestInv(b0, p0, h, down)
    BY <1>0, <2>2 DEF RequestInv, Delivering, Reading
  <2>4. /\ bridge' \in [Request -> BridgeRow] /\ prod' \in [Request -> ProdRow]
        /\ http' \in [Request -> HttpRow]
        /\ \A q \in Request : RequestInv(bridge'[q], prod'[q], http'[q], host.closed)
    BY <1>0, <2>1, <2>2, <2>3, RowMoves
  <2>5. \A q \in Request :
          (Alive(q) \/ http[q].pc = "launch")' => Alive(q) \/ http[q].pc = "launch"
    BY <1>0, <2>1, <2>2, <2>3, RowMoves DEF Alive
  <2>6. \A q \in Request : Owned(q)'
    BY <2>1, <2>5, ReapedOwns DEF Owned
  <2>7. HostInv'
    BY <2>1, <2>5, ReapedOwns DEF StreamInv, HostInv
  <2> QED BY <2>1, <2>4, <2>6, <2>7, ReapedOwns DEF StreamInv, Types
<1>2. CASE ~(host.closed \/ Cardinality(Reaped) >= Workers)
  <2> DEFINE h == [h0 EXCEPT !.pc = "launch", !.launching = TRUE]
  <2>1. OnlyMoves(r, b0, p0, h) /\ workers' = Reaped \cup {r} /\ UNCHANGED host
    BY <1>2, SameRow DEF Admit, OnlyMoves
  <2>2. /\ h \in HttpRow /\ h.pc = "launch" /\ h.launching
        /\ h.sent = h0.sent /\ h.terminal = h0.terminal
    BY <1>0 DEF HttpRow
  <2> HIDE DEF h
  <2>3. RequestInv(b0, p0, h, down)
    BY <1>0, <2>2 DEF RequestInv, Delivering, Reading, Held
  <2>4. /\ bridge' \in [Request -> BridgeRow] /\ prod' \in [Request -> ProdRow]
        /\ http' \in [Request -> HttpRow]
        /\ \A q \in Request : RequestInv(bridge'[q], prod'[q], http'[q], host.closed)
    BY <1>0, <2>1, <2>2, <2>3, RowMoves
  <2>5. \A q \in Request : q # r =>
          ((Alive(q) \/ http[q].pc = "launch")' => Alive(q) \/ http[q].pc = "launch")
    BY <1>0, <2>1, <2>2, <2>3, RowMoves DEF Alive
  <2>6. \A q \in Request : Owned(q)'
    BY <2>1, <2>5, ReapedOwns DEF Owned
  <2>7. IsFiniteSet(workers') /\ Cardinality(workers') =< Workers
    <3>1. Cardinality(Reaped) < Workers /\ Cardinality(Reaped) \in Nat /\ Workers \in Nat
      BY <1>2, ReapedOwns DEF StreamAssumption
    <3>2. /\ IsFiniteSet(Reaped \cup {r})
          /\ Cardinality(Reaped \cup {r}) = Cardinality(Reaped)
               \/ Cardinality(Reaped \cup {r}) = Cardinality(Reaped) + 1
      BY ReapedOwns, FS_AddElement
    <3> QED BY <2>1, <3>1, <3>2
  <2>8. HostInv'
    BY <1>2, <2>1, <2>7 DEF StreamInv, HostInv
  <2> QED BY <2>1, <2>4, <2>6, <2>8, ReapedOwns DEF StreamInv, Types
<1> QED BY <1>1, <1>2

\* A thread that starts is the one its slot was reserved for.
LEMMA LaunchKeeps ==
    ASSUME StreamAssumption, StreamInv, NEW r \in Request, Launch(r)
    PROVE  StreamInv'
<1> DEFINE b0 == bridge[r]  p0 == prod[r]  h0 == http[r]  down == host.closed
<1>0. /\ b0 \in BridgeRow /\ p0 \in ProdRow /\ h0 \in HttpRow /\ Owned(r)
      /\ RequestInv(b0, p0, h0, down) /\ h0.pc = "launch"
  BY Rows DEF Launch
<1>1. PICK runs \in BOOLEAN, raises \in BOOLEAN :
        /\ runs \/ raises
        /\ prod' = IF runs THEN [prod EXCEPT ![r].pc = "started"] ELSE prod
        /\ http' = [http EXCEPT ![r] = [@ EXCEPT !.pc = IF raises THEN "close" ELSE "launched",
                                                 !.cancel = raises]]
        /\ workers' = IF runs THEN workers ELSE workers \ {r}
  BY DEF Launch
<1> DEFINE p == IF runs THEN [p0 EXCEPT !.pc = "started"] ELSE p0
           h == [h0 EXCEPT !.pc = IF raises THEN "close" ELSE "launched", !.cancel = raises]
<1>2. OnlyMoves(r, b0, p, h) /\ UNCHANGED host
  BY <1>1, SameRow DEF Launch, OnlyMoves
<1>3. /\ p \in ProdRow /\ p.made = p0.made /\ p.size = p0.size /\ p.fate = p0.fate
      /\ p.pc = IF runs THEN "started" ELSE p0.pc
      /\ p0.pc = "none"
  BY <1>0 DEF ProdRow, RequestInv
<1>4. /\ h \in HttpRow /\ h.pc \in {"close", "launched"} /\ h.launching = h0.launching
      /\ h.sent = h0.sent /\ h.terminal = h0.terminal
      /\ h.pc = "launched" => runs
  BY <1>0, <1>1 DEF HttpRow, Closing
<1> HIDE DEF p, h
<1>5. RequestInv(b0, p, h, down)
  BY <1>0, <1>3, <1>4 DEF RequestInv, Delivering, Reading, Held
<1>6. /\ bridge' \in [Request -> BridgeRow] /\ prod' \in [Request -> ProdRow]
      /\ http' \in [Request -> HttpRow] /\ prod'[r] = p /\ http'[r] = h
      /\ \A q \in Request : q # r =>
            bridge'[q] = bridge[q] /\ prod'[q] = prod[q] /\ http'[q] = http[q]
      /\ \A q \in Request : RequestInv(bridge'[q], prod'[q], http'[q], host.closed)
  BY <1>0, <1>2, <1>3, <1>4, <1>5, RowMoves
<1>7. ~host.cleaned
  BY <1>0 DEF StreamInv, HostInv
<1>8. \A q \in Request : Owned(q)'
  <2>1. r \in workers
    BY <1>0 DEF Owned
  <2>2. Owned(r)'
    BY <1>1, <1>3, <1>4, <1>6, <2>1 DEF Owned, Alive
  <2>3. ASSUME NEW q \in Request, q # r PROVE Owned(q)'
    BY <1>1, <1>6, <2>3 DEF StreamInv, Owned, Alive
  <2> QED BY <2>2, <2>3
<1>9. workers' \subseteq workers /\ IsFiniteSet(workers') /\ Cardinality(workers') =< Workers
  <2>1. workers' \subseteq workers
    BY <1>1
  <2>2. /\ IsFiniteSet(workers) /\ Cardinality(workers) =< Workers /\ Workers \in Nat
    BY DEF StreamInv, HostInv, StreamAssumption
  <2>3. /\ IsFiniteSet(workers') /\ Cardinality(workers') =< Cardinality(workers)
        /\ Cardinality(workers) \in Nat /\ Cardinality(workers') \in Nat
    BY <2>1, <2>2, FS_Subset, FS_CardinalityType
  <2> QED BY <2>1, <2>2, <2>3
<1>10. HostInv'
  BY <1>2, <1>7, <1>9 DEF StreamInv, HostInv
<1> QED BY <1>2, <1>6, <1>8, <1>9, <1>10 DEF StreamInv, Types

-------------------------------------------------------------------------------
(* The task of the loop, once its producer is started *)

\* What a task's step starts from.
LEMMA TaskFacts ==
    ASSUME StreamAssumption, StreamInv, NEW r \in Request
    PROVE  /\ bridge[r] \in BridgeRow /\ prod[r] \in ProdRow /\ http[r] \in HttpRow
           /\ RequestInv(bridge[r], prod[r], http[r], host.closed) /\ host.closed \in BOOLEAN
           /\ Depth \in Nat /\ Answer \in Nat
           /\ bridge[r].queue \in Seq(1..Answer) /\ http[r].sent \in Seq(1..Answer)
           /\ Len(bridge[r].queue) \in Nat /\ Len(http[r].sent) \in Nat
           /\ prod[r].made \in Nat /\ prod[r].size \in Nat
<1>1. /\ bridge[r] \in BridgeRow /\ prod[r] \in ProdRow /\ http[r] \in HttpRow
      /\ RequestInv(bridge[r], prod[r], http[r], host.closed) /\ host \in HostRow
  BY Rows
<1>2. bridge[r].queue \in Seq(1..Answer) /\ http[r].sent \in Seq(1..Answer)
      /\ host.closed \in BOOLEAN /\ prod[r].made \in 0..Answer /\ prod[r].size \in 0..Answer
  BY <1>1 DEF BridgeRow, HttpRow, ProdRow, HostRow
<1>3. Len(bridge[r].queue) \in Nat /\ Len(http[r].sent) \in Nat
  BY <1>2
<1> QED BY <1>1, <1>2, <1>3 DEF StreamAssumption

\* A task's step moves its own request, and starts no thread.
LEMMA TaskMoves ==
    ASSUME StreamInv, NEW r \in Request, NEW b \in BridgeRow, NEW h \in HttpRow,
           OnlyMoves(r, b, prod[r], h), UNCHANGED <<workers, host>>,
           RequestInv(b, prod[r], h, host.closed), h.pc # "launch"
    PROVE  StreamInv'
<1>1. prod[r].pc \in {"none", "ended"} \/ Alive(r)
  BY DEF Alive
<1> QED BY <1>1, Rows, RequestMoves

\* The reading begins.
LEMMA LaunchedKeeps ==
    ASSUME StreamAssumption, StreamInv, NEW r \in Request, Launched(r)
    PROVE  StreamInv'
<1> DEFINE h == [http[r] EXCEPT !.pc = "read", !.launching = FALSE]
<1>1. OnlyMoves(r, bridge[r], prod[r], h) /\ UNCHANGED <<workers, host>>
  BY SameRow DEF Launched, OnlyMoves
<1>2. /\ h \in HttpRow /\ h.pc = "read" /\ h.sent = http[r].sent
      /\ h.terminal = http[r].terminal /\ http[r].pc = "launched"
  BY TaskFacts DEF HttpRow, Reading, Launched
<1> HIDE DEF h
<1>3. /\ Held(h) = 0 /\ Held(http[r]) = 0 /\ Delivering(h) /\ Delivering(http[r])
  BY <1>2 DEF Held, Delivering, Reading
<1>4. RequestInv(bridge[r], prod[r], h, host.closed)
  <2>1. RequestInv(bridge[r], prod[r], http[r], host.closed)
    BY TaskFacts
  <2>2. h.pc = "read" /\ h.sent = http[r].sent /\ h.terminal = http[r].terminal
    BY <1>2
  <2> QED BY <1>3, <2>1, <2>2, ZenonT(60) DEF RequestInv
<1> QED BY <1>1, <1>2, <1>4, TaskFacts, TaskMoves

\* A reader takes the head of the queue, sees the end, or waits.
LEMMA ReadKeeps ==
    ASSUME StreamAssumption, StreamInv, NEW r \in Request, Read(r)
    PROVE  StreamInv'
<1> DEFINE b0 == bridge[r]  p0 == prod[r]  h0 == http[r]  down == host.closed
<1>0. /\ b0 \in BridgeRow /\ p0 \in ProdRow /\ h0 \in HttpRow
      /\ RequestInv(b0, p0, h0, down) /\ h0.pc = "read"
      /\ b0.queue \in Seq(1..Answer) /\ Len(b0.queue) \in Nat /\ Len(h0.sent) \in Nat
      /\ Depth \in Nat /\ Answer \in Nat /\ p0.made \in Nat
      /\ UNCHANGED <<workers, host>>
  BY TaskFacts DEF Read
<1>1. CASE Over(b0) /\ Goto(r, "frame") /\ UNCHANGED bridge
  <2> DEFINE h == [h0 EXCEPT !.pc = "frame"]
  <2>1. OnlyMoves(r, b0, p0, h)
    BY <1>1, SameRow DEF Read, Goto, OnlyMoves
  <2>2. /\ h \in HttpRow /\ h.pc = "frame" /\ h.sent = h0.sent /\ h.terminal = h0.terminal
    BY <1>0 DEF HttpRow, Reading
  <2> HIDE DEF h
  <2>3. RequestInv(b0, p0, h, down)
    BY <1>0, <1>1, <2>2 DEF RequestInv, Delivering, Reading, Held, Over
  <2> QED BY <1>0, <2>1, <2>2, <2>3, TaskMoves
<1>2. CASE /\ b0.queue # <<>>
           /\ http' = [http EXCEPT ![r] = [@ EXCEPT !.pc = "write", !.piece = Head(b0.queue)]]
           /\ bridge' = [bridge EXCEPT ![r].queue = Tail(@)]
  <2> DEFINE q == b0.queue  e == Head(q)  t == Tail(q)  n == Len(q)  k == Len(h0.sent)
             h == [h0 EXCEPT !.pc = "write", !.piece = e]
             b == [b0 EXCEPT !.queue = t]
  <2>1. OnlyMoves(r, b, p0, h)
    BY <1>2, SameRow DEF Read, OnlyMoves
  <2>2. /\ e \in 1..Answer /\ e = q[1] /\ t \in Seq(1..Answer) /\ Len(t) = n - 1
        /\ n \in Nat \ {0} /\ \A i \in 1..n - 1 : t[i] = q[i + 1]
    BY <1>0, <1>2, FromTheHead
  <2>3. /\ \A i \in 1..n : q[i] = k + i
        /\ ~b0.closed => k + n = p0.made
        /\ n =< Depth /\ k \in Nat /\ p0.made \in Nat /\ Depth \in Nat
    <3>1. Held(h0) = 0 /\ Delivering(h0)
      BY <1>0 DEF Held, Delivering, Reading
    <3>2. /\ \A i \in 1..n : q[i] = k + 0 + i
          /\ ~b0.closed => k + 0 + n = p0.made
          /\ n =< Depth
      BY <1>0, <3>1 DEF RequestInv
    <3> HIDE DEF k, q
    <3> QED BY <1>0, <3>2, <2>2 DEF k
  <2>h. e \in 0..Answer
    BY <2>2
  <2>4. /\ h \in HttpRow /\ h.pc = "write" /\ h.piece = e
        /\ h.sent = h0.sent /\ h.terminal = h0.terminal
    BY <1>0, <2>h DEF HttpRow, Reading
  <2>5. /\ b \in BridgeRow /\ b.queue = t /\ b.closed = b0.closed /\ b.disp = b0.disp
        /\ b.receipt = b0.receipt
    BY <1>0, <2>2 DEF BridgeRow
  <2> HIDE DEF h, b, q, e, t, n, k
  <2>6. e = k + 1 /\ Len(t) =< Depth /\ (~b0.closed => k + 1 + Len(t) = p0.made)
    BY <2>2, <2>3
  <2>7. ASSUME NEW i \in 1..Len(t) PROVE t[i] = k + 1 + i
    <3>1. i \in 1..n - 1 /\ i + 1 \in 1..n
      BY <2>2, <2>7
    <3>2. t[i] = q[i + 1] /\ q[i + 1] = k + (i + 1)
      BY <2>2, <2>3, <3>1
    <3> QED BY <2>3, <3>1, <3>2
  <2>8. RequestInv(b, p0, h, down)
    BY <1>0, <2>4, <2>5, <2>6, <2>7 DEF RequestInv, Delivering, Reading, Held, k
  <2> QED BY <1>0, <2>1, <2>4, <2>5, <2>8, TaskMoves
<1>3. CASE Goto(r, "wait") /\ bridge' = [bridge EXCEPT ![r].ready = FALSE]
  <2> DEFINE h == [h0 EXCEPT !.pc = "wait"]  b == [b0 EXCEPT !.ready = FALSE]
  <2>1. OnlyMoves(r, b, p0, h)
    BY <1>3, SameRow DEF Read, Goto, OnlyMoves
  <2>2. /\ h \in HttpRow /\ h.pc = "wait" /\ h.sent = h0.sent /\ h.terminal = h0.terminal
    BY <1>0 DEF HttpRow, Reading
  <2>3. /\ b \in BridgeRow /\ b.queue = b0.queue /\ b.closed = b0.closed /\ b.disp = b0.disp
        /\ b.receipt = b0.receipt
    BY <1>0 DEF BridgeRow
  <2> HIDE DEF h, b
  <2>4. RequestInv(b, p0, h, down)
    BY <1>0, <2>2, <2>3, ZenonT(60) DEF RequestInv, Delivering, Reading, Held
  <2> QED BY <1>0, <2>1, <2>2, <2>3, <2>4, TaskMoves
<1> QED BY <1>1, <1>2, <1>3 DEF Read

\* A waiter woken reads again.
LEMMA WakeKeeps ==
    ASSUME StreamAssumption, StreamInv, NEW r \in Request, Wake(r)
    PROVE  StreamInv'
<1> DEFINE h == [http[r] EXCEPT !.pc = "read"]
<1>1. OnlyMoves(r, bridge[r], prod[r], h) /\ UNCHANGED <<workers, host>>
  BY SameRow DEF Wake, Goto, OnlyMoves
<1>2. /\ h \in HttpRow /\ h.pc = "read" /\ h.sent = http[r].sent
      /\ h.terminal = http[r].terminal /\ http[r].pc = "wait"
  BY TaskFacts DEF HttpRow, Reading, Wake
<1> HIDE DEF h
<1>3. /\ Held(h) = 0 /\ Held(http[r]) = 0 /\ Delivering(h) /\ Delivering(http[r])
  BY <1>2 DEF Held, Delivering, Reading
<1>4. RequestInv(bridge[r], prod[r], h, host.closed)
  <2>1. RequestInv(bridge[r], prod[r], http[r], host.closed)
    BY TaskFacts
  <2>2. h.pc = "read" /\ h.sent = http[r].sent /\ h.terminal = http[r].terminal
    BY <1>2
  <2> QED BY <1>3, <2>1, <2>2, ZenonT(60) DEF RequestInv
<1> QED BY <1>1, <1>2, <1>4, TaskFacts, TaskMoves

\* The piece held is the next one sent.
LEMMA WriteKeeps ==
    ASSUME StreamAssumption, StreamInv, NEW r \in Request, Write(r)
    PROVE  StreamInv'
<1> DEFINE b0 == bridge[r]  p0 == prod[r]  h0 == http[r]  down == host.closed
           k == Len(h0.sent)  e == h0.piece  s == Append(h0.sent, e)
           h == [h0 EXCEPT !.pc = "read", !.sent = s]
<1>0. /\ b0 \in BridgeRow /\ p0 \in ProdRow /\ h0 \in HttpRow
      /\ RequestInv(b0, p0, h0, down) /\ h0.pc = "write" /\ h0.sent \in Seq(1..Answer)
      /\ k \in Nat /\ Answer \in Nat /\ Depth \in Nat /\ p0.made \in Nat
      /\ Len(b0.queue) \in Nat
      /\ UNCHANGED <<workers, host>>
  BY TaskFacts DEF Write
<1>1. OnlyMoves(r, b0, p0, h)
  BY SameRow DEF Write, OnlyMoves
<1>2. /\ e = k + 1 /\ e \in 1..Answer
      /\ \A i \in 1..k : h0.sent[i] = i
      /\ \A i \in 1..Len(b0.queue) : b0.queue[i] = k + 1 + i
      /\ ~b0.closed => k + 1 + Len(b0.queue) = p0.made
  <2>1. e \in 0..Answer
    BY <1>0 DEF HttpRow
  <2>2. e = k + 1
    BY <1>0 DEF RequestInv, Delivering, Reading
  <2>3. /\ \A i \in 1..k : h0.sent[i] = i
        /\ \A i \in 1..Len(b0.queue) : b0.queue[i] = k + 1 + i
        /\ (~b0.closed) => (k + 1 + Len(b0.queue) = p0.made)
    BY <1>0 DEF RequestInv, Delivering, Reading, Held
  <2>4. k \in Nat /\ Answer \in Nat
    BY <1>0
  <2> HIDE DEF k, e
  <2>5. e \in 1..Answer
    BY <2>1, <2>2, <2>4
  <2> QED BY <2>2, <2>3, <2>5
<1>3. /\ s \in Seq(1..Answer) /\ Len(s) = k + 1
      /\ \A i \in 1..k + 1 : s[i] = IF i = k + 1 THEN e ELSE h0.sent[i]
  BY <1>0, <1>2, AtTheEnd
<1>4. h \in HttpRow /\ h.pc = "read" /\ h.sent = s /\ h.terminal = h0.terminal
  BY <1>0, <1>3 DEF HttpRow, Reading
<1> HIDE DEF h, s, e
<1>5. \A i \in 1..Len(s) : s[i] = i
  <2>1. ASSUME NEW i \in 1..k + 1 PROVE s[i] = i
    <3>1. s[i] = IF i = k + 1 THEN e ELSE h0.sent[i]
      BY <1>3
    <3>2. i # k + 1 => i \in 1..k
      <4>1. k \in Nat
        BY <1>0
      <4> HIDE DEF k
      <4> QED BY <4>1
    <3> QED BY <1>2, <3>1, <3>2
  <2> QED BY <1>3, <2>1
<1>6. /\ Held(h) = 0 /\ Delivering(h) /\ Delivering(h0)
  BY <1>0, <1>4 DEF Held, Delivering, Reading
<1>7. RequestInv(b0, p0, h, down)
  <2>1. /\ \A i \in 1..Len(b0.queue) : b0.queue[i] = Len(s) + 0 + i
        /\ ~b0.closed => Len(s) + 0 + Len(b0.queue) = p0.made
    <3> HIDE DEF k
    <3>1. k \in Nat /\ Len(s) + 0 = k + 1
      BY <1>0, <1>3
    <3> QED BY <1>2, <3>1
  <2> QED BY <1>0, <1>4, <1>5, <1>6, <2>1 DEF RequestInv
<1> QED BY <1>0, <1>1, <1>4, <1>7, TaskMoves

\* A delivery is framed as completed when its last piece is out.
LEMMA FrameKeeps ==
    ASSUME StreamAssumption, StreamInv, NEW r \in Request, Frame(r)
    PROVE  StreamInv'
<1> DEFINE b0 == bridge[r]  p0 == prod[r]  h0 == http[r]  down == host.closed
           end == IF b0.receipt /\ b0.disp = "completed" THEN "stop" ELSE "error"
           h == [h0 EXCEPT !.pc = "close", !.terminal = end]
<1>0. /\ b0 \in BridgeRow /\ p0 \in ProdRow /\ h0 \in HttpRow /\ down \in BOOLEAN
      /\ RequestInv(b0, p0, h0, down) /\ h0.pc = "frame"
      /\ Len(h0.sent) \in Nat /\ p0.made \in Nat
      /\ UNCHANGED <<workers, host>>
  BY TaskFacts DEF Frame
<1>1. OnlyMoves(r, b0, p0, h)
  BY SameRow DEF Frame, OnlyMoves
<1>2. h \in HttpRow /\ h.pc = "close" /\ h.sent = h0.sent /\ h.terminal = end
  BY <1>0 DEF HttpRow, Closing
<1>3. ASSUME end = "stop"
      PROVE  /\ b0.receipt /\ p0.fate = "completed" /\ b0.disp = "completed"
             /\ Len(h0.sent) = p0.size \/ down
  <2>1. b0.receipt /\ b0.disp = "completed"
    BY <1>3
  <2>2. /\ p0.fate = "completed" /\ p0.pc \in {"tail", "ended"} /\ p0.made = p0.size
        /\ b0.queue = <<>> /\ (b0.closed => down)
        /\ ~b0.closed => Len(h0.sent) + 0 + Len(b0.queue) = p0.made
    BY <1>0, <2>1 DEF RequestInv, Delivering, Reading, Held
  <2> QED BY <1>0, <2>1, <2>2, Empty
<1> HIDE DEF h, end
<1>4. RequestInv(b0, p0, h, down)
  BY <1>0, <1>2, <1>3 DEF RequestInv, Delivering, Reading
<1> QED BY <1>0, <1>1, <1>2, <1>4, TaskMoves

\* The client leaves.
LEMMA LeaveKeeps ==
    ASSUME StreamAssumption, StreamInv, NEW r \in Request, Leave(r)
    PROVE  StreamInv'
<1> DEFINE h == [http[r] EXCEPT !.pc = "close", !.cancel = TRUE]
<1>1. OnlyMoves(r, bridge[r], prod[r], h) /\ UNCHANGED <<workers, host>>
  BY SameRow DEF Leave, OnlyMoves
<1>2. /\ h \in HttpRow /\ h.pc = "close" /\ h.sent = http[r].sent
      /\ h.terminal = http[r].terminal /\ http[r].pc \in Reading
  BY TaskFacts DEF HttpRow, Closing, Leave
<1> HIDE DEF h
<1>3. RequestInv(bridge[r], prod[r], h, host.closed)
  BY <1>2, TaskFacts DEF RequestInv, Delivering, Reading
<1> QED BY <1>1, <1>2, <1>3, TaskFacts, TaskMoves

\* The drain ends.
LEMMA DrainedKeeps ==
    ASSUME StreamAssumption, StreamInv, NEW r \in Request, Drained(r)
    PROVE  StreamInv'
<1> DEFINE h == [http[r] EXCEPT !.pc = "done"]
<1>1. OnlyMoves(r, bridge[r], prod[r], h) /\ UNCHANGED <<workers, host>>
  BY SameRow DEF Drained, Goto, OnlyMoves
<1>2. /\ h \in HttpRow /\ h.pc = "done" /\ h.sent = http[r].sent
      /\ h.terminal = http[r].terminal /\ http[r].pc = "drain"
  BY TaskFacts DEF HttpRow, Drained
<1> HIDE DEF h
<1>3. RequestInv(bridge[r], prod[r], h, host.closed)
  BY <1>2, TaskFacts DEF RequestInv, Delivering, Reading
<1> QED BY <1>1, <1>2, <1>3, TaskFacts, TaskMoves

-------------------------------------------------------------------------------
(* Closing, by the task and by a shutdown *)

\* What a close may do to a bridge: it drops the queue only when it closes.
ClosedTo(b0, b) ==
    /\ b.receipt = b0.receipt /\ (b.disp = "completed" => b0.disp = "completed")
    /\ b0.disp = "completed" => b.disp = "completed"
    /\ \/ b.queue = b0.queue /\ b.closed = b0.closed
       \/ b.queue = <<>> /\ b.closed

\* A section of close decides, signals or clears.
LEMMA CloseSteps ==
    ASSUME StreamAssumption, StreamInv, NEW r \in Request, NEW pc, NEW cancel, NEW next,
           CloseStep(r, pc, cancel, next)
    PROVE  \E b \in BridgeRow : bridge' = [bridge EXCEPT ![r] = b] /\ ClosedTo(bridge[r], b)
<1> DEFINE b0 == bridge[r]
<1>0. b0 \in BridgeRow /\ bridge = [bridge EXCEPT ![r] = b0]
  BY Rows, SameRow
<1>1. Decided(b0) \in BridgeRow /\ ClosedTo(b0, Decided(b0))
  BY <1>0 DEF Decided, BridgeRow, Disposition, ClosedTo
<1>2. Signalled(b0) \in BridgeRow /\ ClosedTo(b0, Signalled(b0))
  BY <1>0 DEF Signalled, BridgeRow, ClosedTo
<1>3. Cleared(b0) \in BridgeRow /\ ClosedTo(b0, Cleared(b0))
  <2>1. <<>> \in Seq(1..Answer)
    BY Empty
  <2> QED BY <1>0, <2>1 DEF Cleared, Notified, BridgeRow, ClosedTo
<1>4. ClosedTo(b0, b0)
  BY DEF ClosedTo
<1>5. CASE bridge' = IF cancel THEN [bridge EXCEPT ![r] = Decided(@)] ELSE bridge
  BY <1>0, <1>1, <1>4, <1>5
<1>6. CASE bridge' = [bridge EXCEPT ![r] = Signalled(@)]
  BY <1>2, <1>6
<1>7. CASE bridge' = [bridge EXCEPT ![r] = Cleared(@)]
  BY <1>3, <1>7
<1> QED BY <1>5, <1>6, <1>7 DEF CloseStep

\* A close keeps a request that no longer reads, or that a shutdown closes.
LEMMA ClosedKeeps ==
    ASSUME StreamAssumption, StreamInv, NEW r \in Request, NEW b \in BridgeRow,
           NEW h \in HttpRow, ClosedTo(bridge[r], b),
           h.sent = http[r].sent, h.terminal = http[r].terminal,
           (h = http[r] /\ host.closed) \/ h.pc \in {"signal", "clear", "refused", "drain"}
    PROVE  RequestInv(b, prod[r], h, host.closed)
<1> DEFINE b0 == bridge[r]  p0 == prod[r]  h0 == http[r]  down == host.closed
<1>0. RequestInv(b0, p0, h0, down) /\ Depth \in Nat
  BY TaskFacts
<1>1. Len(b.queue) =< Depth
  <2>1. Len(b0.queue) =< Depth
    BY <1>0 DEF RequestInv
  <2>2. CASE b.queue = <<>>
    BY <1>0, <2>2, Empty
  <2> QED BY <2>1, <2>2 DEF ClosedTo
<1>2. CASE h = h0 /\ down
  <2>1. ASSUME Delivering(h)
        PROVE  /\ b.closed => down
               /\ h.pc = "write" => h.piece = Len(h.sent) + 1
               /\ \A i \in 1..Len(b.queue) : b.queue[i] = Len(h.sent) + Held(h) + i
               /\ ~b.closed => Len(h.sent) + Held(h) + Len(b.queue) = p0.made
               /\ h.terminal # "stop"
    <3>1. CASE b.queue = b0.queue /\ b.closed = b0.closed
      BY <1>0, <1>2, <2>1, <3>1 DEF RequestInv
    <3>2. CASE b.queue = <<>> /\ b.closed
      BY <1>0, <1>2, <2>1, <3>2, Empty DEF RequestInv
    <3> QED BY <3>1, <3>2 DEF ClosedTo
  <2>2. h.pc = "frame" => b.queue = <<>> /\ (b.closed \/ b.receipt)
    BY <1>0, <1>2 DEF RequestInv, ClosedTo
  <2> QED BY <1>0, <1>1, <1>2, <2>1, <2>2 DEF RequestInv, ClosedTo
<1>3. CASE h.pc \in {"signal", "clear", "refused", "drain"}
  <2>1. ~Delivering(h) /\ h.pc \notin {"idle", "launch", "launched", "frame"}
    BY <1>3 DEF Delivering, Reading
  <2> QED BY <1>0, <1>1, <2>1 DEF RequestInv, ClosedTo
<1> QED BY <1>2, <1>3

\* The task closes its bridge.
LEMMA CloseKeeps ==
    ASSUME StreamAssumption, StreamInv, NEW r \in Request, Close(r)
    PROVE  StreamInv'
<1>1. PICK next \in {"signal", "clear", "closed"} :
        /\ CloseStep(r, http[r].pc, http[r].cancel, next)
        /\ http' = [http EXCEPT ![r] =
                      IF next # "closed" THEN [@ EXCEPT !.pc = next]
                      ELSE [@ EXCEPT !.pc = IF http[r].launching THEN "refused" ELSE "drain",
                                     !.launching = FALSE]]
        /\ UNCHANGED <<prod, workers, host>>
  BY DEF Close
<1>2. PICK b \in BridgeRow : bridge' = [bridge EXCEPT ![r] = b] /\ ClosedTo(bridge[r], b)
  BY <1>1, CloseSteps
<1> DEFINE h == IF next # "closed" THEN [http[r] EXCEPT !.pc = next]
                ELSE [http[r] EXCEPT !.pc = IF http[r].launching THEN "refused" ELSE "drain",
                                     !.launching = FALSE]
<1>3. OnlyMoves(r, b, prod[r], h)
  BY <1>1, <1>2, SameRow DEF OnlyMoves
<1>4. /\ h \in HttpRow /\ h.pc \in {"signal", "clear", "refused", "drain"}
      /\ h.sent = http[r].sent /\ h.terminal = http[r].terminal
  <2>1. http[r] \in HttpRow
    BY Rows
  <2>2. CASE next # "closed"
    BY <2>1, <2>2 DEF HttpRow, Closing
  <2>3. CASE next = "closed"
    BY <2>1, <2>3 DEF HttpRow
  <2> QED BY <2>2, <2>3
<1> HIDE DEF h
<1>5. RequestInv(b, prod[r], h, host.closed)
  BY <1>2, <1>4, ClosedKeeps
<1> QED BY <1>1, <1>3, <1>4, <1>5, TaskMoves

-------------------------------------------------------------------------------
(* The host *)

\* A shutdown refuses what comes and turns to what is there.
LEMMA ShutdownKeeps == ASSUME StreamAssumption, StreamInv, Shutdown PROVE StreamInv'
<1>1. /\ host \in HostRow /\ Reaped \subseteq Request
      /\ workers' = Reaped /\ UNCHANGED <<bridge, prod, http>>
      /\ host' = [host EXCEPT !.closed = TRUE, !.todo = Reaped,
                              !.pc = IF Reaped = {} THEN "wait" ELSE "close"]
  BY ReapedOwns DEF Shutdown, StreamInv, Types
<1>2. host' \in HostRow /\ host'.closed = TRUE /\ host'.cleaned = host.cleaned
  BY <1>1 DEF HostRow, Closing
<1>3. ASSUME NEW q \in Request PROVE RequestInv(bridge[q], prod[q], http[q], TRUE)
  <2>1. RequestInv(bridge[q], prod[q], http[q], host.closed)
    BY Rows
  <2> QED BY <2>1 DEF RequestInv
<1>4. \A q \in Request : RequestInv(bridge[q], prod[q], http[q], host.closed)' /\ Owned(q)'
  BY <1>1, <1>2, <1>3, ReapedOwns DEF Owned, Alive
<1>5. HostInv'
  BY <1>1, <1>2, ReapedOwns DEF StreamInv, HostInv, Alive
<1> QED BY <1>1, <1>2, <1>4, <1>5 DEF StreamInv, Types

\* A shutdown closes the bridges one after the other.
LEMMA ShutdownCloseKeeps ==
    ASSUME StreamAssumption, StreamInv, ShutdownClose
    PROVE  StreamInv'
<1>1. PICK r \in host.todo, next \in {"signal", "clear", "closed"} :
        /\ host.pc = "close" \/ host.at = r
        /\ CloseStep(r, host.pc, TRUE, next)
        /\ host' = [host EXCEPT
             !.at = IF next = "closed" THEN Nobody ELSE r,
             !.todo = IF next = "closed" THEN @ \ {r} ELSE @,
             !.pc = IF next # "closed" THEN next ELSE IF host.todo = {r} THEN "wait" ELSE "close"]
        /\ UNCHANGED <<prod, http, workers>>
  BY DEF ShutdownClose
<1>2. host \in HostRow /\ r \in Request
  BY <1>1 DEF StreamInv, Types, HostRow
<1>3. /\ host' \in HostRow /\ host'.closed = host.closed /\ host'.cleaned = host.cleaned
  BY <1>1, <1>2 DEF HostRow, Closing
<1>4. host.closed
  <2>1. host.pc # "up"
    BY <1>1 DEF CloseStep
  <2> QED BY <2>1 DEF StreamInv, HostInv
<1>5. PICK b \in BridgeRow : bridge' = [bridge EXCEPT ![r] = b] /\ ClosedTo(bridge[r], b)
  BY <1>1, <1>2, CloseSteps
<1>6. RequestInv(b, prod[r], http[r], host.closed)
  BY <1>2, <1>4, <1>5, ClosedKeeps, Rows
<1>7. OnlyMoves(r, b, prod[r], http[r])
  BY <1>1, <1>2, <1>5, SameRow DEF OnlyMoves
<1>8. /\ bridge' \in [Request -> BridgeRow] /\ prod' \in [Request -> ProdRow]
      /\ http' \in [Request -> HttpRow]
      /\ \A q \in Request : RequestInv(bridge'[q], prod'[q], http'[q], host.closed)
  BY <1>2, <1>6, <1>7, RowMoves, Rows
<1>9. \A q \in Request : Owned(q)'
  BY <1>1 DEF StreamInv, Owned, Alive
<1>10. HostInv'
  BY <1>1, <1>3, <1>4 DEF StreamInv, HostInv, Alive
<1> QED BY <1>1, <1>3, <1>8, <1>9, <1>10 DEF StreamInv, Types

\* The wait for the threads ends.
LEMMA ShutdownEndKeeps == ASSUME StreamAssumption, StreamInv, ShutdownEnd PROVE StreamInv'
<1>1. /\ host \in HostRow /\ host.closed /\ workers' = Reaped
      /\ UNCHANGED <<bridge, prod, http>> /\ host' = [host EXCEPT !.pc = "down"]
  BY DEF ShutdownEnd, StreamInv, Types, HostInv
<1>2. host' \in HostRow /\ host'.closed = host.closed /\ host'.cleaned = host.cleaned
  BY <1>1 DEF HostRow
<1>3. \A q \in Request : RequestInv(bridge[q], prod[q], http[q], host.closed)' /\ Owned(q)'
  BY <1>1, <1>2, ReapedOwns DEF Owned, Alive, StreamInv
<1>4. HostInv'
  BY <1>1, <1>2, ReapedOwns DEF StreamInv, HostInv, Alive
<1> QED BY <1>1, <1>2, <1>3, <1>4, ReapedOwns DEF StreamInv, Types

\* The shared client is closed where nobody is left.
LEMMA CleanupKeeps == ASSUME StreamAssumption, StreamInv, Cleanup PROVE StreamInv'
<1>1. /\ host \in HostRow /\ host.closed /\ Reaped = {} /\ workers' = {}
      /\ UNCHANGED <<bridge, prod, http>> /\ host' = [host EXCEPT !.cleaned = TRUE]
  BY DEF Cleanup, StreamInv, Types
<1>2. host' \in HostRow /\ host'.closed = host.closed /\ host'.pc = host.pc
  BY <1>1 DEF HostRow
<1>3. \A q \in Request : ~Alive(q) /\ http[q].pc # "launch"
  BY <1>1, ReapedOwns
<1>4. \A q \in Request : RequestInv(bridge[q], prod[q], http[q], host.closed)' /\ Owned(q)'
  BY <1>1, <1>2, <1>3 DEF Owned, Alive, StreamInv
<1>5. IsFiniteSet(workers') /\ Cardinality(workers') =< Workers
  BY <1>1, FS_EmptySet DEF StreamAssumption
<1>6. HostInv'
  BY <1>1, <1>2, <1>3, <1>5 DEF StreamInv, HostInv, Alive
<1> QED BY <1>1, <1>2, <1>4, <1>6 DEF StreamInv, Types

-------------------------------------------------------------------------------
(* All of it *)

\* A service begins with no request.
LEMMA StreamInitially == ASSUME StreamAssumption, StreamInit PROVE StreamInv
<1>1. <<>> \in Seq(1..Answer) /\ Len(<<>>) = 0
  BY Empty
<1>2. Types
  <2>1. bridge \in [Request -> BridgeRow]
    BY <1>1 DEF StreamInit, BridgeRow, Disposition
  <2>2. prod \in [Request -> ProdRow]
    BY DEF StreamInit, ProdRow, StreamAssumption
  <2>3. http \in [Request -> HttpRow]
    BY <1>1 DEF StreamInit, HttpRow, StreamAssumption
  <2> QED BY <2>1, <2>2, <2>3 DEF StreamInit, Types, HostRow
<1>3. ASSUME NEW q \in Request
      PROVE  RequestInv(bridge[q], prod[q], http[q], host.closed) /\ Owned(q)
  <2>1. /\ bridge[q].queue = <<>> /\ ~bridge[q].closed /\ bridge[q].disp = "none"
        /\ ~bridge[q].receipt /\ prod[q].pc = "none" /\ prod[q].made = 0 /\ prod[q].size = 0
        /\ http[q].pc = "idle" /\ http[q].sent = <<>> /\ http[q].terminal = "none"
    BY DEF StreamInit
  <2>2. Held(http[q]) = 0
    BY <2>1 DEF Held
  <2> QED BY <1>1, <2>1, <2>2 DEF RequestInv, Owned, Alive, StreamAssumption
<1>4. HostInv
  BY FS_EmptySet DEF StreamInit, HostInv, StreamAssumption
<1> QED BY <1>2, <1>3, <1>4 DEF StreamInv

\* Every step keeps the invariant.
LEMMA StreamStep ==
    ASSUME StreamAssumption, StreamInv, [StreamNext]_streamVars
    PROVE  StreamInv'
<1>1. CASE UNCHANGED streamVars
  <2>1. UNCHANGED <<bridge, prod, http, workers, host>>
    BY <1>1 DEF streamVars
  <2> QED BY <2>1 DEF StreamInv, Types, Owned, Alive, HostInv
<1>2. ASSUME NEW r \in Request,
             Notify(r) \/ Producer(r) \/ Task(r) \/ Write(r) \/ Leave(r)
      PROVE  StreamInv'
  <2>1. CASE Task(r)
    BY <2>1, AdmitKeeps, LaunchKeeps, LaunchedKeeps, ReadKeeps, WakeKeeps, FrameKeeps,
       CloseKeeps, DrainedKeeps DEF Task
  <2> QED BY <1>2, <2>1, NotifyKeeps, ProducerKeeps, WriteKeeps, LeaveKeeps
<1> QED BY <1>1, <1>2, ShutdownKeeps, ShutdownCloseKeeps, ShutdownEndKeeps, CleanupKeeps
        DEF StreamNext

\* The invariant of the service, for every number of requests.
LEMMA StreamInvariant == ASSUME StreamAssumption PROVE StreamSpec => []StreamInv
<1>1. StreamInit => StreamInv
  BY StreamInitially
<1>2. StreamInv /\ [StreamNext]_streamVars => StreamInv'
  BY StreamStep
<1> QED BY <1>1, <1>2, PTL DEF StreamSpec

\* What the invariant says of the inventory (_reap_locked, start, cleanup_if_idle).
LEMMA InvOwned == ASSUME StreamInv PROVE ProducersAreOwned
BY DEF StreamInv, HostInv, Owned, ProducersAreOwned

\* What it says of an answer (publish, close, deltas and the two formatters).
LEMMA InvWhole == ASSUME StreamAssumption, StreamInv PROVE WholeAnswers
<1> SUFFICES ASSUME NEW r \in Request
             PROVE  /\ http[r].sent = [i \in 1..Len(http[r].sent) |-> i]
                    /\ http[r].terminal = "stop" =>
                         /\ prod[r].fate = "completed" /\ bridge[r].disp = "completed"
                         /\ Len(http[r].sent) = prod[r].size \/ host.closed
  BY DEF WholeAnswers
<1> DEFINE s == http[r].sent
<1>1. s \in Seq(1..Answer) /\ \A i \in 1..Len(s) : s[i] = i
  BY TaskFacts DEF RequestInv
<1>2. s = [i \in 1..Len(s) |-> s[i]]
  BY <1>1
<1>3. s = [i \in 1..Len(s) |-> i]
  BY <1>1, <1>2
<1> HIDE DEF s
<1> QED BY <1>3, TaskFacts DEF RequestInv, s

(* Every live producer is in the inventory, which never exceeds its limit, *)
(* and the shared client is closed only when none is left nor to come.     *)
THEOREM ProducersStayOwned == ASSUME StreamAssumption PROVE StreamSpec => []ProducersAreOwned
BY StreamInvariant, InvOwned, PTL

(* A client gets the answer's pieces in order, and is told "stop" only for *)
(* an answer it has whole, but for what a shutdown drops.                  *)
THEOREM AnswersAreWhole == ASSUME StreamAssumption PROVE StreamSpec => []WholeAnswers
<1>1. StreamInv => WholeAnswers
  BY InvWhole
<1> QED BY <1>1, StreamInvariant, PTL

(* The bridges, producers, tasks, inventory and host keep their types.     *)
THEOREM StreamTypesHold == ASSUME StreamAssumption PROVE StreamSpec => []StreamTypeOK
<1>1. StreamInv => StreamTypeOK
  <2> SUFFICES ASSUME StreamInv PROVE StreamTypeOK
    OBVIOUS
  <2>1. host \in HostRow /\ workers \subseteq Request
    BY DEF StreamInv, Types
  <2>2. ASSUME NEW r \in Request
        PROVE  /\ bridge[r] \in BridgeRow /\ prod[r] \in ProdRow /\ http[r] \in HttpRow
               /\ Len(bridge[r].queue) =< Depth
    BY Rows DEF RequestInv
  <2> QED BY <2>1, <2>2 DEF StreamTypeOK, HostRow, BridgeRow, ProdRow, HttpRow
<1> QED BY <1>1, StreamInvariant, PTL
===============================================================================
