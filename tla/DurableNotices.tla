--------------------------- MODULE DurableNotices ---------------------------
(***************************************************************************)
(* The notice board of state/notices.py and its trail, notice_trail.py.    *)
(* Every operation is one BEGIN IMMEDIATE transaction, so one step.        *)
(* The clock is abstracted to what the queries ask of it: a row is past    *)
(* its TTL (expired) or not, its lease has run out (lapsed) or not; both   *)
(* happen at any time.  Rows are ordered by id, which created_at follows.  *)
(* The character budget of a claim never binds: eight texts of 500         *)
(* characters fit in 4096.  The 30 days of the trail are not modelled.     *)
(***************************************************************************)
EXTENDS Integers, FiniteSets, SequencesExt

CONSTANTS Owner, Fact, Token, NoToken,
          Cap,        \* DEFAULT_CAP: live rows of one owner
          ClaimMax,   \* MAX_CLAIM: rows of one claim
          TrailCap    \* TRAIL_CAP: tombstones kept of one owner

NoticeAssumption ==
    /\ {Cap, ClaimMax, TrailCap} \subseteq Nat \ {0}
    /\ NoToken \notin Token

VARIABLES board, trail, nextId

noticeVars == <<board, trail, nextId>>

Row == [id : Nat, owner : Owner, fact : Fact, token : Token \cup {NoToken},
        lapsed : BOOLEAN, expired : BOOLEAN]
Tombstone == [id : Nat, owner : Owner, reason : {"acked", "expired", "evicted"},
              token : Token \cup {NoToken}]

NoticeTypeOK ==
    /\ board \subseteq Row
    /\ trail \in Seq(Tombstone)
    /\ nextId \in Nat
    /\ \A o \in Owner : Cardinality({r \in board : r.owner = o}) <= Cap
    /\ \A r, q \in board : r.owner = q.owner /\ r.fact = q.fact => r = q

NoticeInit == board = {} /\ trail = <<>> /\ nextId = 1

Owners(rows) == {r.owner : r \in rows}
Oldest(rows, n) == {r \in rows : Cardinality({q \in rows : q.id < r.id}) < n}
Unleased(r) == [r EXCEPT !.token = NoToken, !.lapsed = FALSE]
UnderToken(tok) == {r \in board : r.token = tok}

\* Mutant: rows go without a tombstone.
Recorded_Nothing(log, rows, why, tok) == log

(* What the trail becomes when rows go for the given reason: an ack leaves *)
(* its own token, any other removal the token the row still carried.       *)
Recorded(log, rows, why, tok) ==
    log \o [i \in 1..Cardinality(rows) |->
              LET r == CHOOSE q \in rows : Cardinality({x \in rows : x.id < q.id}) = i - 1
              IN  [id |-> r.id, owner |-> r.owner, reason |-> why,
                   token |-> IF why = "acked" THEN tok ELSE r.token]]

(* The newest TrailCap tombstones of each owner that just lost a row. *)
Pruned(log, owners) ==
    LET kept == {i \in DOMAIN log :
                   log[i].owner \in owners
                   => Cardinality({j \in DOMAIN log : j > i /\ log[j].owner = log[i].owner})
                        < TrailCap}
    IN  [n \in 1..Cardinality(kept) |->
           log[CHOOSE i \in kept : Cardinality({j \in kept : j < i}) = n - 1]]

Evictable(r) == r.token = NoToken \/ r.lapsed

(* A live duplicate refuses the fact; an expired one makes room for it.    *)
(* Above the cap the oldest rows nobody holds go, and if they are too few  *)
(* the whole transaction is rolled back.                                   *)
Publish(o, f) ==
    LET dead == {r \in board : r.owner = o /\ r.fact = f /\ r.expired}
        kept == board \ dead
        mine == {r \in kept : r.owner = o}
        overflow == Cardinality(mine) + 1 - Cap
        victims == Oldest({r \in mine : Evictable(r)}, overflow)
        log == Recorded(Recorded(trail, dead, "expired", NoToken), victims, "evicted", NoToken)
    IN  IF (\E r \in mine : r.fact = f) \/ Cardinality(victims) < overflow
        THEN UNCHANGED noticeVars
        ELSE /\ board' = (kept \ victims)
                         \cup {[id |-> nextId, owner |-> o, fact |-> f, token |-> NoToken,
                                lapsed |-> FALSE, expired |-> FALSE]}
             /\ trail' = Pruned(log, {o})
             /\ nextId' = nextId + 1

(* Expired rows of every owner go first, then lapsed leases are recovered, *)
(* then the oldest free rows of the lineage are leased under one token.    *)
Claimable(owners) ==
    Oldest({r \in board : /\ ~r.expired /\ r.owner \in owners
                          /\ r.token = NoToken \/ r.lapsed}, ClaimMax)

Claim(owners, tok) ==
    LET expired == {r \in board : r.expired}
        won == Claimable(owners)
    IN  /\ board' = {[Unleased(r) EXCEPT !.token = tok] : r \in won}
                    \cup {IF r.lapsed THEN Unleased(r) ELSE r : r \in board \ (expired \cup won)}
        /\ trail' = Pruned(Recorded(trail, expired, "expired", NoToken), Owners(expired))
        /\ UNCHANGED nextId

(* Only what the token still holds goes; no caller acks a part of a claim. *)
Ack(tok) ==
    LET done == UnderToken(tok)
    IN  /\ board' = board \ done
        /\ trail' = Pruned(Recorded(trail, done, "acked", tok), Owners(done))
        /\ UNCHANGED nextId

Release(tok) ==
    /\ board' = {IF r.token = tok THEN Unleased(r) ELSE r : r \in board}
    /\ UNCHANGED <<trail, nextId>>

(* The clock passes a row's TTL, or the term of the leases of one claim. *)
Expire(r) ==
    /\ r \in board /\ ~r.expired
    /\ board' = (board \ {r}) \cup {[r EXCEPT !.expired = TRUE]}
    /\ UNCHANGED <<trail, nextId>>

Lapse(tok) ==
    /\ \E r \in UnderToken(tok) : ~r.lapsed
    /\ board' = {IF r.token = tok THEN [r EXCEPT !.lapsed = TRUE] ELSE r : r \in board}
    /\ UNCHANGED <<trail, nextId>>
=============================================================================
