--------------------------- MODULE SubscriptionAuth ---------------------------
(***************************************************************************)
(* The subscription login of one profile: its consent (auth.json), its     *)
(* token family (oauth.json) and the requests that take credentials out of *)
(* them (subscription/credentials.py, token_store.py, manage.py).          *)
(*                                                                         *)
(* Every process reads and changes both files inside one transaction, an   *)
(* OS lock with a bounded wait (persistence.py), and each file is replaced *)
(* whole.  An access token ends with time; a refresh token is single-use,  *)
(* so a refresh posts, stores the rotated family and only then answers,    *)
(* all inside the transaction.  The device flow of a login runs outside.   *)
(*                                                                         *)
(* The token endpoint is external: it rotates the family of a refresh      *)
(* token that is not spent, or renews the access token alone, and refuses  *)
(* a token that is spent.  A family is known by the login that began it    *)
(* and by how often it was rotated.                                        *)
(***************************************************************************)
EXTENDS Integers, FiniteSets

CONSTANTS
    Client,       \* threads and processes that use the profile
    Nobody,
    MaxLogins,    \* device flows that are authorized at most
    MaxRotations, \* rotations of a family at most
    MaxFaults     \* killed processes, lost posts and answers, failed writes at most

AuthAssumption == Nobody \notin Client

VARIABLES
    config,   \* auth.json: mode, acknowledged risk, preference
    tokens,   \* oauth.json: absent, unreadable, or a family
    codex,    \* the Codex CLI's own login: "none", "live" or "expired"
    lock,     \* who is inside the profile transaction
    client,   \* what each client is doing
    server,   \* families begun, and refresh tokens presented
    faults

authVars == <<config, tokens, codex, lock, client, server, faults>>

Family(f, g, live) == [kind |-> "family", login |-> f, rot |-> g, live |-> live]
Absent == [kind |-> "absent", login |-> 0, rot |-> 0, live |-> FALSE]
Broken == [kind |-> "broken", login |-> 0, rot |-> 0, live |-> FALSE]
CodexLogin == [Absent EXCEPT !.kind = "codex", !.live = TRUE]
IdleClient == [at |-> "idle", got |-> Absent]

Preference == {"auto", "subscription", "api_key"}
Held(t) == <<t.login, t.rot>>
Active(c) == c.mode = "subscription" /\ c.ack

AuthInit ==
    /\ config = [mode |-> "api_key", ack |-> FALSE, pref |-> "auto"]
    /\ tokens \in {Absent, Broken}
    /\ codex \in {"none", "live", "expired"}
    /\ lock = Nobody
    /\ client = [c \in Client |-> IdleClient]
    /\ server = [logins |-> 0, spent |-> {}, twice |-> {}, lost |-> {}]
    /\ faults = 0

Go(c, at) == client' = [client EXCEPT ![c].at = at]
Idle(c) == client' = [client EXCEPT ![c] = IdleClient]

-----------------------------------------------------------------------------
(* The commands: each change of auth.json is read, made and replaced in    *)
(* one transaction.                                                        *)

Cleared(c, stale) == IF c.pref = stale THEN "auto" ELSE c.pref

Enabled(c) == [mode |-> "subscription", ack |-> TRUE, pref |-> Cleared(c, "api_key")]
Disabled(c) == [mode |-> "api_key", ack |-> FALSE, pref |-> Cleared(c, "subscription")]

Command(c, new) ==
    /\ client[c].at = "idle" /\ lock = Nobody
    /\ config' = new
    /\ UNCHANGED <<tokens, codex, lock, client, server, faults>>

Enable(c) == Command(c, Enabled(config))
Disable(c) == Command(c, Disabled(config))
Prefer(c, value) == Command(c, [config EXCEPT !.pref = value])

Logout(c) ==
    /\ client[c].at = "idle" /\ lock = Nobody
    /\ tokens' = Absent
    /\ UNCHANGED <<config, codex, lock, client, server, faults>>

\* ensure_opt_in asks outside the transaction whether the risk is acknowledged.
Login(c) ==
    /\ client[c].at = "idle"
    /\ server.logins < MaxLogins
    /\ Go(c, IF Active(config) THEN "polling" ELSE "opting")
    /\ UNCHANGED <<config, tokens, codex, lock, server, faults>>

OptIn(c) ==
    /\ client[c].at = "opting" /\ lock = Nobody
    /\ config' = Enabled(config)
    /\ Go(c, "polling")
    /\ UNCHANGED <<tokens, codex, lock, server, faults>>

\* The user authorizes the device, or never does.
Polled(c) ==
    /\ client[c].at = "polling"
    /\ IF server.logins < MaxLogins
       THEN /\ server' = [server EXCEPT !.logins = @ + 1]
            /\ client' = [client EXCEPT ![c].at = "storing",
                                        ![c].got = Family(server.logins + 1, 0, TRUE)]
       ELSE Idle(c) /\ UNCHANGED server
    /\ UNCHANGED <<config, tokens, codex, lock, faults>>

StoreLogin(c) ==
    /\ client[c].at = "storing" /\ lock = Nobody
    /\ tokens' = client[c].got
    /\ Idle(c)
    /\ UNCHANGED <<config, codex, lock, server, faults>>

-----------------------------------------------------------------------------
(* A request for credentials.                                              *)

\* build_subscription_client and, from then on, every request of its client.
Ask(c) ==
    /\ client[c].at = "idle"
    /\ client' = [client EXCEPT ![c].at = "waiting", ![c].got = tokens]
    /\ UNCHANGED <<config, tokens, codex, lock, server, faults>>

\* profile_transaction; what it holds is read after the lock is taken.
Reread_Early(c) == client[c].got

Reread(c) == tokens

Acquire(c) ==
    /\ client[c].at = "waiting" /\ lock = Nobody
    /\ lock' = c
    /\ client' = [client EXCEPT ![c].at = "locked", ![c].got = Reread(c)]
    /\ UNCHANGED <<config, tokens, codex, server, faults>>

\* The deadline of the lock: only another holder makes a caller wait.
Busy(c) ==
    /\ client[c].at \in {"waiting", "storing", "opting"} /\ lock # Nobody
    /\ Idle(c)
    /\ UNCHANGED <<config, tokens, codex, lock, server, faults>>

\* resolve, up to the refresh.
Consents(cfg) == Active(cfg) /\ cfg.pref # "api_key"

MayHandOut(c, creds) ==
    /\ Consents(config)
    /\ \/ client[c].got.kind = "family" /\ client[c].got.live /\ creds = client[c].got
       \/ /\ client[c].got.kind = "absent" /\ codex = "live"
          /\ creds = CodexLogin

MustRefresh(c) ==
    Consents(config) /\ client[c].got.kind = "family" /\ ~client[c].got.live

HandOut(c, creds) ==
    /\ client[c].at = "locked" /\ MayHandOut(c, creds)
    /\ client' = [client EXCEPT ![c] = [at |-> "served", got |-> creds]]
    /\ lock' = Nobody
    /\ UNCHANGED <<config, tokens, codex, server, faults>>

\* Not active, not acknowledged, preferred away, unreadable, expired: no answer.
Refuse(c) ==
    /\ client[c].at = "locked"
    /\ ~MustRefresh(c)
    /\ \A creds \in {client[c].got, CodexLogin} :
           ~MayHandOut(c, creds)
    /\ Idle(c)
    /\ lock' = Nobody
    /\ UNCHANGED <<config, tokens, codex, server, faults>>

\* refresh_tokens: the refresh token is presented, and the endpoint rotates the
\* family unless this token was spent before.
Present(c) ==
    LET t == Held(client[c].got) IN
    /\ client[c].at = "locked" /\ MustRefresh(c)
    /\ client[c].got.rot < MaxRotations
    /\ server' = [server EXCEPT !.spent = @ \cup {t},
                                !.twice = IF t \in server.spent THEN @ \cup {t} ELSE @]
    /\ client' = [client EXCEPT
           ![c].at = IF t \in server.spent THEN "failed" ELSE "rotated",
           ![c].got = IF t \in server.spent THEN @ ELSE Family(t[1], t[2] + 1, TRUE)]
    /\ UNCHANGED <<config, tokens, codex, lock, faults>>

\* An answer without a refresh token keeps the one that was presented, which is
\* not spent; nor is one whose post did not reach the endpoint.
Unspent(c) ==
    /\ client[c].at = "locked" /\ MustRefresh(c)
    /\ \/ /\ Held(client[c].got) \notin server.spent
          /\ client' = [client EXCEPT ![c] =
                 [at |-> "renewed", got |-> [client[c].got EXCEPT !.live = TRUE]]]
          /\ UNCHANGED faults
       \/ faults < MaxFaults /\ faults' = faults + 1 /\ Go(c, "failed")
    /\ UNCHANGED <<config, tokens, codex, lock, server>>

\* A rotation that nobody will read.
Wasted(c) ==
    IF client[c].at = "rotated" THEN [server EXCEPT !.lost = @ \cup {Held(tokens)}] ELSE server

\* The answer does not arrive, is unusable or cannot be written; or it is written
\* and its expiry has passed meanwhile.
Lose(c) ==
    /\ client[c].at \in {"rotated", "renewed"}
    /\ faults < MaxFaults /\ faults' = faults + 1
    /\ Go(c, "failed")
    /\ \/ UNCHANGED tokens /\ server' = Wasted(c)
       \/ tokens' = [client[c].got EXCEPT !.live = FALSE] /\ UNCHANGED server
    /\ UNCHANGED <<config, codex, lock>>

\* The rotated family is committed before it is answered.
Committed_Not(c) == tokens

Committed(c) == client[c].got

StoreRefresh(c) ==
    /\ client[c].at \in {"rotated", "renewed"}
    /\ tokens' = Committed(c)
    /\ Go(c, "served")
    /\ lock' = Nobody
    /\ UNCHANGED <<config, codex, server, faults>>

\* No fallback to an expired token, and no second try.
Fail(c) ==
    /\ client[c].at = "failed"
    /\ Idle(c)
    /\ lock' = Nobody
    /\ UNCHANGED <<config, tokens, codex, server, faults>>

\* The caller goes on with its request.
Leave(c) ==
    /\ client[c].at = "served"
    /\ Idle(c)
    /\ UNCHANGED <<config, tokens, codex, lock, server, faults>>

\* Closing the descriptor unlocks; a process killed by anything does that too.
Kill(c) ==
    /\ client[c].at \notin {"idle", "served"}
    /\ faults < MaxFaults /\ faults' = faults + 1
    /\ Idle(c)
    /\ lock' = IF lock = c THEN Nobody ELSE lock
    /\ server' = Wasted(c)
    /\ UNCHANGED <<config, tokens, codex>>

\* Time: the access token is about to end.
Expire ==
    /\ tokens.live
    /\ tokens' = [tokens EXCEPT !.live = FALSE]
    /\ client' = [c \in Client |->
           IF client[c].at = "locked" THEN [client[c] EXCEPT !.got = tokens'] ELSE client[c]]
    /\ UNCHANGED <<config, codex, lock, server, faults>>

AuthNext ==
    \/ \E c \in Client :
        \/ Enable(c) \/ Disable(c) \/ Logout(c) \/ Login(c) \/ OptIn(c) \/ Polled(c)
        \/ \E value \in Preference : Prefer(c, value)
        \/ StoreLogin(c) \/ Ask(c) \/ Acquire(c) \/ Busy(c) \/ Refuse(c)
        \/ \E creds \in {tokens, CodexLogin} :
               HandOut(c, creds)
        \/ Present(c) \/ Unspent(c) \/ Lose(c) \/ StoreRefresh(c) \/ Fail(c) \/ Leave(c)
        \/ Kill(c)
    \/ Expire

AuthSpec == AuthInit /\ [][AuthNext]_authVars
-----------------------------------------------------------------------------
AuthTypeOK ==
    /\ config.pref \in Preference /\ config.ack \in BOOLEAN
    /\ config.mode \in {"api_key", "subscription"}
    /\ tokens.kind \in {"absent", "broken", "family"}
    /\ tokens.login \in 0 .. MaxLogins /\ tokens.rot \in 0 .. MaxRotations
    /\ lock \in Client \cup {Nobody}
    /\ faults \in 0 .. MaxFaults

\* A refresh token is presented once, whoever waits for the same profile and
\* whatever command comes between: only one whose rotation was lost on the way
\* back is presented again, in vain (resolve, _refresh_own, refresh_tokens).
TokensAreSpentOnce == server.twice \subseteq server.lost

\* Credentials are answered under a consent on file at that moment, and they are
\* the stored login's: a rotated family is on disk before anybody uses it, and
\* the Codex login is answered only where there is no login of its own, not even
\* an unreadable one (resolve, read_tokens, _refresh_own).
HandsOutTheStore ==
    \A c \in Client :
        client[c].at # "served" /\ client'[c].at = "served" =>
            /\ Consents(config')
            /\ LET got == client'[c].got IN
               IF got.kind = "codex" THEN tokens'.kind = "absent" ELSE got = tokens'

HandedOutIsStored == [][HandsOutTheStore]_authVars
=============================================================================
