------------------------------ MODULE Sessions ------------------------------
(***************************************************************************)
(* Refresh tokens on the server (auth.service.ts) and the session one      *)
(* application keeps in secure storage (auth_repository.dart,              *)
(* auth_tenant_interceptor.dart).                                          *)
(*                                                                         *)
(* Three parties talk to the server: the "ui" (login, logout and the check *)
(* at start-up), the "refresher" (the interceptor after a 401) and "copy", *)
(* whoever else holds a token this application once had.  Every read,      *)
(* write and delete of the storage is awaited, so the ui, the refresher    *)
(* and the replay of queued mutations interleave between any two of them.  *)
(***************************************************************************)
EXTENDS Naturals

CONSTANTS
    User, Token,
    NoUser, NoToken,
    Database,   \* "sqlite" or "postgresql"
    MaxFaults   \* bound on lost answers, kills of the application and copies

ASSUME SessionsAssumption ==
    /\ NoUser \notin User /\ NoToken \notin Token
    /\ Database \in {"sqlite", "postgresql"}
    /\ MaxFaults \in Nat

Party == {"ui", "refresher", "copy"}
Flow  == {"ui", "refresher"}

VARIABLES
    state,    \* RefreshToken: "unused" (no row), "live" or "revoked" (revokedAt)
    user,     \* RefreshToken.userId
    line,     \* the token of the login a token descends from
    pc,       \* next step of the request of each party on the server
    tok,      \* the token it presents
    seen,     \* history: the user's live tokens when it was read
    got,      \* the new token in the answer, NoToken for none
    access, refresh, owner,  \* the storage keys; an access token is its user
    flow,     \* next step of each flow of the application
    mode,     \* what the ui shows: "boot" (start-up), "out" (login) or "in"
    replay,   \* the mutation being replayed: step, expected owner, token read
    crossed,  \* history: a refresh has ended over a session that was changing
    faults    \* history: lost answers, kills and copies so far

tokens == <<state, user, line>>
asked  == <<pc, tok, seen, got>>
disk   == <<access, refresh, owner>>
app    == <<flow, mode, replay, crossed, faults>>
vars   == <<tokens, asked, disk, app>>

NoReplay == [step |-> "idle", expected |-> NoUser, token |-> NoUser]

Init ==
    /\ state = [t \in Token |-> "unused"]
    /\ user = [t \in Token |-> NoUser]
    /\ line = [t \in Token |-> NoToken]
    /\ pc = [p \in Party |-> "idle"]
    /\ tok = [p \in Party |-> NoToken]
    /\ seen = [p \in Party |-> {}]
    /\ got = [p \in Party |-> NoToken]
    /\ access = NoUser /\ refresh = NoToken /\ owner = NoUser
    /\ flow = [f \in Flow |-> "idle"]
    /\ mode = "out"
    /\ replay = NoReplay
    /\ crossed = FALSE
    /\ faults = 0

-----------------------------------------------------------------------------
(* The server *)

Live(u) == {t \in Token : state[t] = "live" /\ user[t] = u}
Issued == {t \in Token : state[t] # "unused"}

\* Tokens claimed by a transaction that has not committed: their rows are locked.
Claimed == {tok[p] : p \in {q \in Party : pc[q] = "create"}}

\* SQLite runs one writer at a time.
MayWrite == Database = "sqlite" => Claimed = {}

Advance(p, step) == pc' = [pc EXCEPT ![p] = step]

\* findUnique, before any transaction.
ReadToken(p) ==
    /\ pc[p] = "read"
    /\ IF state[tok[p]] = "revoked"
       THEN Advance(p, "revoke") /\ seen' = [seen EXCEPT ![p] = Live(user[tok[p]])]
       ELSE Advance(p, "claim") /\ UNCHANGED seen
    /\ UNCHANGED <<tokens, tok, got, disk, app>>

RevokePresented(p) ==  \* mutant: the filter is the token, not its user
    /\ pc[p] = "revoke"
    /\ MayWrite
    /\ state' = [state EXCEPT ![tok[p]] = "revoked"]
    /\ got' = [got EXCEPT ![p] = NoToken]
    /\ seen' = [seen EXCEPT ![p] = {}]
    /\ Advance(p, "done")
    /\ UNCHANGED <<user, line, tok, disk, app>>

\* updateMany over the live tokens of the user.  A token that is being rotated is
\* locked; when the lock is free it is revoked already, and its successor is not seen.
RevokeAll(p) ==
    /\ pc[p] = "revoke"
    /\ MayWrite
    /\ state' = [t \in Token |-> IF t \in Live(user[tok[p]]) \ Claimed THEN "revoked" ELSE state[t]]
    /\ got' = [got EXCEPT ![p] = NoToken]
    /\ seen' = [seen EXCEPT ![p] = {}]
    /\ Advance(p, "done")
    /\ UNCHANGED <<user, line, tok, disk, app>>

ClaimUnconditionally(p) ==  \* mutant: the claim has no revokedAt: null
    /\ pc[p] = "claim"
    /\ MayWrite /\ tok[p] \notin Claimed
    /\ Advance(p, "create")
    /\ UNCHANGED <<tokens, tok, seen, got, disk, app>>

\* The transaction claims the token with a conditional update.  When another has
\* claimed it, all tokens are revoked and the exception rolls that back.
Claim(p) ==
    /\ pc[p] = "claim"
    /\ MayWrite /\ tok[p] \notin Claimed
    /\ IF state[tok[p]] = "live"
       THEN Advance(p, "create") /\ UNCHANGED got
       ELSE Advance(p, "done") /\ got' = [got EXCEPT ![p] = NoToken]
    /\ UNCHANGED <<tokens, tok, seen, disk, app>>

\* The transaction creates the successor and commits.
Create(p) ==
    /\ pc[p] = "create"
    /\ \E t \in Token \ Issued :
          /\ state' = [state EXCEPT ![tok[p]] = "revoked", ![t] = "live"]
          /\ user' = [user EXCEPT ![t] = user[tok[p]]]
          /\ line' = [line EXCEPT ![t] = line[tok[p]]]
          /\ got' = [got EXCEPT ![p] = t]
    /\ Advance(p, "done")
    /\ UNCHANGED <<tok, seen, disk, app>>

\* POST /auth/refresh, or POST /auth/logout, which goes on to revoke.
Ask(p, t, step) ==
    /\ pc[p] = "idle"
    /\ tok' = [tok EXCEPT ![p] = t]
    /\ seen' = [seen EXCEPT ![p] = IF step = "revoke" THEN Live(user[t]) ELSE {}]
    /\ Advance(p, step)
    /\ UNCHANGED <<tokens, got>>

\* An answer nobody waits for.
Drop(p) ==
    /\ pc[p] = "done"
    /\ p \in Flow => flow[p] # "wait"
    /\ Advance(p, "idle")
    /\ UNCHANGED <<tokens, tok, seen, got, disk, app>>

\* Another holder of a token that was issued presents it.
UseCopy(t) ==
    /\ t \in Issued
    /\ faults < MaxFaults /\ faults' = faults + 1
    /\ Ask("copy", t, "read")
    /\ UNCHANGED <<disk, flow, mode, replay, crossed>>

-----------------------------------------------------------------------------
(* The application: three storage keys, written or deleted one by one *)

Step(f, next) == flow' = [flow EXCEPT ![f] = next]
Booted == mode # "boot"

\* The refresher finishes over a session that another flow changes or has changed.
Crossing(f, expected) ==
    crossed' = (crossed \/ (f = "refresher" /\ (flow["ui"] # "idle" \/ refresh # expected)))

Ended(f, shown) ==
    /\ Step(f, "idle")
    /\ mode' = IF f = "ui" THEN shown ELSE mode

WriteAccess(f) ==
    /\ flow[f] = "writeAccess"
    /\ access' = user[got[f]]
    /\ Crossing(f, tok[f])
    /\ Step(f, "writeRefresh")
    /\ UNCHANGED <<tokens, asked, refresh, owner, mode, replay, faults>>

WriteRefreshNever(f) ==  \* mutant: only the access token is stored
    /\ flow[f] = "writeRefresh"
    /\ Crossing(f, tok[f])
    /\ IF f = "ui" THEN Step(f, "writeOwner") /\ UNCHANGED mode ELSE Ended(f, "in")
    /\ refresh' = IF f = "ui" THEN got[f] ELSE refresh
    /\ UNCHANGED <<tokens, asked, access, owner, replay, faults>>

\* The interceptor does not store the user, the repository does.
WriteRefresh(f) ==
    /\ flow[f] = "writeRefresh"
    /\ refresh' = got[f]
    /\ Crossing(f, tok[f])
    /\ IF f = "ui" THEN Step(f, "writeOwner") /\ UNCHANGED mode ELSE Ended(f, "in")
    /\ UNCHANGED <<tokens, asked, access, owner, replay, faults>>

WriteOwner(f) ==
    /\ flow[f] = "writeOwner"
    /\ owner' = user[got[f]]
    /\ Ended(f, "in")
    /\ UNCHANGED <<tokens, asked, access, refresh, replay, crossed, faults>>

ClearAccess(f) ==
    /\ flow[f] = "clearAccess"
    /\ access' = NoUser
    /\ Crossing(f, tok[f])
    /\ Step(f, "clearRefresh")
    /\ UNCHANGED <<tokens, asked, refresh, owner, mode, replay, faults>>

ClearRefresh(f) ==
    /\ flow[f] = "clearRefresh"
    /\ refresh' = NoToken
    /\ Crossing(f, tok[f])
    /\ Step(f, "clearOwner")
    /\ UNCHANGED <<tokens, asked, access, owner, mode, replay, faults>>

ClearOwnerNever(f) ==  \* mutant: the user key is not deleted with the others
    /\ flow[f] = "clearOwner"
    /\ Crossing(f, NoToken)
    /\ Ended(f, "out")
    /\ UNCHANGED <<tokens, asked, disk, replay, faults>>

ClearOwner(f) ==
    /\ flow[f] = "clearOwner"
    /\ owner' = NoUser
    /\ Crossing(f, NoToken)
    /\ Ended(f, "out")
    /\ UNCHANGED <<tokens, asked, access, refresh, replay, faults>>

\* login: the server issues a session, the client stores it.
Login(u) ==
    /\ mode = "out" /\ flow["ui"] = "idle" /\ pc["ui"] = "idle"
    /\ \E t \in Token \ Issued :
          /\ state' = [state EXCEPT ![t] = "live"]
          /\ user' = [user EXCEPT ![t] = u]
          /\ line' = [line EXCEPT ![t] = t]
          /\ got' = [got EXCEPT !["ui"] = t]
    /\ Step("ui", "writeAccess")
    /\ UNCHANGED <<pc, tok, seen, disk, mode, replay, crossed, faults>>

\* Present the stored token to the server; with none, clear the storage at once.
AskUnlessEmpty(step) ==
    /\ IF refresh = NoToken
       THEN Step("ui", "clearAccess") /\ UNCHANGED <<tokens, asked>>
       ELSE Step("ui", "wait") /\ Ask("ui", refresh, step)
    /\ UNCHANGED <<disk, mode, replay, crossed, faults>>

Logout == mode = "in" /\ flow["ui"] = "idle" /\ AskUnlessEmpty("revoke")

\* hasValidSession at start-up: nothing else runs before it has answered.
Boot == flow["ui"] = "boot" /\ AskUnlessEmpty("read")

\* The interceptor refreshes once for all requests that were answered 401.
Refresh ==
    /\ Booted /\ flow["refresher"] = "idle" /\ refresh # NoToken
    /\ Ask("refresher", refresh, "read")
    /\ Step("refresher", "wait")
    /\ UNCHANGED <<disk, mode, replay, crossed, faults>>

Answered(f) ==
    /\ flow[f] = "wait" /\ pc[f] = "done"
    /\ Step(f, IF got[f] # NoToken THEN "writeAccess" ELSE "clearAccess")
    /\ Advance(f, "idle")
    /\ UNCHANGED <<tokens, tok, seen, got, disk, mode, replay, crossed, faults>>

\* Any failure of the request ends the session, and logout does anyway.
Lost(f) ==
    /\ flow[f] = "wait"
    /\ faults < MaxFaults /\ faults' = faults + 1
    /\ Step(f, "clearAccess")
    /\ UNCHANGED <<tokens, asked, disk, mode, replay, crossed>>

Kill ==
    /\ faults < MaxFaults /\ faults' = faults + 1
    /\ flow' = [ui |-> "boot", refresher |-> "idle"]
    /\ mode' = "boot"
    /\ replay' = NoReplay
    /\ UNCHANGED <<tokens, asked, disk, crossed>>

\* sync() for the stored user; onRequest reads the token, then the owner, and
\* refuses a replay whose owner is not the stored one.  A 401 comes back here.
BeginReplay ==
    /\ Booted /\ replay.step \in {"idle", "sent"} /\ owner # NoUser
    /\ replay' = [step |-> "token", expected |-> owner, token |-> NoUser]
    /\ UNCHANGED <<tokens, asked, disk, flow, mode, crossed, faults>>

ReplayToken ==
    /\ replay.step = "token"
    /\ replay' = [replay EXCEPT !.step = "owner", !.token = access]
    /\ UNCHANGED <<tokens, asked, disk, flow, mode, crossed, faults>>

ReplayOwner ==
    /\ replay.step = "owner"
    /\ replay' = IF owner = replay.expected /\ replay.token # NoUser
                 THEN [replay EXCEPT !.step = "sent"] ELSE NoReplay
    /\ UNCHANGED <<tokens, asked, disk, flow, mode, crossed, faults>>

Retry ==
    /\ replay.step = "sent"
    /\ replay' = [replay EXCEPT !.step = "token"]
    /\ UNCHANGED <<tokens, asked, disk, flow, mode, crossed, faults>>

Next ==
    \/ \E p \in Party : ReadToken(p) \/ RevokeAll(p) \/ Claim(p) \/ Create(p) \/ Drop(p)
    \/ \E t \in Token : UseCopy(t)
    \/ \E f \in Flow : \/ WriteAccess(f) \/ WriteRefresh(f) \/ WriteOwner(f)
                       \/ ClearAccess(f) \/ ClearRefresh(f) \/ ClearOwner(f)
                       \/ Answered(f) \/ Lost(f)
    \/ \E u \in User : Login(u)
    \/ Logout \/ Boot \/ Refresh \/ Kill
    \/ BeginReplay \/ ReplayToken \/ ReplayOwner \/ Retry

Spec == Init /\ [][Next]_vars

-----------------------------------------------------------------------------
(* Properties *)

TypeOK ==
    /\ state \in [Token -> {"unused", "live", "revoked"}]
    /\ user \in [Token -> User \cup {NoUser}]
    /\ line \in [Token -> Token \cup {NoToken}]
    /\ pc \in [Party -> {"idle", "read", "revoke", "claim", "create", "done"}]
    /\ tok \in [Party -> Token \cup {NoToken}]
    /\ seen \in [Party -> SUBSET Token]
    /\ got \in [Party -> Token \cup {NoToken}]
    /\ access \in User \cup {NoUser} /\ owner \in User \cup {NoUser}
    /\ refresh \in Token \cup {NoToken}
    /\ flow \in [Flow -> {"idle", "boot", "wait", "writeAccess", "writeRefresh", "writeOwner",
                          "clearAccess", "clearRefresh", "clearOwner"}]
    /\ mode \in {"boot", "out", "in"}
    /\ replay \in [step : {"idle", "token", "owner", "sent"}, expected : User \cup {NoUser},
                   token : User \cup {NoUser}]
    /\ crossed \in BOOLEAN
    /\ faults \in 0..MaxFaults

\* Rotation never forks a session: however many present a token at once, of all
\* tokens that descend from one login at most one is live.
OneLiveToken ==
    \A s, t \in Token :
        state[s] = "live" /\ state[t] = "live" /\ line[s] = line[t] => s = t

\* Once a logout or the presentation of a revoked token is answered, no token of
\* the user that was live when the server read it is live, unless it was being
\* rotated while the others were revoked.
ReuseEndsSessions ==
    [][\A p \in Party :
          pc[p] = "revoke" /\ pc'[p] = "done"
              => \A t \in seen[p] \ Claimed : state'[t] # "live"]_vars

Quiet == \A f \in Flow : flow[f] = "idle"

\* At rest the stored keys tell of one session, or there is none, unless a
\* refresh has ended over a session that was changing.
StoredSessionIsOne ==
    Quiet /\ ~crossed =>
        \/ access = NoUser /\ refresh = NoToken /\ owner = NoUser
        \/ refresh # NoToken /\ user[refresh] = access /\ owner = access

\* Without faults and crossings a session does not end by itself: at rest the
\* stored refresh token is live.
SessionSurvives ==
    Quiet /\ ~crossed /\ faults = 0 /\ refresh # NoToken => state[refresh] = "live"

\* What the README promises of the offline queue (strict tracking of owner and
\* tenant): a replay reaches the server under the token of its owner.
ReplayUnderItsOwner == replay.step = "sent" => replay.token = replay.expected
=============================================================================
