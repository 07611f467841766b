------------------------------ MODULE Sessions ------------------------------
(***************************************************************************)
(* Refresh sessions of SAuth: Login, Refresh and Logout of                 *)
(* internal/auth/service.go over the tables sessions and                   *)
(* refresh_token_history, step by step as the statements reach PostgreSQL  *)
(* under READ COMMITTED.                                                   *)
(*                                                                         *)
(* A request slot r serves one request after another.  The uncommitted     *)
(* writes of a request are not in the tables: they are read off its pc and *)
(* its field revoking, and are the row locks that other requests wait for. *)
(* A fresh token is drawn where its hash is committed, because nobody can  *)
(* see it before.  A response that gets lost is one whose token is never   *)
(* presented again.                                                        *)
(***************************************************************************)
EXTENDS FiniteSets, Naturals

CONSTANTS
    User,        \* rows of the table users
    Session,     \* primary keys that sessions may draw
    Token,       \* raw refresh tokens that the server may draw
    Request,     \* request slots served concurrently
    NoRow, NoUser, NoSession, NoToken,
    Faults       \* may statements, commits and connections fail?

ASSUME FaultsAreOptional == Faults \in BOOLEAN
ASSUME RequestsAreFinite == IsFiniteSet(Request)

VARIABLES
    banned,                 \* users whose column banned is set
    sessions,               \* the committed rows of table sessions
    refresh_token_history,  \* the committed rows of refresh_token_history
    issued,                 \* history: every committed token and its origin
    req                     \* the request each slot serves

vars == <<banned, sessions, refresh_token_history, issued, req>>

-----------------------------------------------------------------------------
\* The tables.

HashRefreshToken(t) == [sha256 |-> t]

Hash == {HashRefreshToken(t) : t \in Token}

SessionRow == [user_id : User, refresh_token_hash : Hash,
               revoked : BOOLEAN, expired : BOOLEAN]

ASSUME NoRowIsNoRow == NoRow \notin SessionRow
ASSUME NoUserIsNoUser == NoUser \notin User
ASSUME NoTokenIsNoToken == NoToken \notin Token
ASSUME NoSessionIsNoSession == NoSession \notin Session

HistoryRow == [token_hash : Hash, session_id : Session]

Exists(s) == sessions[s] # NoRow

Revoked(s) == Exists(s) /\ sessions[s].revoked

HasHash(s, h) == Exists(s) /\ sessions[s].refresh_token_hash = h

\* Seeded bug: the condition user_id = $1 is missing.
SessionsOfAnyone(u) == {s \in Session : Exists(s)}

SessionsOf(u) == {s \in Session : Exists(s) /\ sessions[s].user_id = u}

UsedHashes == {row.token_hash : row \in refresh_token_history}

IssuedTokens == {i.token : i \in issued}

\* NoToken stands for any string that the server never issued.
Presentable == IssuedTokens \union {NoToken}

-----------------------------------------------------------------------------
\* Requests.

Verdict == {"ok", "no_content", "invalid", "reuse", "banned", "error"}

Resting == Verdict \union {"idle"}

Waiting == {"issue", "record", "rotate", "user", "commit",
            "used", "revoke", "logout"}

Rest(verdict) ==
    [pc |-> verdict, token |-> NoToken, session |-> NoSession,
     user |-> NoUser, todo |-> {}, revoking |-> {}, before |-> {},
     shunned |-> {}]

RequestState ==
    [pc : Resting \union Waiting, token : Token \union {NoToken},
     session : Session \union {NoSession}, user : User \union {NoUser},
     todo : SUBSET Session, revoking : SUBSET Session,
     before : SUBSET Session, shunned : SUBSET User]

Answer(r, verdict) == req' = [req EXCEPT ![r] = Rest(verdict)]

At(r, label) == req[r].pc = label

Goto(r, label) == req' = [req EXCEPT ![r].pc = label]

Begin(r, label) == [Rest(label) EXCEPT !.shunned = banned]

\* Bounds of the instance: a request starts only if the tokens and sessions
\* left suffice for it and for every request in flight.
MayDraw(q) == req[q].pc \in {"issue", "record", "rotate", "user", "commit"}

TokensLeft ==
    Cardinality({q \in Request : MayDraw(q)})
        < Cardinality(Token \ IssuedTokens)

SessionsLeft ==
    Cardinality({q \in Request : At(q, "issue")})
        < Cardinality({s \in Session : ~ Exists(s)})

-----------------------------------------------------------------------------
\* Row locks that the uncommitted writes of q hold.

\* RecordUsedRefreshHash really inserted a row: its key is taken and the
\* foreign key holds FOR KEY SHARE on the session.
Inserted(q) == req[q].pc \in {"rotate", "user", "commit"}
               /\ HashRefreshToken(req[q].token) \notin UsedHashes

HoldsKeyShare(q, s) == Inserted(q) /\ req[q].session = s

\* RotateSessionRefreshHash changes a unique column: FOR UPDATE.
HoldsRotate(q, s) == req[q].pc \in {"user", "commit"} /\ req[q].session = s

\* RevokeAllUserSessions changes no key: FOR NO KEY UPDATE.
HoldsRevoke(q, s) == s \in req[q].revoking

\* The requests that r waits for at its next statement.
Blockers(r) ==
    {q \in Request \ {r} :
        \/ /\ At(r, "record")
           /\ HashRefreshToken(req[r].token) \notin UsedHashes
           /\ \/ HoldsRotate(q, req[r].session)
              \/ Inserted(q) /\ req[q].token = req[r].token
        \/ /\ At(r, "rotate")
           /\ \/ HoldsRotate(q, req[r].session)
              \/ HoldsRevoke(q, req[r].session)
              \/ HoldsKeyShare(q, req[r].session)
        \/ /\ At(r, "logout")
           /\ \/ HoldsRotate(q, req[r].session)
              \/ HoldsRevoke(q, req[r].session)}

RowBlockers(r, s) ==
    {q \in Request \ {r} : HoldsRotate(q, s) \/ HoldsRevoke(q, s)}

-----------------------------------------------------------------------------
\* What the statements of Refresh do to the rows.

\* Seeded bug: the rotation extends the expiry and keeps the hash.
Prolonged(row, t) == [row EXCEPT !.expired = FALSE]

\* SET refresh_token_hash, expires_at (RotateSessionRefreshHash).
Rotated(row, t) ==
    [row EXCEPT !.refresh_token_hash = HashRefreshToken(t), !.expired = FALSE]

\* Seeded bug: the outgoing hash is not recorded.
NothingOutgoing(r) == {}

\* The row RecordUsedRefreshHash adds, none on a conflict.
Outgoing(r) ==
    {row \in {[token_hash |-> HashRefreshToken(req[r].token),
               session_id |-> req[r].session]} :
        row.token_hash \notin UsedHashes}

\* The rows RevokeAllUserSessions selects for the owner of the replayed token.
VictimsOf(row) == SessionsOf(sessions[row.session_id].user_id)

-----------------------------------------------------------------------------
Init ==
    /\ banned = {}
    /\ sessions = [s \in Session |-> NoRow]
    /\ refresh_token_history = {}
    /\ issued = {}
    /\ req = [r \in Request |-> Rest("idle")]

-----------------------------------------------------------------------------
\* Login: the user row is read and judged before the transaction begins.

LoginLookup(r, u, passwordMatches) ==
    /\ req[r].pc \in Resting
    /\ SessionsLeft /\ TokensLeft
    /\ \/ ~ passwordMatches /\ Answer(r, "invalid")
       \/ passwordMatches /\ u \in banned /\ Answer(r, "banned")
       \/ /\ passwordMatches /\ u \notin banned
          /\ req' = [req EXCEPT ![r] = [Begin(r, "issue") EXCEPT !.user = u]]
    /\ UNCHANGED <<banned, sessions, refresh_token_history, issued>>

Issue(r, s, t) ==
    /\ At(r, "issue")
    /\ ~ Exists(s)
    /\ t \notin IssuedTokens
    /\ sessions' = [sessions EXCEPT ![s] =
          [user_id |-> req[r].user, refresh_token_hash |-> HashRefreshToken(t),
           revoked |-> FALSE, expired |-> FALSE]]
    /\ issued' = issued \union {[token |-> t, from |-> NoToken, session |-> s]}
    /\ Answer(r, "ok")
    /\ UNCHANGED <<banned, refresh_token_history>>

-----------------------------------------------------------------------------
\* Refresh of a token that is some session's current one.

RefreshSelect(r, t) ==
    /\ req[r].pc \in Resting
    /\ TokensLeft
    /\ \/ \E s \in Session :
            /\ HasHash(s, HashRefreshToken(t))
            /\ \/ /\ sessions[s].revoked \/ sessions[s].expired
                  /\ Answer(r, "invalid")
               \/ /\ ~ sessions[s].revoked /\ ~ sessions[s].expired
                  /\ req' = [req EXCEPT ![r] =
                        [Begin(r, "record") EXCEPT !.token = t, !.session = s]]
       \/ /\ \A s \in Session : ~ HasHash(s, HashRefreshToken(t))
          /\ req' = [req EXCEPT ![r] =
                [Begin(r, "used") EXCEPT
                    !.token = t, !.before = {s \in Session : Exists(s)}]]
    /\ UNCHANGED <<banned, sessions, refresh_token_history, issued>>

\* Seeded bug: the history is written through s.q, outside the transaction.
RefreshRecordOutsideTx(r) ==
    /\ At(r, "record")
    /\ Blockers(r) = {}
    /\ refresh_token_history' = refresh_token_history \union Outgoing(r)
    /\ Goto(r, "rotate")
    /\ UNCHANGED <<banned, sessions, issued>>

\* Seeded bug: token_hash is not unique in the history, so that two requests
\* with one token insert it at once.
RefreshRecordNotUnique(r) ==
    /\ At(r, "record")
    /\ \A q \in Request \ {r} : ~ HoldsRotate(q, req[r].session)
    /\ Goto(r, "rotate")
    /\ UNCHANGED <<banned, sessions, refresh_token_history, issued>>

\* INSERT ... ON CONFLICT DO NOTHING; it stays uncommitted.
RefreshRecord(r) ==
    /\ At(r, "record")
    /\ Blockers(r) = {}
    /\ Goto(r, "rotate")
    /\ UNCHANGED <<banned, sessions, refresh_token_history, issued>>

\* Seeded bug: the condition revoked_at IS NULL is missing.
RefreshRotateAnyRow(r) ==
    /\ At(r, "rotate")
    /\ Blockers(r) = {}
    /\ Goto(r, "user")
    /\ UNCHANGED <<banned, sessions, refresh_token_history, issued>>

\* UPDATE ... WHERE id = $3 AND revoked_at IS NULL, judged on the row as it is
\* once the lock is granted.
RefreshRotate(r) ==
    /\ At(r, "rotate")
    /\ Blockers(r) = {}
    /\ IF Revoked(req[r].session) THEN Answer(r, "invalid") ELSE Goto(r, "user")
    /\ UNCHANGED <<banned, sessions, refresh_token_history, issued>>

\* Seeded bug: the flag is not looked at after the rotation.
RefreshUserUnchecked(r) ==
    /\ At(r, "user")
    /\ Goto(r, "commit")
    /\ UNCHANGED <<banned, sessions, refresh_token_history, issued>>

RefreshUser(r) ==
    /\ At(r, "user")
    /\ IF sessions[req[r].session].user_id \in banned
         THEN Answer(r, "banned") ELSE Goto(r, "commit")
    /\ UNCHANGED <<banned, sessions, refresh_token_history, issued>>

RefreshCommit(r, t) ==
    /\ At(r, "commit")
    /\ t \notin IssuedTokens
    /\ sessions' = [sessions EXCEPT ![req[r].session] = Rotated(@, t)]
    /\ refresh_token_history' = refresh_token_history \union Outgoing(r)
    /\ issued' = issued \union
          {[token |-> t, from |-> req[r].token, session |-> req[r].session]}
    /\ Answer(r, "ok")
    /\ UNCHANGED banned

-----------------------------------------------------------------------------
\* Refresh of any other token: reuse detection.

\* The history lookup; on a hit the statement RevokeAllUserSessions takes its
\* snapshot of the victim's rows.
RefreshFindUsed(r) ==
    /\ At(r, "used")
    /\ \/ /\ HashRefreshToken(req[r].token) \notin UsedHashes
          /\ Answer(r, "invalid")
       \/ \E row \in refresh_token_history :
            /\ row.token_hash = HashRefreshToken(req[r].token)
            /\ req' = [req EXCEPT
                  ![r].pc = "revoke",
                  ![r].session = row.session_id,
                  ![r].todo = {s \in VictimsOf(row) : ~ sessions[s].revoked}]
    /\ UNCHANGED <<banned, sessions, refresh_token_history, issued>>

\* Seeded bug: rows that another transaction has locked are skipped.
RevokeAllRowSkipLocked(r, s) ==
    /\ At(r, "revoke")
    /\ s \in req[r].todo
    /\ req' = [req EXCEPT
          ![r].todo = @ \ {s},
          ![r].revoking = IF RowBlockers(r, s) # {} THEN @ ELSE @ \union {s}]
    /\ UNCHANGED <<banned, sessions, refresh_token_history, issued>>

\* The statement reaches row s; if it had to wait, revoked_at IS NULL is judged
\* again on the row it then finds.
RevokeAllRow(r, s) ==
    /\ At(r, "revoke")
    /\ s \in req[r].todo
    /\ RowBlockers(r, s) = {}
    /\ req' = [req EXCEPT
          ![r].todo = @ \ {s},
          ![r].revoking = IF Revoked(s) THEN @ ELSE @ \union {s}]
    /\ UNCHANGED <<banned, sessions, refresh_token_history, issued>>

RefreshReuseCommit(r) ==
    /\ At(r, "revoke")
    /\ req[r].todo = {}
    /\ sessions' = [s \in Session |->
          IF s \in req[r].revoking
            THEN [sessions[s] EXCEPT !.revoked = TRUE] ELSE sessions[s]]
    /\ Answer(r, "reuse")
    /\ UNCHANGED <<banned, refresh_token_history, issued>>

-----------------------------------------------------------------------------
\* Logout: two statements, no transaction.

LogoutSelect(r, t) ==
    /\ req[r].pc \in Resting
    /\ \/ \E s \in Session :
            /\ HasHash(s, HashRefreshToken(t))
            /\ req' = [req EXCEPT ![r] =
                  [Begin(r, "logout") EXCEPT !.token = t, !.session = s]]
       \/ /\ \A s \in Session : ~ HasHash(s, HashRefreshToken(t))
          /\ Answer(r, "no_content")
    /\ UNCHANGED <<banned, sessions, refresh_token_history, issued>>

LogoutRevoke(r) ==
    /\ At(r, "logout")
    /\ Blockers(r) = {}
    /\ sessions' = [sessions EXCEPT ![req[r].session].revoked = TRUE]
    /\ Answer(r, "no_content")
    /\ UNCHANGED <<banned, refresh_token_history, issued>>

-----------------------------------------------------------------------------
\* What goes wrong, and what happens around the requests.

\* Seeded bug: a failed statement has a verdict that no caller expects.
VerdictUnmapped(r) == "timeout"

\* Errors of the lookup in the history count as a miss; errors of the
\* revocation are dropped.  In both cases the transaction is rolled back.
VerdictOnError(r) ==
    CASE At(r, "used") -> "invalid"
      [] At(r, "revoke") -> "reuse"
      [] OTHER -> "error"

\* A statement or a commit fails, the deadline of the request passes, or the
\* process dies: the database rolls the transaction back.
Fail(r) ==
    /\ Faults
    /\ req[r].pc \in Waiting
    /\ Answer(r, VerdictOnError(r))
    /\ UNCHANGED <<banned, sessions, refresh_token_history, issued>>

\* Each request of D waits for another one of D.
WaitForEachOther(D) ==
    /\ D # {}
    /\ \A r \in D :
          \/ Blockers(r) \intersect D # {}
          \/ \E s \in req[r].todo : RowBlockers(r, s) \intersect D # {}
                /\ \A other \in req[r].todo : RowBlockers(r, other) # {}

\* A cycle, and no one else.
Deadlock(D) ==
    /\ WaitForEachOther(D)
    /\ \A E \in SUBSET D : WaitForEachOther(E) => E = D

\* Seeded bug: a transaction that was ended is begun again, as often as it takes.
DeadlockVictimRetried(r) ==
    /\ \E D \in SUBSET Request : r \in D /\ Deadlock(D)
    /\ req' = [req EXCEPT ![r].pc = IF At(r, "revoke") THEN "used" ELSE "record",
                          ![r].todo = {}, ![r].revoking = {}]
    /\ UNCHANGED <<banned, sessions, refresh_token_history, issued>>

\* PostgreSQL finds the cycle and ends the transaction of one of its members.
DeadlockVictim(r) ==
    /\ \E D \in SUBSET Request : r \in D /\ Deadlock(D)
    /\ Answer(r, VerdictOnError(r))
    /\ UNCHANGED <<banned, sessions, refresh_token_history, issued>>

\* An administrator sets or clears the flag (SetUserBanned).
SetUserBanned(u, flag) ==
    /\ banned' = IF flag THEN banned \union {u} ELSE banned \ {u}
    /\ req' = [r \in Request |->
          [req[r] EXCEPT !.shunned = IF flag THEN @ ELSE @ \ {u}]]
    /\ UNCHANGED <<sessions, refresh_token_history, issued>>

\* expires_at of the session passes.
Expire(s) ==
    /\ Exists(s) /\ ~ sessions[s].expired
    /\ sessions' = [sessions EXCEPT ![s].expired = TRUE]
    /\ UNCHANGED <<banned, refresh_token_history, issued, req>>

-----------------------------------------------------------------------------
Arrive(r) ==
    \/ \E u \in User, passwordMatches \in BOOLEAN :
          LoginLookup(r, u, passwordMatches)
    \/ \E t \in Presentable : RefreshSelect(r, t) \/ LogoutSelect(r, t)

Proceed(r) ==
    \/ \E s \in Session, t \in Token : Issue(r, s, t)
    \/ RefreshRecord(r)
    \/ RefreshRotate(r)
    \/ RefreshUser(r)
    \/ \E t \in Token : RefreshCommit(r, t)
    \/ RefreshFindUsed(r)
    \/ \E s \in Session : RevokeAllRow(r, s)
    \/ RefreshReuseCommit(r)
    \/ LogoutRevoke(r)
    \/ DeadlockVictim(r)

Environment ==
    \/ \E r \in Request : Fail(r)
    \/ \E u \in User, flag \in BOOLEAN : SetUserBanned(u, flag)
    \/ \E s \in Session : Expire(s)

Next == (\E r \in Request : Arrive(r) \/ Proceed(r)) \/ Environment

Spec == Init /\ [][Next]_vars

\* A request that has arrived is served: its goroutine runs, and the database
\* queues those who wait for a row, so that a lock that is free again and again
\* is granted.  Nothing is assumed of arrivals, faults or administrators.
FairSpec == Spec /\ \A r \in Request : SF_vars(Proceed(r))

-----------------------------------------------------------------------------
TypeOK ==
    /\ banned \in SUBSET User
    /\ sessions \in [Session -> SessionRow \union {NoRow}]
    /\ refresh_token_history \in SUBSET HistoryRow
    /\ issued \in SUBSET [token : Token, from : Token \union {NoToken},
                          session : Session]
    /\ req \in [Request -> RequestState]

-----------------------------------------------------------------------------
\* Safety.

\* The history is what reuse detection knows of the past: its rows are exactly
\* the tokens that were exchanged for another one, each with the session in
\* which that happened (RecordUsedRefreshHash commits with the rotation).
HistoryExact ==
    refresh_token_history =
        {[token_hash |-> HashRefreshToken(i.from), session_id |-> i.session] :
            i \in {j \in issued : j.from # NoToken}}

\* A token is the current one of at most one session, and never a token that
\* was already exchanged: otherwise Refresh would take a replay for a first use.
CurrentIsNeverUsed ==
    \A s \in Session : Exists(s) =>
        /\ sessions[s].refresh_token_hash \notin UsedHashes
        /\ \A other \in Session \ {s} :
              ~ HasHash(other, sessions[s].refresh_token_hash)

\* Revocation is for good, whatever refresh is under way when it commits: a
\* revoked session is never live again and no token is issued in it, which is
\* what "revoked_at IS NULL" in RotateSessionRefreshHash is for.
RevokedIsFinal ==
    [][\A s \in Session : Revoked(s) =>
          /\ Exists(s)' /\ sessions'[s].revoked
          /\ sessions'[s].refresh_token_hash = sessions[s].refresh_token_hash
          /\ \A i \in issued' \ issued : i.session # s]_vars

\* The user to whom the request of slot r would give tokens.
Subject(r) ==
    IF At(r, "issue") THEN req[r].user ELSE sessions[req[r].session].user_id

\* No request succeeds for a user who was banned when it arrived and has been
\* ever since (the checks in Login and after the rotation in Refresh).
BannedGetsNothing ==
    [][\A r \in Request :
          req[r].pc \in Waiting /\ req'[r].pc = "ok"
              => Subject(r) \notin req[r].shunned]_vars

\* The sessions of the owner of the replayed token that were there when the
\* replay arrived.
Endangered(r) ==
    {s \in req[r].before :
        \E i \in issued : /\ i.token = req[r].token
                         /\ sessions[i.session].user_id = sessions[s].user_id}

\* A replay that is committed leaves no session of the victim open that
\* existed when the replay arrived, however the rotations, logouts and
\* replays of other requests interleave with the rows it revokes.
ReuseRevokesSnapshot ==
    [][\A r \in Request :
          RefreshReuseCommit(r) => \A s \in Endangered(r) : Revoked(s)']_vars

\* A session is closed only by a request that presents a token of its own
\* user: one that was issued in that session (Logout) or in any session of the
\* user (a replay).
OnlyOwnTokensRevoke ==
    [][\A s \in Session :
          Exists(s) /\ ~ Revoked(s) /\ Revoked(s)' =>
            \E r \in Request, i \in issued :
                /\ req[r].pc \in Waiting /\ req'[r].pc \in Resting
                /\ i.token = req[r].token
                /\ sessions[i.session].user_id = sessions[s].user_id]_vars

\* Whoever is told "refresh token reuse detected; all sessions for this user
\* have been revoked" (auth_handlers.go) can rely on it.
ReuseRevokesAll ==
    [][\A r \in Request :
          req[r].pc \in Waiting /\ req'[r].pc = "reuse"
              => \A s \in Endangered(r) : Revoked(s)']_vars

\* Rotation on every use: a token is exchanged for another one at most once.
TokenExchangedOnce ==
    \A i, j \in issued :
        i.from = j.from /\ i.from # NoToken => i.token = j.token

\* What is left of it when refreshes overlap: a token is exchanged once per refresh
\* that found it current, and there were no more of these than can overlap, because
\* no later one finds it so.
ExchangesBounded ==
    \A t \in Token :
        Cardinality({i \in issued : i.from = t}) <= Cardinality(Request)

\* The sessions row holds the current token and every token before it is in the
\* history: no issued token is unknown to the server.
OutgoingHashRecorded ==
    \A i \in issued :
        \/ HashRefreshToken(i.token) \in UsedHashes
        \/ HasHash(i.session, HashRefreshToken(i.token))

\* The user whose sessions a replay revokes.
Victim(r) == sessions[req[r].session].user_id

\* There are two kinds of deadlock.  Replays of tokens of one user lock its
\* sessions in different orders.  Two refreshes of one session, with different
\* tokens, each hold the key lock of the insert that the other's rotation waits
\* for: this takes a token that the server issued and does not know any more,
\* which only overlapping exchanges leave behind.  No login or logout is ever the
\* victim, and no replay forms a cycle with a refresh, although each may wait for
\* the other.
DeadlocksAreOfTwoKinds ==
    \A D \in SUBSET Request : Deadlock(D) =>
        \/ \A q, r \in D : At(q, "revoke") /\ Victim(q) = Victim(r)
        \/ /\ \A q, r \in D : At(q, "rotate") /\ req[q].session = req[r].session
           /\ ~ OutgoingHashRecorded

\* Logout with a token of a session invalidates that session.
LogoutEndsSession ==
    [][\A r \in Request, i \in issued :
          LogoutSelect(r, i.token) /\ req'[r].pc = "no_content"
              => Revoked(i.session)]_vars

\* What the sessions table and the history say of families of tokens.
TokenOf(h) == CHOOSE t \in Token : h = HashRefreshToken(t)

SessionOwner ==
    [s \in Session |-> IF Exists(s) THEN sessions[s].user_id ELSE NoUser]

SessionFamily ==
    [s \in Session |-> {i.token : i \in {j \in issued : j.session = s}}]

CurrentToken ==
    [s \in Session |->
        IF Exists(s) THEN TokenOf(sessions[s].refresh_token_hash) ELSE NoToken]

SpentTokens == {t \in Token : HashRefreshToken(t) \in UsedHashes}

ClosedSessions == {s \in Session : Revoked(s)}

\* The tables implement families of tokens.  Exchanges overlap only if there is
\* more than one request slot.
Families ==
    INSTANCE TokenFamilies WITH
        Overlap <- \E q, r \in Request : q # r,
        owner <- SessionOwner,
        family <- SessionFamily,
        current <- CurrentToken,
        spent <- SpentTokens,
        closed <- ClosedSessions

ImplementsFamilies == Families!Spec

\* Liveness: every request that arrives is answered, whatever locks it meets.
Progress ==
    \A r \in Request : req[r].pc \in Waiting ~> req[r].pc \in Resting
=============================================================================
