--------------------------- MODULE SessionsProofs ---------------------------
(***************************************************************************)
(* Theorems about Sessions for every number of users, sessions, tokens and *)
(* concurrent requests.                                                    *)
(***************************************************************************)
EXTENDS Sessions, TLAPS

-----------------------------------------------------------------------------
\* The inductive invariant.

\* The request of r has found the session of the token it presented.
Found(r) == req[r].pc \in {"record", "rotate", "user", "commit", "logout"}

\* Where tokens come from: each was committed once, in an existing session,
\* in exchange for a token of the same session if for any.
TokensHaveOrigin ==
    /\ \A i, j \in issued : i.token = j.token => i = j
    /\ \A i \in issued : Exists(i.session)
    /\ \A i \in issued : i.from # NoToken =>
          \E j \in issued : j.token = i.from /\ j.session = i.session
    /\ \A s \in Session : Exists(s) =>
          \E i \in issued : i.session = s /\ HasHash(s, HashRefreshToken(i.token))

\* What a request in flight remembers is still true of the tables.
RequestSound(r) ==
    /\ At(r, "issue") => req[r].user \in User
    /\ Found(r) => \E i \in issued :
                      i.token = req[r].token /\ i.session = req[r].session
    /\ \A s \in req[r].todo \union req[r].revoking : Exists(s)

RequestsSound == \A r \in Request : RequestSound(r)

\* A session that is being rotated is not revoked, and nobody else is about to
\* commit its revocation: the row lock of the rotation excludes both.
RotationExcludesRevocation ==
    \A r \in Request, s \in Session : HoldsRotate(r, s) =>
        /\ ~ Revoked(s)
        /\ \A q \in Request \ {r} : s \notin req[q].revoking

\* Users shunned by a request are banned now, and a request that passed its
\* check is not about one of them.
BansRemembered ==
    \A r \in Request :
        /\ req[r].shunned \subseteq banned
        /\ req[r].pc \in {"issue", "commit"} => Subject(r) \notin req[r].shunned

Inv ==
    /\ TypeOK
    /\ TokensHaveOrigin
    /\ RequestsSound
    /\ HistoryExact
    /\ CurrentIsNeverUsed
    /\ RotationExcludesRevocation
    /\ BansRemembered

-----------------------------------------------------------------------------

\* Types of the values that the actions write.
LEMMA RestTyped ==
    ASSUME NEW verdict \in Resting
    PROVE  Rest(verdict) \in RequestState
  BY DEF Rest, RequestState

LEMMA BeginTyped ==
    ASSUME NEW r \in Request, NEW label \in Waiting, banned \in SUBSET User
    PROVE  Begin(r, label) \in RequestState
  BY DEF Begin, Rest, RequestState

LEMMA AnswerTyped ==
    ASSUME TypeOK, NEW r \in Request, NEW verdict \in Resting,
           Answer(r, verdict)
    PROVE  req' \in [Request -> RequestState]
  BY RestTyped DEF Answer, TypeOK

LEMMA GotoTyped ==
    ASSUME TypeOK, NEW r \in Request, NEW label \in Waiting, Goto(r, label)
    PROVE  req' \in [Request -> RequestState]
  BY DEF Goto, TypeOK, RequestState

LEMMA VerdictTyped ==
    ASSUME NEW r \in Request
    PROVE  VerdictOnError(r) \in Resting
  BY DEF VerdictOnError, Resting, Verdict

-----------------------------------------------------------------------------
LEMMA TypeInit == Init => TypeOK
  <1>1. "idle" \in Resting
    BY DEF Resting
  <1>2. QED
    BY <1>1, RestTyped DEF Init, TypeOK

\* What the actions leave of a request that they do not answer.
LEMMA RequestTyped ==
    ASSUME TypeOK, NEW r \in Request
    PROVE  /\ req[r] \in RequestState
           /\ req[r].token \in Token \union {NoToken}
           /\ req[r].session \in Session \union {NoSession}
           /\ req[r].user \in User \union {NoUser}
           /\ req[r].todo \in SUBSET Session
           /\ req[r].revoking \in SUBSET Session
           /\ req[r].before \in SUBSET Session
           /\ req[r].shunned \in SUBSET User
  BY DEF TypeOK, RequestState

LEMMA RowTyped ==
    ASSUME TypeOK, NEW s \in Session, Exists(s)
    PROVE  /\ sessions[s] \in SessionRow
           /\ sessions[s].user_id \in User
           /\ sessions[s].refresh_token_hash \in Hash
           /\ sessions[s].revoked \in BOOLEAN
           /\ sessions[s].expired \in BOOLEAN
  BY DEF TypeOK, Exists, SessionRow

\* The actions of one request slot.
LEMMA TypeArrive ==
    ASSUME TypeOK, NEW r \in Request, Arrive(r)
    PROVE  TypeOK'
  <1>1. {"invalid", "banned", "no_content"} \subseteq Resting
    BY DEF Resting, Verdict
  <1>2. ASSUME NEW u \in User, NEW passwordMatches \in BOOLEAN,
               LoginLookup(r, u, passwordMatches)
        PROVE  req' \in [Request -> RequestState]
    <2>1. [Begin(r, "issue") EXCEPT !.user = u] \in RequestState
      BY DEF Begin, Rest, RequestState, Waiting, TypeOK
    <2>2. QED
      BY <1>1, <1>2, <2>1, AnswerTyped DEF LoginLookup, TypeOK
  <1>3. ASSUME NEW t \in Presentable, RefreshSelect(r, t)
        PROVE  req' \in [Request -> RequestState]
    <2>1. t \in Token \union {NoToken}
      BY DEF Presentable, IssuedTokens, TypeOK
    <2>2. \A s \in Session :
            [Begin(r, "record") EXCEPT !.token = t, !.session = s] \in RequestState
      BY <2>1 DEF Begin, Rest, RequestState, Waiting, TypeOK
    <2>3. [Begin(r, "used") EXCEPT
             !.token = t, !.before = {s \in Session : Exists(s)}] \in RequestState
      BY <2>1 DEF Begin, Rest, RequestState, Waiting, TypeOK
    <2>4. QED
      BY <1>1, <1>3, <2>2, <2>3, AnswerTyped DEF RefreshSelect, TypeOK
  <1>4. ASSUME NEW t \in Presentable, LogoutSelect(r, t)
        PROVE  req' \in [Request -> RequestState]
    <2>1. t \in Token \union {NoToken}
      BY DEF Presentable, IssuedTokens, TypeOK
    <2>2. \A s \in Session :
            [Begin(r, "logout") EXCEPT !.token = t, !.session = s] \in RequestState
      BY <2>1 DEF Begin, Rest, RequestState, Waiting, TypeOK
    <2>3. QED
      BY <1>1, <1>4, <2>2, AnswerTyped DEF LogoutSelect, TypeOK
  <1>5. UNCHANGED <<banned, sessions, refresh_token_history, issued>>
    BY DEF Arrive, LoginLookup, RefreshSelect, LogoutSelect
  <1>6. req' \in [Request -> RequestState]
    BY <1>2, <1>3, <1>4 DEF Arrive
  <1>7. QED
    BY <1>5, <1>6 DEF TypeOK

LEMMA FoundExists ==
    ASSUME TypeOK, TokensHaveOrigin, NEW r \in Request, RequestSound(r), Found(r)
    PROVE  /\ req[r].token \in Token
           /\ req[r].session \in Session
           /\ Exists(req[r].session)
  BY DEF TypeOK, TokensHaveOrigin, RequestSound

LEMMA TypeProceed ==
    ASSUME TypeOK, TokensHaveOrigin, RequestsSound, NEW r \in Request, Proceed(r)
    PROVE  TypeOK'
  <1>1. {"ok", "invalid", "banned", "reuse", "no_content"} \subseteq Resting
    BY DEF Resting, Verdict
  <1> USE DEF RequestsSound
  <1>2. ASSUME NEW s \in Session, NEW t \in Token, Issue(r, s, t)
        PROVE  TypeOK'
    <2>1. [user_id |-> req[r].user, refresh_token_hash |-> HashRefreshToken(t),
           revoked |-> FALSE, expired |-> FALSE] \in SessionRow
      BY <1>2 DEF Issue, RequestSound, SessionRow, Hash
    <2>2. req' \in [Request -> RequestState]
      BY <1>1, <1>2, AnswerTyped DEF Issue
    <2>3. QED
      BY <1>2, <2>1, <2>2 DEF Issue, TypeOK
  <1>3. ASSUME RefreshRecord(r) PROVE TypeOK'
    BY <1>3, GotoTyped DEF RefreshRecord, Waiting, TypeOK
  <1>4. ASSUME RefreshRotate(r) PROVE TypeOK'
    BY <1>1, <1>4, AnswerTyped, GotoTyped DEF RefreshRotate, Waiting, TypeOK
  <1>5. ASSUME RefreshUser(r) PROVE TypeOK'
    BY <1>1, <1>5, AnswerTyped, GotoTyped DEF RefreshUser, Waiting, TypeOK
  <1>6. ASSUME NEW t \in Token, RefreshCommit(r, t)
        PROVE  TypeOK'
    <2>1. /\ req[r].token \in Token
          /\ req[r].session \in Session
          /\ Exists(req[r].session)
      BY <1>6, FoundExists DEF RefreshCommit, At, Found
    <2>2. Rotated(sessions[req[r].session], t) \in SessionRow
      BY <2>1, RowTyped DEF Rotated, SessionRow, Hash
    <2>3. Outgoing(r) \subseteq HistoryRow
      BY <2>1 DEF Outgoing, HistoryRow, Hash
    <2>4. req' \in [Request -> RequestState]
      BY <1>1, <1>6, AnswerTyped DEF RefreshCommit
    <2>5. QED
      BY <1>6, <2>1, <2>2, <2>3, <2>4 DEF RefreshCommit, TypeOK
  <1>7. ASSUME RefreshFindUsed(r) PROVE TypeOK'
    <2>1. ASSUME NEW row \in refresh_token_history
          PROVE  [req[r] EXCEPT
                    !.pc = "revoke", !.session = row.session_id,
                    !.todo = {s \in VictimsOf(row) : ~ sessions[s].revoked}]
                      \in RequestState
      <3>1. row.session_id \in Session
        BY DEF TypeOK, HistoryRow
      <3>2. {s \in VictimsOf(row) : ~ sessions[s].revoked} \in SUBSET Session
        BY DEF VictimsOf, SessionsOf
      <3>3. QED
        BY <3>1, <3>2, RequestTyped DEF RequestState, Waiting
    <2>2. req' \in [Request -> RequestState]
      BY <1>1, <1>7, <2>1, AnswerTyped DEF RefreshFindUsed, TypeOK
    <2>3. QED
      BY <1>7, <2>2 DEF RefreshFindUsed, TypeOK
  <1>8. ASSUME NEW s \in Session, RevokeAllRow(r, s) PROVE TypeOK'
    <2>1. [req[r] EXCEPT !.todo = @ \ {s},
             !.revoking = IF Revoked(s) THEN @ ELSE @ \union {s}] \in RequestState
      BY RequestTyped DEF RequestState
    <2>2. QED
      BY <1>8, <2>1 DEF RevokeAllRow, TypeOK
  <1>9. ASSUME RefreshReuseCommit(r) PROVE TypeOK'
    <2>1. \A s \in req[r].revoking :
            s \in Session => [sessions[s] EXCEPT !.revoked = TRUE] \in SessionRow
      BY RowTyped DEF RequestSound, SessionRow
    <2>2. req' \in [Request -> RequestState]
      BY <1>1, <1>9, AnswerTyped DEF RefreshReuseCommit
    <2>3. sessions' \in [Session -> SessionRow \union {NoRow}]
      BY <1>9, <2>1 DEF RefreshReuseCommit, TypeOK
    <2>4. QED
      BY <1>9, <2>2, <2>3 DEF RefreshReuseCommit, TypeOK
  <1>10. ASSUME LogoutRevoke(r) PROVE TypeOK'
    <2>1. req[r].session \in Session /\ Exists(req[r].session)
      BY <1>10, FoundExists DEF LogoutRevoke, At, Found
    <2>2. [sessions[req[r].session] EXCEPT !.revoked = TRUE] \in SessionRow
      BY <2>1, RowTyped DEF SessionRow
    <2>3. req' \in [Request -> RequestState]
      BY <1>1, <1>10, AnswerTyped DEF LogoutRevoke
    <2>4. QED
      BY <1>10, <2>1, <2>2, <2>3 DEF LogoutRevoke, TypeOK
  <1>11. ASSUME DeadlockVictim(r) PROVE TypeOK'
    BY <1>11, VerdictTyped, AnswerTyped DEF DeadlockVictim, TypeOK
  <1>12. QED
    BY <1>2, <1>3, <1>4, <1>5, <1>6, <1>7, <1>8, <1>9, <1>10, <1>11 DEF Proceed

LEMMA TypeEnvironment ==
    ASSUME TypeOK, Environment
    PROVE  TypeOK'
  <1>1. ASSUME NEW r \in Request, Fail(r) PROVE TypeOK'
    BY <1>1, VerdictTyped, AnswerTyped DEF Fail, TypeOK
  <1>2. ASSUME NEW u \in User, NEW flag \in BOOLEAN, SetUserBanned(u, flag)
        PROVE  TypeOK'
    <2>1. ASSUME NEW r \in Request
          PROVE  [req[r] EXCEPT !.shunned = IF flag THEN @ ELSE @ \ {u}]
                    \in RequestState
      BY RequestTyped DEF RequestState
    <2>2. QED
      BY <1>2, <2>1 DEF SetUserBanned, TypeOK
  <1>3. ASSUME NEW s \in Session, Expire(s) PROVE TypeOK'
    <2>1. [sessions[s] EXCEPT !.expired = TRUE] \in SessionRow
      BY <1>3, RowTyped DEF Expire, SessionRow
    <2>2. QED
      BY <1>3, <2>1 DEF Expire, TypeOK
  <1>4. QED
    BY <1>1, <1>2, <1>3 DEF Environment

LEMMA TypeNext ==
    ASSUME TypeOK, TokensHaveOrigin, RequestsSound, [Next]_vars
    PROVE  TypeOK'
  <1>1. CASE UNCHANGED vars
    BY <1>1 DEF vars, TypeOK
  <1>2. QED
    BY <1>1, TypeArrive, TypeProceed, TypeEnvironment DEF Next

-----------------------------------------------------------------------------
\* Which steps change the tables, and what they keep.

TablesUnchanged == UNCHANGED <<sessions, refresh_token_history, issued>>

\* The steps that change a row of sessions but no token in it.
Touches ==
    \/ \E r \in Request : RefreshReuseCommit(r) \/ LogoutRevoke(r)
    \/ \E s \in Session : Expire(s)

LEMMA TableSteps ==
    ASSUME [Next]_vars
    PROVE  \/ TablesUnchanged
           \/ \E r \in Request, s \in Session, t \in Token : Issue(r, s, t)
           \/ \E r \in Request, t \in Token : RefreshCommit(r, t)
           \/ Touches
  BY DEF Next, vars, TablesUnchanged, Touches, Arrive, Proceed, Environment,
         LoginLookup, RefreshSelect, LogoutSelect, RefreshRecord, RefreshRotate,
         RefreshUser, RefreshFindUsed, RevokeAllRow, DeadlockVictim, Fail,
         SetUserBanned

LEMMA HashInjective ==
    ASSUME NEW t, NEW u, HashRefreshToken(t) = HashRefreshToken(u)
    PROVE  t = u
  <1>1. HashRefreshToken(t).sha256 = HashRefreshToken(u).sha256
    OBVIOUS
  <1>2. QED
    BY <1>1 DEF HashRefreshToken

\* Touching a row keeps its user and its token, and keeps absent rows absent.
LEMMA TouchKeeps ==
    ASSUME TypeOK, TokensHaveOrigin, RequestsSound, Touches
    PROVE  /\ UNCHANGED <<refresh_token_history, issued>>
           /\ \A s \in Session :
                /\ Exists(s)' <=> Exists(s)
                /\ Exists(s) =>
                     /\ sessions'[s].user_id = sessions[s].user_id
                     /\ sessions'[s].refresh_token_hash
                          = sessions[s].refresh_token_hash
                     /\ sessions[s].revoked => sessions'[s].revoked
  <1>1. ASSUME NEW s \in Session, NEW row \in SessionRow
        PROVE  row # NoRow
    BY NoRowIsNoRow
  <1>2. ASSUME NEW r \in Request, RefreshReuseCommit(r)
        PROVE  \A s \in Session :
                 /\ Exists(s)' <=> Exists(s)
                 /\ Exists(s) =>
                      /\ sessions'[s].user_id = sessions[s].user_id
                      /\ sessions'[s].refresh_token_hash
                           = sessions[s].refresh_token_hash
                      /\ sessions[s].revoked => sessions'[s].revoked
    <2> TAKE s \in Session
    <2>1. CASE s \in req[r].revoking
      <3>1. Exists(s)
        BY <2>1 DEF RequestsSound, RequestSound
      <3>2. sessions[s] \in SessionRow
        BY <3>1, RowTyped
      <3>3. /\ sessions'[s] = [sessions[s] EXCEPT !.revoked = TRUE]
            /\ sessions'[s] \in SessionRow
        BY <1>2, <2>1, <3>2 DEF RefreshReuseCommit, SessionRow
      <3>4. QED
        BY <3>1, <3>2, <3>3, <1>1 DEF Exists, SessionRow
    <2>2. CASE s \notin req[r].revoking
      BY <1>2, <2>2 DEF RefreshReuseCommit, Exists
    <2>3. QED
      BY <2>1, <2>2
  <1>3. ASSUME NEW r \in Request, LogoutRevoke(r)
        PROVE  \A s \in Session :
                 /\ Exists(s)' <=> Exists(s)
                 /\ Exists(s) =>
                      /\ sessions'[s].user_id = sessions[s].user_id
                      /\ sessions'[s].refresh_token_hash
                           = sessions[s].refresh_token_hash
                      /\ sessions[s].revoked => sessions'[s].revoked
    <2>1. req[r].session \in Session /\ Exists(req[r].session)
      BY <1>3, FoundExists DEF LogoutRevoke, At, Found, RequestsSound
    <2>2. sessions[req[r].session] \in SessionRow
      BY <2>1, RowTyped
    <2>3. [sessions[req[r].session] EXCEPT !.revoked = TRUE] \in SessionRow
      BY <2>2 DEF SessionRow
    <2>4. QED
      BY <1>1, <1>3, <2>1, <2>2, <2>3 DEF LogoutRevoke, Exists, SessionRow, TypeOK
  <1>4. ASSUME NEW e \in Session, Expire(e)
        PROVE  \A s \in Session :
                 /\ Exists(s)' <=> Exists(s)
                 /\ Exists(s) =>
                      /\ sessions'[s].user_id = sessions[s].user_id
                      /\ sessions'[s].refresh_token_hash
                           = sessions[s].refresh_token_hash
                      /\ sessions[s].revoked => sessions'[s].revoked
    <2>1. sessions[e] \in SessionRow
      BY <1>4, RowTyped DEF Expire
    <2>2. [sessions[e] EXCEPT !.expired = TRUE] \in SessionRow
      BY <2>1 DEF SessionRow
    <2>3. QED
      BY <1>1, <1>4, <2>1, <2>2 DEF Expire, Exists, SessionRow, TypeOK
  <1>5. UNCHANGED <<refresh_token_history, issued>>
    BY DEF Touches, RefreshReuseCommit, LogoutRevoke, Expire
  <1>6. QED
    BY <1>2, <1>3, <1>4, <1>5 DEF Touches

\* The rows that Issue and RefreshCommit write.
LEMMA IssueWrites ==
    ASSUME TypeOK, RequestsSound, NEW r \in Request, NEW s \in Session,
           NEW t \in Token, Issue(r, s, t)
    PROVE  /\ ~ Exists(s)
           /\ Exists(s)'
           /\ sessions'[s].user_id = req[r].user
           /\ sessions'[s].refresh_token_hash = HashRefreshToken(t)
           /\ sessions'[s].revoked = FALSE
           /\ \A other \in Session \ {s} : sessions'[other] = sessions[other]
  <1>1. [user_id |-> req[r].user, refresh_token_hash |-> HashRefreshToken(t),
         revoked |-> FALSE, expired |-> FALSE] \in SessionRow
    BY DEF Issue, RequestsSound, RequestSound, SessionRow, Hash
  <1>2. QED
    BY <1>1, NoRowIsNoRow DEF Issue, Exists, TypeOK

LEMMA CommitWrites ==
    ASSUME TypeOK, TokensHaveOrigin, RequestsSound, NEW r \in Request,
           NEW t \in Token, RefreshCommit(r, t)
    PROVE  /\ Exists(req[r].session)
           /\ sessions'[req[r].session] # NoRow
           /\ sessions'[req[r].session].user_id = sessions[req[r].session].user_id
           /\ sessions'[req[r].session].refresh_token_hash = HashRefreshToken(t)
           /\ sessions'[req[r].session].revoked = sessions[req[r].session].revoked
           /\ \A other \in Session \ {req[r].session} :
                 sessions'[other] = sessions[other]
           /\ req[r].token \in Token
           /\ req[r].session \in Session
           /\ \E i \in issued : i.token = req[r].token /\ i.session = req[r].session
  <1>1. Found(r)
    BY DEF RefreshCommit, At, Found
  <1>2. /\ req[r].token \in Token
        /\ req[r].session \in Session
        /\ Exists(req[r].session)
    BY <1>1, FoundExists DEF RequestsSound
  <1>3. sessions[req[r].session] \in SessionRow
    BY <1>2, RowTyped
  <1>4. Rotated(sessions[req[r].session], t) \in SessionRow
    BY <1>3 DEF Rotated, SessionRow, Hash
  <1>5. sessions'[req[r].session] = Rotated(sessions[req[r].session], t)
    BY <1>2 DEF RefreshCommit, TypeOK
  <1>6. /\ sessions'[req[r].session].user_id = sessions[req[r].session].user_id
        /\ sessions'[req[r].session].refresh_token_hash = HashRefreshToken(t)
        /\ sessions'[req[r].session].revoked = sessions[req[r].session].revoked
    BY <1>3, <1>5 DEF Rotated, SessionRow
  <1>7. sessions'[req[r].session] # NoRow
    BY <1>4, <1>5, NoRowIsNoRow
  <1>8. QED
    BY <1>1, <1>2, <1>6, <1>7 DEF RefreshCommit, TypeOK, RequestsSound, RequestSound

-----------------------------------------------------------------------------
LEMMA OriginNext ==
    ASSUME TypeOK, TokensHaveOrigin, RequestsSound, [Next]_vars
    PROVE  TokensHaveOrigin'
  <1>1. CASE TablesUnchanged
    BY <1>1 DEF TablesUnchanged, TokensHaveOrigin, Exists, HasHash
  <1>2. ASSUME NEW r \in Request, NEW s \in Session, NEW t \in Token,
               Issue(r, s, t)
        PROVE  TokensHaveOrigin'
    <2> DEFINE new == [token |-> t, from |-> NoToken, session |-> s]
    <2>1. issued' = issued \union {new} /\ t \notin IssuedTokens
      BY <1>2 DEF Issue
    <2>2. \A x \in Session : Exists(x) => Exists(x)'
      BY <1>2, IssueWrites DEF Exists
    <2>3. \A i, j \in issued' : i.token = j.token => i = j
      BY <2>1 DEF TokensHaveOrigin, IssuedTokens
    <2>4. \A i \in issued' : Exists(i.session)'
      <3>1. Exists(s)'
        BY <1>2, IssueWrites
      <3>2. \A i \in issued : i.session \in Session /\ Exists(i.session)
        BY DEF TokensHaveOrigin, TypeOK
      <3>3. QED
        BY <2>1, <2>2, <3>1, <3>2
    <2>5. \A i \in issued' : i.from # NoToken =>
            \E j \in issued' : j.token = i.from /\ j.session = i.session
      BY <2>1 DEF TokensHaveOrigin
    <2>6. \A x \in Session : Exists(x)' =>
            \E i \in issued' : i.session = x /\ HasHash(x, HashRefreshToken(i.token))'
      <3> TAKE x \in Session
      <3>1. CASE x = s
        <4>1. new \in issued' /\ new.session = x /\ new.token = t
          BY <2>1, <3>1
        <4>2. HasHash(x, HashRefreshToken(t))'
          BY <1>2, <3>1, IssueWrites DEF HasHash
        <4>3. QED
          BY <4>1, <4>2
      <3>2. CASE x # s
        <4>1. sessions'[x] = sessions[x]
          BY <1>2, <3>2, IssueWrites
        <4>2. QED
          BY <2>1, <4>1 DEF TokensHaveOrigin, Exists, HasHash
      <3>3. QED
        BY <3>1, <3>2
    <2>7. QED
      BY <2>3, <2>4, <2>5, <2>6 DEF TokensHaveOrigin
  <1>3. ASSUME NEW r \in Request, NEW t \in Token, RefreshCommit(r, t)
        PROVE  TokensHaveOrigin'
    <2> DEFINE s == req[r].session
               new == [token |-> t, from |-> req[r].token, session |-> s]
    <2>1. issued' = issued \union {new} /\ t \notin IssuedTokens
      BY <1>3 DEF RefreshCommit
    <2>2. \A x \in Session : Exists(x)' <=> Exists(x)
      BY <1>3, CommitWrites DEF Exists
    <2>3. \A i, j \in issued' : i.token = j.token => i = j
      BY <2>1 DEF TokensHaveOrigin, IssuedTokens
    <2>4. \A i \in issued' : Exists(i.session)'
      <3>1. s \in Session /\ Exists(s)
        BY <1>3, CommitWrites
      <3>2. \A i \in issued : i.session \in Session /\ Exists(i.session)
        BY DEF TokensHaveOrigin, TypeOK
      <3>3. QED
        BY <2>1, <2>2, <3>1, <3>2
    <2>5. \A i \in issued' : i.from # NoToken =>
            \E j \in issued' : j.token = i.from /\ j.session = i.session
      <3>1. \E j \in issued : j.token = new.from /\ j.session = new.session
        BY <1>3, CommitWrites
      <3>2. QED
        BY <2>1, <3>1 DEF TokensHaveOrigin
    <2>6. \A x \in Session : Exists(x)' =>
            \E i \in issued' : i.session = x /\ HasHash(x, HashRefreshToken(i.token))'
      <3> TAKE x \in Session
      <3>1. CASE x = s
        <4>1. new \in issued' /\ new.session = x /\ new.token = t
          BY <2>1, <3>1
        <4>2. HasHash(x, HashRefreshToken(t))'
          BY <1>3, <3>1, CommitWrites DEF HasHash, Exists
        <4>3. QED
          BY <4>1, <4>2
      <3>2. CASE x # s
        <4>1. sessions'[x] = sessions[x]
          BY <1>3, <3>2, CommitWrites
        <4>2. QED
          BY <2>1, <4>1 DEF TokensHaveOrigin, Exists, HasHash
      <3>3. QED
        BY <3>1, <3>2
    <2>7. QED
      BY <2>3, <2>4, <2>5, <2>6 DEF TokensHaveOrigin
  <1>4. CASE Touches
    BY <1>4, TouchKeeps DEF TokensHaveOrigin, HasHash, TypeOK
  <1>5. QED
    BY <1>1, <1>2, <1>3, <1>4, TableSteps

-----------------------------------------------------------------------------
\* Rows and tokens stay, so what a request found stays found.
LEMMA Persistence ==
    ASSUME TypeOK, TokensHaveOrigin, RequestsSound, [Next]_vars
    PROVE  /\ issued \subseteq issued'
           /\ \A s \in Session : Exists(s) =>
                 Exists(s)' /\ sessions'[s].user_id = sessions[s].user_id
  <1>1. CASE TablesUnchanged
    BY <1>1 DEF TablesUnchanged, Exists
  <1>2. ASSUME NEW r \in Request, NEW s \in Session, NEW t \in Token,
               Issue(r, s, t)
        PROVE  /\ issued \subseteq issued'
               /\ \A x \in Session : Exists(x) =>
                     Exists(x)' /\ sessions'[x].user_id = sessions[x].user_id
    BY <1>2, IssueWrites DEF Issue, Exists
  <1>3. ASSUME NEW r \in Request, NEW t \in Token, RefreshCommit(r, t)
        PROVE  /\ issued \subseteq issued'
               /\ \A x \in Session : Exists(x) =>
                     Exists(x)' /\ sessions'[x].user_id = sessions[x].user_id
    BY <1>3, CommitWrites DEF RefreshCommit, Exists
  <1>4. CASE Touches
    BY <1>4, TouchKeeps
  <1>5. QED
    BY <1>1, <1>2, <1>3, <1>4, TableSteps

LEMMA OthersKeep ==
    ASSUME TypeOK, NEW r \in Request, Arrive(r) \/ Proceed(r) \/ Fail(r),
           NEW q \in Request \ {r}
    PROVE  req'[q] = req[q]
  BY DEF TypeOK, Arrive, Proceed, Fail, Answer, Goto, LoginLookup, RefreshSelect,
         LogoutSelect, Issue, RefreshRecord, RefreshRotate, RefreshUser,
         RefreshCommit, RefreshFindUsed, RevokeAllRow, RefreshReuseCommit,
         LogoutRevoke, DeadlockVictim

\* How the step of a slot changes the slot itself.
Rests(r) == \E verdict \in Resting : req'[r] = Rest(verdict)

LEMMA ArriveMoves ==
    ASSUME TypeOK, NEW r \in Request, Arrive(r)
    PROVE  \/ Rests(r)
           \/ \E u \in User \ banned :
                 req'[r] = [Begin(r, "issue") EXCEPT !.user = u]
           \/ \E t \in Presentable, s \in Session, label \in {"record", "logout"} :
                 /\ HasHash(s, HashRefreshToken(t))
                 /\ label = "record" => ~ sessions[s].revoked
                 /\ req'[r] = [Begin(r, label) EXCEPT !.token = t, !.session = s]
           \/ \E t \in Presentable :
                 req'[r] = [Begin(r, "used") EXCEPT
                              !.token = t, !.before = {s \in Session : Exists(s)}]
  <1>1. {"invalid", "banned", "no_content"} \subseteq Resting
    BY DEF Resting, Verdict
  <1>2. ASSUME NEW u \in User, NEW passwordMatches \in BOOLEAN,
               LoginLookup(r, u, passwordMatches)
        PROVE  \/ Rests(r)
               \/ /\ u \notin banned
                  /\ req'[r] = [Begin(r, "issue") EXCEPT !.user = u]
    BY <1>1, <1>2 DEF LoginLookup, Answer, Rests, TypeOK
  <1>3. ASSUME NEW t \in Presentable, RefreshSelect(r, t)
        PROVE  \/ Rests(r)
               \/ \E s \in Session :
                     /\ HasHash(s, HashRefreshToken(t))
                     /\ ~ sessions[s].revoked
                     /\ req'[r] = [Begin(r, "record") EXCEPT
                                     !.token = t, !.session = s]
               \/ req'[r] = [Begin(r, "used") EXCEPT
                               !.token = t, !.before = {s \in Session : Exists(s)}]
    BY <1>1, <1>3 DEF RefreshSelect, Answer, Rests, TypeOK
  <1>4. ASSUME NEW t \in Presentable, LogoutSelect(r, t)
        PROVE  \/ Rests(r)
               \/ \E s \in Session :
                     /\ HasHash(s, HashRefreshToken(t))
                     /\ req'[r] = [Begin(r, "logout") EXCEPT
                                     !.token = t, !.session = s]
    BY <1>1, <1>4 DEF LogoutSelect, Answer, Rests, TypeOK
  <1>5. QED
    BY <1>2, <1>3, <1>4 DEF Arrive

LEMMA ProceedMoves ==
    ASSUME TypeOK, NEW r \in Request, Proceed(r) \/ Fail(r)
    PROVE  \/ Rests(r)
           \/ /\ RefreshRecord(r)
              /\ At(r, "record")
              /\ req'[r] = [req[r] EXCEPT !.pc = "rotate"]
           \/ /\ RefreshRotate(r)
              /\ At(r, "rotate")
              /\ Blockers(r) = {}
              /\ ~ Revoked(req[r].session)
              /\ req'[r] = [req[r] EXCEPT !.pc = "user"]
           \/ /\ RefreshUser(r)
              /\ At(r, "user")
              /\ sessions[req[r].session].user_id \notin banned
              /\ req'[r] = [req[r] EXCEPT !.pc = "commit"]
           \/ RefreshFindUsed(r) /\ At(r, "used") /\ \E row \in refresh_token_history :
                 req'[r] = [req[r] EXCEPT
                    !.pc = "revoke", !.session = row.session_id,
                    !.todo = {s \in VictimsOf(row) : ~ sessions[s].revoked}]
           \/ \E s \in Session :
                 /\ At(r, "revoke")
                 /\ s \in req[r].todo
                 /\ RowBlockers(r, s) = {}
                 /\ UNCHANGED sessions
                 /\ req'[r] = [req[r] EXCEPT
                       !.todo = @ \ {s},
                       !.revoking = IF Revoked(s) THEN @ ELSE @ \union {s}]
  <1>1. {"ok", "invalid", "banned", "reuse", "no_content"} \subseteq Resting
    BY DEF Resting, Verdict
  <1>2. ASSUME \/ \E s \in Session, t \in Token : Issue(r, s, t)
               \/ \E t \in Token : RefreshCommit(r, t)
               \/ RefreshReuseCommit(r)
               \/ LogoutRevoke(r)
               \/ DeadlockVictim(r)
               \/ Fail(r)
        PROVE  Rests(r)
    BY <1>1, <1>2, VerdictTyped DEF Issue, RefreshCommit, RefreshReuseCommit,
       LogoutRevoke, DeadlockVictim, Fail, Answer, Rests, TypeOK
  <1>3. CASE RefreshRecord(r)
    BY <1>3 DEF RefreshRecord, Goto, TypeOK
  <1>4. CASE RefreshRotate(r)
    BY <1>1, <1>4 DEF RefreshRotate, Goto, Answer, Rests, TypeOK
  <1>5. CASE RefreshUser(r)
    BY <1>1, <1>5 DEF RefreshUser, Goto, Answer, Rests, TypeOK
  <1>6. CASE RefreshFindUsed(r)
    BY <1>1, <1>6 DEF RefreshFindUsed, Answer, Rests, TypeOK
  <1>7. ASSUME NEW s \in Session, RevokeAllRow(r, s)
        PROVE  /\ At(r, "revoke")
               /\ s \in req[r].todo
               /\ RowBlockers(r, s) = {}
               /\ UNCHANGED sessions
               /\ req'[r] = [req[r] EXCEPT
                     !.todo = @ \ {s},
                     !.revoking = IF Revoked(s) THEN @ ELSE @ \union {s}]
    BY <1>7 DEF RevokeAllRow, TypeOK
  <1>8. QED
    BY <1>2, <1>3, <1>4, <1>5, <1>6, <1>7 DEF Proceed

\* The slots that a step does not serve keep all but their ghost.
LEMMA SlotSteps ==
    ASSUME TypeOK, [Next]_vars, NEW q \in Request
    PROVE  \/ Arrive(q)
           \/ Proceed(q) \/ Fail(q)
           \/ /\ req'[q] = [req[q] EXCEPT !.shunned = req'[q].shunned]
              /\ req'[q].shunned \subseteq req[q].shunned
  <1>1. req[q] = [req[q] EXCEPT !.shunned = req[q].shunned]
    BY DEF TypeOK, RequestState
  <1>2. ASSUME NEW r \in Request, Arrive(r) \/ Proceed(r) \/ Fail(r), r # q
        PROVE  req'[q] = req[q]
    BY <1>2, OthersKeep
  <1>3. ASSUME NEW u \in User, NEW flag \in BOOLEAN, SetUserBanned(u, flag)
        PROVE  /\ req'[q] = [req[q] EXCEPT !.shunned = req'[q].shunned]
               /\ req'[q].shunned \subseteq req[q].shunned
    <2>1. req'[q] = [req[q] EXCEPT !.shunned = IF flag THEN @ ELSE @ \ {u}]
      BY <1>3 DEF SetUserBanned
    <2>2. req'[q].shunned = IF flag THEN req[q].shunned ELSE req[q].shunned \ {u}
      BY <2>1 DEF TypeOK, RequestState
    <2>3. QED
      BY <2>1, <2>2
  <1>4. CASE UNCHANGED req
    BY <1>1, <1>4
  <1>5. QED
    BY <1>1, <1>2, <1>3, <1>4 DEF Next, Environment, Expire, vars

-----------------------------------------------------------------------------
\* A resting slot remembers nothing.
LEMMA RestFields ==
    ASSUME NEW r \in Request, Rests(r)
    PROVE  /\ req'[r].pc \in Resting
           /\ req'[r].todo = {}
           /\ req'[r].revoking = {}
           /\ req'[r].shunned = {}
  BY DEF Rests, Rest

LEMMA RestingIsNotWaiting == Resting \intersect Waiting = {}
  BY DEF Resting, Verdict, Waiting

LEMMA RequestNext ==
    ASSUME TypeOK, TokensHaveOrigin, RequestsSound, [Next]_vars
    PROVE  RequestsSound'
  <1> SUFFICES ASSUME NEW r \in Request PROVE RequestSound(r)'
    BY DEF RequestsSound
  <1>p. /\ issued \subseteq issued'
        /\ \A s \in Session : Exists(s) => Exists(s)'
    BY Persistence
  <1>r. RequestSound(r)
    BY DEF RequestsSound
  <1>t. /\ req[r] \in RequestState
        /\ req[r].todo \in SUBSET Session
        /\ req[r].revoking \in SUBSET Session
    BY RequestTyped
  <1>1. CASE Rests(r)
    <2>1. req'[r].pc \notin Waiting
      BY <1>1, RestFields, RestingIsNotWaiting
    <2>2. QED
      BY <1>1, <2>1, RestFields DEF RequestSound, At, Found, Waiting
  <1>2. ASSUME NEW u \in User,
               req'[r] = [Begin(r, "issue") EXCEPT !.user = u]
        PROVE  RequestSound(r)'
    BY <1>2 DEF RequestSound, At, Found, Begin, Rest
  <1>3. ASSUME NEW t \in Presentable, NEW s \in Session,
               NEW label \in {"record", "logout"},
               HasHash(s, HashRefreshToken(t)),
               req'[r] = [Begin(r, label) EXCEPT !.token = t, !.session = s]
        PROVE  RequestSound(r)'
    <2>1. PICK i \in issued : i.session = s /\ HasHash(s, HashRefreshToken(i.token))
      BY <1>3 DEF TokensHaveOrigin, HasHash
    <2>2. i.token = t
      BY <1>3, <2>1, HashInjective DEF HasHash
    <2>3. /\ req'[r].token = t /\ req'[r].session = s /\ req'[r].pc = label
          /\ req'[r].todo = {} /\ req'[r].revoking = {}
      BY <1>3 DEF Begin, Rest
    <2>4. QED
      BY <1>p, <2>1, <2>2, <2>3 DEF RequestSound, At, Found
  <1>4. ASSUME NEW t \in Presentable,
               req'[r] = [Begin(r, "used") EXCEPT
                            !.token = t, !.before = {s \in Session : Exists(s)}]
        PROVE  RequestSound(r)'
    BY <1>4 DEF RequestSound, At, Found, Begin, Rest
  <1>5. ASSUME NEW from \in {"record", "rotate", "user"},
               NEW label \in {"rotate", "user", "commit"},
               At(r, from), req'[r] = [req[r] EXCEPT !.pc = label]
        PROVE  RequestSound(r)'
    <2>1. /\ req'[r].pc = label
          /\ req'[r].token = req[r].token
          /\ req'[r].session = req[r].session
          /\ req'[r].todo = req[r].todo
          /\ req'[r].revoking = req[r].revoking
      BY <1>5, <1>t DEF RequestState
    <2>2. Found(r)
      BY <1>5 DEF At, Found
    <2>3. QED
      BY <1>p, <1>r, <1>t, <2>1, <2>2 DEF RequestSound, At, Found
  <1>6. ASSUME NEW row \in refresh_token_history,
               req'[r] = [req[r] EXCEPT
                  !.pc = "revoke", !.session = row.session_id,
                  !.todo = {s \in VictimsOf(row) : ~ sessions[s].revoked}]
        PROVE  RequestSound(r)'
    <2>1. /\ req'[r].pc = "revoke"
          /\ req'[r].todo \subseteq VictimsOf(row)
          /\ req'[r].revoking = req[r].revoking
      BY <1>6, <1>t DEF RequestState
    <2>2. \A s \in VictimsOf(row) : s \in Session /\ Exists(s)
      BY DEF VictimsOf, SessionsOf
    <2>3. QED
      BY <1>p, <1>r, <1>t, <2>1, <2>2 DEF RequestSound, At, Found
  <1>7. ASSUME NEW s \in Session, At(r, "revoke"), s \in req[r].todo,
               req'[r] = [req[r] EXCEPT
                     !.todo = @ \ {s},
                     !.revoking = IF Revoked(s) THEN @ ELSE @ \union {s}]
        PROVE  RequestSound(r)'
    <2>1. /\ req'[r].pc = "revoke"
          /\ req'[r].todo \subseteq req[r].todo
          /\ req'[r].revoking \subseteq req[r].revoking \union {s}
      BY <1>7, <1>t DEF RequestState, At
    <2>2. QED
      BY <1>p, <1>r, <1>t, <1>7, <2>1 DEF RequestSound, At, Found
  <1>8. ASSUME req'[r] = [req[r] EXCEPT !.shunned = req'[r].shunned]
        PROVE  RequestSound(r)'
    <2>1. /\ req'[r].pc = req[r].pc
          /\ req'[r].token = req[r].token
          /\ req'[r].session = req[r].session
          /\ req'[r].user = req[r].user
          /\ req'[r].todo = req[r].todo
          /\ req'[r].revoking = req[r].revoking
      BY <1>8, <1>t DEF RequestState
    <2>2. QED
      BY <1>p, <1>r, <1>t, <2>1 DEF RequestSound, At, Found
  <1>9. CASE Arrive(r)
    BY <1>1, <1>2, <1>3, <1>4, <1>9, ArriveMoves
  <1>10. CASE Proceed(r) \/ Fail(r)
    BY <1>1, <1>5, <1>6, <1>7, <1>10, ProceedMoves
  <1>11. QED
    BY <1>8, <1>9, <1>10, SlotSteps

-----------------------------------------------------------------------------
LEMMA UsedAreIssued ==
    ASSUME TokensHaveOrigin, HistoryExact, NEW h \in UsedHashes
    PROVE  \E i \in issued : h = HashRefreshToken(i.token)
  BY DEF TokensHaveOrigin, HistoryExact, UsedHashes

\* The history grows by the exchange that a commit makes, and only by it: an
\* insert that found the row already there added nothing because the earlier
\* exchange of the same token was in the same session.
LEMMA HistoryNext ==
    ASSUME TypeOK, TokensHaveOrigin, RequestsSound, HistoryExact, [Next]_vars
    PROVE  HistoryExact'
  <1>1. CASE TablesUnchanged
    BY <1>1 DEF TablesUnchanged, HistoryExact
  <1>2. ASSUME NEW r \in Request, NEW s \in Session, NEW t \in Token,
               Issue(r, s, t)
        PROVE  HistoryExact'
    BY <1>2 DEF Issue, HistoryExact
  <1>3. ASSUME NEW r \in Request, NEW t \in Token, RefreshCommit(r, t)
        PROVE  HistoryExact'
    <2> DEFINE p == req[r].token
               s == req[r].session
               new == [token |-> t, from |-> p, session |-> s]
               row == [token_hash |-> HashRefreshToken(p), session_id |-> s]
    <2>1. /\ p \in Token /\ p # NoToken
          /\ \E i \in issued : i.token = p /\ i.session = s
      BY <1>3, CommitWrites, NoTokenIsNoToken
    <2>2. /\ issued' = issued \union {new}
          /\ refresh_token_history' = refresh_token_history \union Outgoing(r)
      BY <1>3 DEF RefreshCommit
    <2>3. refresh_token_history' = refresh_token_history \union {row}
      <3>1. CASE HashRefreshToken(p) \notin UsedHashes
        <4>1. Outgoing(r) = {row}
          BY <3>1 DEF Outgoing
        <4>2. QED
          BY <2>2, <4>1
      <3>2. CASE HashRefreshToken(p) \in UsedHashes
        <4>1. Outgoing(r) = {}
          BY <3>2 DEF Outgoing
        <4>2. PICK j \in issued :
                /\ j.from # NoToken
                /\ HashRefreshToken(j.from) = HashRefreshToken(p)
                /\ [token_hash |-> HashRefreshToken(j.from), session_id |-> j.session]
                      \in refresh_token_history
          BY <3>2 DEF UsedHashes, HistoryExact
        <4>3. j.from = p
          BY <4>2, HashInjective
        <4>4. PICK k \in issued : k.token = p /\ k.session = j.session
          BY <4>2, <4>3 DEF TokensHaveOrigin
        <4>5. j.session = s
          BY <2>1, <4>4 DEF TokensHaveOrigin
        <4>6. QED
          BY <2>2, <4>1, <4>2, <4>5
      <3>3. QED
        BY <3>1, <3>2
    <2>4. {j \in issued' : j.from # NoToken}
            = {j \in issued : j.from # NoToken} \union {new}
      BY <2>1, <2>2
    <2> DEFINE rowOf(i) ==
                 [token_hash |-> HashRefreshToken(i.from), session_id |-> i.session]
               before == {j \in issued : j.from # NoToken}
    <2>5. row = rowOf(new)
      OBVIOUS
    <2>6. refresh_token_history = {rowOf(i) : i \in before}
      BY DEF HistoryExact
    <2> HIDE DEF new, row, before, rowOf
    <2>7. {rowOf(i) : i \in before \union {new}} = {rowOf(i) : i \in before} \union {row}
      BY <2>5
    <2>8. refresh_token_history' = {rowOf(i) : i \in {j \in issued' : j.from # NoToken}}
      BY <2>3, <2>4, <2>6, <2>7 DEF before
    <2>9. QED
      BY <2>8 DEF HistoryExact, rowOf
  <1>4. CASE Touches
    BY <1>4, TouchKeeps DEF HistoryExact
  <1>5. QED
    BY <1>1, <1>2, <1>3, <1>4, TableSteps

LEMMA CurrentNext ==
    ASSUME TypeOK, TokensHaveOrigin, RequestsSound, HistoryExact,
           CurrentIsNeverUsed, [Next]_vars
    PROVE  CurrentIsNeverUsed'
  <1>o. \A s \in Session : Exists(s) => \E i \in issued :
            i.session = s /\ sessions[s].refresh_token_hash = HashRefreshToken(i.token)
    BY DEF TokensHaveOrigin, HasHash
  <1>1. CASE TablesUnchanged
    BY <1>1 DEF TablesUnchanged, CurrentIsNeverUsed, Exists, HasHash, UsedHashes
  <1>2. ASSUME NEW r \in Request, NEW s \in Session, NEW t \in Token,
               Issue(r, s, t)
        PROVE  CurrentIsNeverUsed'
    <2>1. /\ t \notin IssuedTokens
          /\ UsedHashes' = UsedHashes
      BY <1>2 DEF Issue, UsedHashes
    <2>2. \A i \in issued : HashRefreshToken(i.token) # HashRefreshToken(t)
      BY <2>1, HashInjective DEF IssuedTokens
    <2>3. HashRefreshToken(t) \notin UsedHashes
      BY <2>2, UsedAreIssued
    <2>4. \A x \in Session : Exists(x) =>
            sessions[x].refresh_token_hash # HashRefreshToken(t)
      BY <1>o, <2>2
    <2>5. \A x \in Session : Exists(x)' <=> Exists(x) \/ x = s
      BY <1>2, IssueWrites DEF Exists
    <2>6. \A x \in Session \ {s} : sessions'[x] = sessions[x]
      BY <1>2, IssueWrites
    <2>7. sessions'[s].refresh_token_hash = HashRefreshToken(t)
      BY <1>2, IssueWrites
    <2>8. QED
      BY <2>1, <2>3, <2>4, <2>5, <2>6, <2>7 DEF CurrentIsNeverUsed, HasHash
  <1>3. ASSUME NEW r \in Request, NEW t \in Token, RefreshCommit(r, t)
        PROVE  CurrentIsNeverUsed'
    <2> DEFINE p == req[r].token
               s == req[r].session
    <2>1. /\ t \notin IssuedTokens
          /\ UsedHashes' \subseteq UsedHashes \union {HashRefreshToken(p)}
      BY <1>3 DEF RefreshCommit, Outgoing, UsedHashes
    <2>2. \A i \in issued : HashRefreshToken(i.token) # HashRefreshToken(t)
      BY <2>1, HashInjective DEF IssuedTokens
    <2>3. PICK k \in issued : k.token = p /\ k.session = s
      BY <1>3, CommitWrites
    <2>4. HashRefreshToken(t) \notin UsedHashes'
      BY <2>1, <2>2, <2>3, UsedAreIssued
    <2>5. \A x \in Session \ {s} : Exists(x) =>
            /\ sessions[x].refresh_token_hash # HashRefreshToken(t)
            /\ sessions[x].refresh_token_hash # HashRefreshToken(p)
      BY <1>o, <2>2, <2>3, HashInjective DEF TokensHaveOrigin
    <2>6. /\ \A x \in Session : Exists(x)' <=> Exists(x)
          /\ \A x \in Session \ {s} : sessions'[x] = sessions[x]
          /\ sessions'[s].refresh_token_hash = HashRefreshToken(t)
      BY <1>3, CommitWrites DEF Exists
    <2>7. QED
      BY <2>1, <2>4, <2>5, <2>6 DEF CurrentIsNeverUsed, HasHash
  <1>4. CASE Touches
    BY <1>4, TouchKeeps DEF CurrentIsNeverUsed, HasHash, UsedHashes
  <1>5. QED
    BY <1>1, <1>2, <1>3, <1>4, TableSteps

-----------------------------------------------------------------------------
\* A slot that holds a rotation lock after a step held it before, or got it by
\* RefreshRotate in that step, which changed no table and no other slot.
LEMMA RotationHolder ==
    ASSUME TypeOK, [Next]_vars, NEW r \in Request, NEW s \in Session,
           HoldsRotate(r, s)'
    PROVE  \/ HoldsRotate(r, s)
           \/ /\ RefreshRotate(r)
              /\ Blockers(r) = {}
              /\ At(r, "rotate")
              /\ req[r].session = s
              /\ ~ Revoked(s)
  <1>t. req[r] \in RequestState
    BY RequestTyped
  <1>h. req'[r].pc \in {"user", "commit"} /\ req'[r].session = s
    BY DEF HoldsRotate
  <1>1. ~ Rests(r)
    BY <1>h, RestFields, RestingIsNotWaiting DEF Waiting
  <1>2. ~ Arrive(r)
    <2>1. ASSUME NEW u \in User, req'[r] = [Begin(r, "issue") EXCEPT !.user = u]
          PROVE  FALSE
      BY <1>h, <2>1 DEF Begin, Rest
    <2>2. ASSUME NEW t \in Presentable, NEW x \in Session,
                 NEW label \in {"record", "logout"},
                 req'[r] = [Begin(r, label) EXCEPT !.token = t, !.session = x]
          PROVE  FALSE
      BY <1>h, <2>2 DEF Begin, Rest
    <2>3. ASSUME NEW t \in Presentable,
                 req'[r] = [Begin(r, "used") EXCEPT
                              !.token = t, !.before = {x \in Session : Exists(x)}]
          PROVE  FALSE
      BY <1>h, <2>3 DEF Begin, Rest
    <2>4. QED
      BY <1>1, <2>1, <2>2, <2>3, ArriveMoves
  <1>3. CASE Proceed(r) \/ Fail(r)
    <2>1. CASE RefreshRotate(r) /\ At(r, "rotate") /\ Blockers(r) = {}
               /\ ~ Revoked(req[r].session)
               /\ req'[r] = [req[r] EXCEPT !.pc = "user"]
      BY <1>h, <1>t, <2>1 DEF RequestState
    <2>2. CASE At(r, "user") /\ req'[r] = [req[r] EXCEPT !.pc = "commit"]
      BY <1>h, <1>t, <2>2 DEF RequestState, HoldsRotate, At
    <2>3. CASE At(r, "record") /\ req'[r] = [req[r] EXCEPT !.pc = "rotate"]
      BY <1>h, <1>t, <2>3 DEF RequestState
    <2>4. ASSUME NEW row \in refresh_token_history,
                 req'[r] = [req[r] EXCEPT
                    !.pc = "revoke", !.session = row.session_id,
                    !.todo = {x \in VictimsOf(row) : ~ sessions[x].revoked}]
          PROVE  FALSE
      BY <1>h, <1>t, <2>4 DEF RequestState
    <2>5. ASSUME NEW x \in Session, At(r, "revoke"),
                 req'[r] = [req[r] EXCEPT
                    !.todo = @ \ {x},
                    !.revoking = IF Revoked(x) THEN @ ELSE @ \union {x}]
          PROVE  FALSE
      BY <1>h, <1>t, <2>5 DEF RequestState, At
    <2>6. QED
      BY <1>1, <1>3, <2>1, <2>2, <2>3, <2>4, <2>5, ProceedMoves
  <1>4. CASE req'[r] = [req[r] EXCEPT !.shunned = req'[r].shunned]
    BY <1>h, <1>t, <1>4 DEF RequestState, HoldsRotate
  <1>5. QED
    BY <1>2, <1>3, <1>4, SlotSteps

\* What a slot is about to revoke after a step, it was about to revoke before,
\* or it got the row lock in that step.
LEMMA RevocationHolder ==
    ASSUME TypeOK, [Next]_vars, NEW q \in Request, NEW s \in Session,
           s \in req'[q].revoking
    PROVE  \/ s \in req[q].revoking
           \/ RowBlockers(q, s) = {} /\ UNCHANGED sessions
  <1>t. req[q] \in RequestState
    BY RequestTyped
  <1>1. ~ Rests(q)
    BY RestFields
  <1>2. ~ Arrive(q)
    <2>1. ASSUME NEW u \in User, req'[q] = [Begin(q, "issue") EXCEPT !.user = u]
          PROVE  FALSE
      BY <2>1 DEF Begin, Rest
    <2>2. ASSUME NEW t \in Presentable, NEW x \in Session,
                 NEW label \in {"record", "logout"},
                 req'[q] = [Begin(q, label) EXCEPT !.token = t, !.session = x]
          PROVE  FALSE
      BY <2>2 DEF Begin, Rest
    <2>3. ASSUME NEW t \in Presentable,
                 req'[q] = [Begin(q, "used") EXCEPT
                              !.token = t, !.before = {x \in Session : Exists(x)}]
          PROVE  FALSE
      BY <2>3 DEF Begin, Rest
    <2>4. QED
      BY <1>1, <2>1, <2>2, <2>3, ArriveMoves
  <1>3. CASE Proceed(q) \/ Fail(q)
    <2>1. ASSUME NEW label \in {"rotate", "user", "commit"},
                 req'[q] = [req[q] EXCEPT !.pc = label]
          PROVE  s \in req[q].revoking
      BY <1>t, <2>1 DEF RequestState
    <2>2. ASSUME NEW row \in refresh_token_history,
                 req'[q] = [req[q] EXCEPT
                    !.pc = "revoke", !.session = row.session_id,
                    !.todo = {x \in VictimsOf(row) : ~ sessions[x].revoked}]
          PROVE  s \in req[q].revoking
      BY <1>t, <2>2 DEF RequestState
    <2>3. ASSUME NEW x \in Session, RowBlockers(q, x) = {}, UNCHANGED sessions,
                 req'[q] = [req[q] EXCEPT
                    !.todo = @ \ {x},
                    !.revoking = IF Revoked(x) THEN @ ELSE @ \union {x}]
          PROVE  \/ s \in req[q].revoking
                 \/ RowBlockers(q, s) = {} /\ UNCHANGED sessions
      <3>1. req'[q].revoking \subseteq req[q].revoking \union {x}
        BY <1>t, <2>3 DEF RequestState
      <3>2. QED
        BY <2>3, <3>1
    <2>4. QED
      BY <1>1, <1>3, <2>1, <2>2, <2>3, ProceedMoves
  <1>4. CASE req'[q] = [req[q] EXCEPT !.shunned = req'[q].shunned]
    BY <1>t, <1>4 DEF RequestState
  <1>5. QED
    BY <1>2, <1>3, <1>4, SlotSteps

\* The step of a rotation: nothing but the slot's own pc.
LEMMA RotateIsPrivate ==
    ASSUME TypeOK, NEW r \in Request, RefreshRotate(r)
    PROVE  /\ UNCHANGED sessions
           /\ \A q \in Request \ {r} : req'[q] = req[q]
  BY DEF RefreshRotate, Answer, Goto, TypeOK

\* While r holds its rotation lock on s, no step revokes s.
LEMMA LockedStaysOpen ==
    ASSUME TypeOK, TokensHaveOrigin, RequestsSound, RotationExcludesRevocation,
           [Next]_vars, NEW r \in Request, NEW s \in Session,
           HoldsRotate(r, s), HoldsRotate(r, s)'
    PROVE  ~ Revoked(s)'
  <1>o. ~ Revoked(s)
    BY DEF RotationExcludesRevocation
  <1>h. req'[r].pc \notin Resting
    BY RestingIsNotWaiting DEF HoldsRotate, Waiting
  <1>1. CASE TablesUnchanged
    BY <1>1, <1>o DEF TablesUnchanged, Revoked, Exists
  <1>2. ASSUME NEW q \in Request, NEW x \in Session, NEW t \in Token,
               Issue(q, x, t)
        PROVE  ~ Revoked(s)'
    BY <1>2, <1>o, IssueWrites DEF Revoked, Exists
  <1>3. ASSUME NEW q \in Request, NEW t \in Token, RefreshCommit(q, t)
        PROVE  ~ Revoked(s)'
    BY <1>3, <1>o, CommitWrites DEF Revoked, Exists
  <1>4. ASSUME NEW q \in Request, RefreshReuseCommit(q)
        PROVE  ~ Revoked(s)'
    <2>1. q # r
      BY <1>4, <1>h DEF RefreshReuseCommit, Answer, TypeOK, Rest, Resting, Verdict
    <2>2. s \notin req[q].revoking
      BY <2>1 DEF RotationExcludesRevocation
    <2>3. QED
      BY <1>4, <1>o, <2>2 DEF RefreshReuseCommit, Revoked, Exists
  <1>5. ASSUME NEW q \in Request, LogoutRevoke(q)
        PROVE  ~ Revoked(s)'
    <2>1. q # r
      BY <1>5 DEF LogoutRevoke, HoldsRotate, At
    <2>2. req[q].session # s
      BY <1>5, <2>1 DEF LogoutRevoke, Blockers
    <2>3. QED
      BY <1>5, <1>o, <2>2 DEF LogoutRevoke, Revoked, Exists, TypeOK
  <1>6. ASSUME NEW x \in Session, Expire(x)
        PROVE  ~ Revoked(s)'
    <2>1. sessions[x] \in SessionRow
      BY <1>6, RowTyped DEF Expire
    <2>2. /\ \A y \in Session \ {x} : sessions'[y] = sessions[y]
          /\ sessions'[x].revoked = sessions[x].revoked
      BY <1>6, <2>1 DEF Expire, TypeOK, SessionRow
    <2>3. QED
      BY <1>6, <1>o, <2>2 DEF Expire, Revoked, Exists
  <1>7. QED
    BY <1>1, <1>2, <1>3, <1>4, <1>5, <1>6, TableSteps DEF Touches

LEMMA RotationNext ==
    ASSUME TypeOK, TokensHaveOrigin, RequestsSound, RotationExcludesRevocation,
           [Next]_vars
    PROVE  RotationExcludesRevocation'
  <1> SUFFICES ASSUME NEW r \in Request, NEW s \in Session, HoldsRotate(r, s)'
               PROVE  /\ ~ Revoked(s)'
                      /\ \A q \in Request \ {r} : s \notin req'[q].revoking
    BY DEF RotationExcludesRevocation
  <1>1. CASE HoldsRotate(r, s)
    <2>1. ~ Revoked(s)'
      BY <1>1, LockedStaysOpen
    <2>2. ASSUME NEW q \in Request \ {r}, s \in req'[q].revoking
          PROVE  FALSE
      <3>1. s \notin req[q].revoking
        BY <1>1 DEF RotationExcludesRevocation
      <3>2. r \in RowBlockers(q, s)
        BY <1>1 DEF RowBlockers
      <3>3. QED
        BY <2>2, <3>1, <3>2, RevocationHolder
    <2>3. QED
      BY <2>1, <2>2
  <1>2. CASE RefreshRotate(r) /\ Blockers(r) = {} /\ At(r, "rotate")
             /\ req[r].session = s /\ ~ Revoked(s)
    <2>1. \A q \in Request \ {r} : s \notin req[q].revoking
      BY <1>2 DEF Blockers, HoldsRevoke
    <2>2. QED
      BY <1>2, <2>1, RotateIsPrivate DEF Revoked, Exists
  <1>3. QED
    BY <1>1, <1>2, RotationHolder

-----------------------------------------------------------------------------
LEMMA BansNext ==
    ASSUME TypeOK, TokensHaveOrigin, RequestsSound, BansRemembered, [Next]_vars
    PROVE  BansRemembered'
  <1> SUFFICES ASSUME NEW r \in Request
               PROVE  /\ req'[r].shunned \subseteq banned'
                      /\ req'[r].pc \in {"issue", "commit"}
                            => Subject(r)' \notin req'[r].shunned
    BY DEF BansRemembered
  <1>t. req[r] \in RequestState
    BY RequestTyped
  <1>o. /\ req[r].shunned \subseteq banned
        /\ req[r].pc \in {"issue", "commit"} => Subject(r) \notin req[r].shunned
    BY DEF BansRemembered
  <1>1. ASSUME NEW u \in User, NEW flag \in BOOLEAN, SetUserBanned(u, flag)
        PROVE  /\ req'[r].shunned \subseteq banned'
               /\ req'[r].pc \in {"issue", "commit"}
                     => Subject(r)' \notin req'[r].shunned
    <2>1. req'[r] = [req[r] EXCEPT !.shunned = IF flag THEN @ ELSE @ \ {u}]
      BY <1>1 DEF SetUserBanned
    <2>2. /\ req'[r].shunned = IF flag THEN req[r].shunned ELSE req[r].shunned \ {u}
          /\ req'[r].pc = req[r].pc
          /\ req'[r].user = req[r].user
          /\ req'[r].session = req[r].session
      BY <1>t, <2>1 DEF RequestState
    <2>3. Subject(r)' = Subject(r)
      BY <1>1, <2>2 DEF Subject, At, SetUserBanned
    <2>4. banned' = IF flag THEN banned \union {u} ELSE banned \ {u}
      BY <1>1 DEF SetUserBanned
    <2>5. QED
      BY <1>o, <2>2, <2>3, <2>4
  <1>2. ASSUME UNCHANGED banned, Rests(r)
        PROVE  /\ req'[r].shunned \subseteq banned'
               /\ req'[r].pc \in {"issue", "commit"}
                     => Subject(r)' \notin req'[r].shunned
    BY <1>2, RestFields
  <1>3. ASSUME UNCHANGED banned, Arrive(r)
        PROVE  /\ req'[r].shunned \subseteq banned'
               /\ req'[r].pc \in {"issue", "commit"}
                     => Subject(r)' \notin req'[r].shunned
    <2>1. ASSUME NEW u \in User \ banned,
                 req'[r] = [Begin(r, "issue") EXCEPT !.user = u]
          PROVE  req'[r].shunned = banned /\ req'[r].pc = "issue" /\ req'[r].user = u
      BY <2>1 DEF Begin, Rest
    <2>2. ASSUME NEW t \in Presentable, NEW x \in Session,
                 NEW label \in {"record", "logout"},
                 req'[r] = [Begin(r, label) EXCEPT !.token = t, !.session = x]
          PROVE  req'[r].shunned = banned /\ req'[r].pc \notin {"issue", "commit"}
      BY <2>2 DEF Begin, Rest
    <2>3. ASSUME NEW t \in Presentable,
                 req'[r] = [Begin(r, "used") EXCEPT
                              !.token = t, !.before = {x \in Session : Exists(x)}]
          PROVE  req'[r].shunned = banned /\ req'[r].pc \notin {"issue", "commit"}
      BY <2>3 DEF Begin, Rest
    <2>4. ASSUME NEW u \in User \ banned, req'[r].shunned = banned,
                 req'[r].pc = "issue", req'[r].user = u
          PROVE  Subject(r)' \notin req'[r].shunned
      BY <2>4 DEF Subject, At
    <2>5. CASE \E u \in User \ banned : req'[r] = [Begin(r, "issue") EXCEPT !.user = u]
      BY <1>3, <2>1, <2>4, <2>5
    <2>6. CASE \E t \in Presentable, s \in Session, label \in {"record", "logout"} :
                 /\ HasHash(s, HashRefreshToken(t))
                 /\ label = "record" => ~ sessions[s].revoked
                 /\ req'[r] = [Begin(r, label) EXCEPT !.token = t, !.session = s]
      BY <1>3, <2>2, <2>6
    <2>7. CASE \E t \in Presentable :
                 req'[r] = [Begin(r, "used") EXCEPT
                              !.token = t, !.before = {x \in Session : Exists(x)}]
      BY <1>3, <2>3, <2>7
    <2>8. CASE Rests(r)
      BY <1>2, <1>3, <2>8
    <2>9. QED
      BY <1>3, <2>5, <2>6, <2>7, <2>8, ArriveMoves
  <1>4. ASSUME UNCHANGED banned, Proceed(r) \/ Fail(r)
        PROVE  /\ req'[r].shunned \subseteq banned'
               /\ req'[r].pc \in {"issue", "commit"}
                     => Subject(r)' \notin req'[r].shunned
    <2>1. ASSUME NEW label \in {"rotate", "user"},
                 req'[r] = [req[r] EXCEPT !.pc = label]
          PROVE  /\ req'[r].shunned = req[r].shunned
                 /\ req'[r].pc \notin {"issue", "commit"}
      BY <1>t, <2>1 DEF RequestState
    <2>2. ASSUME RefreshUser(r), sessions[req[r].session].user_id \notin banned,
                 req'[r] = [req[r] EXCEPT !.pc = "commit"]
          PROVE  /\ req'[r].shunned = req[r].shunned
                 /\ Subject(r)' \notin req'[r].shunned
      <3>1. /\ req'[r].shunned = req[r].shunned
            /\ req'[r].pc = "commit"
            /\ req'[r].session = req[r].session
        BY <1>t, <2>2 DEF RequestState
      <3>2. UNCHANGED sessions
        BY <2>2 DEF RefreshUser
      <3>3. Subject(r)' = sessions[req[r].session].user_id
        BY <3>1, <3>2 DEF Subject, At
      <3>4. QED
        BY <1>o, <2>2, <3>1, <3>3
    <2>3. ASSUME NEW row \in refresh_token_history,
                 req'[r] = [req[r] EXCEPT
                    !.pc = "revoke", !.session = row.session_id,
                    !.todo = {x \in VictimsOf(row) : ~ sessions[x].revoked}]
          PROVE  /\ req'[r].shunned = req[r].shunned
                 /\ req'[r].pc \notin {"issue", "commit"}
      BY <1>t, <2>3 DEF RequestState
    <2>4. ASSUME NEW x \in Session, At(r, "revoke"),
                 req'[r] = [req[r] EXCEPT
                    !.todo = @ \ {x},
                    !.revoking = IF Revoked(x) THEN @ ELSE @ \union {x}]
          PROVE  /\ req'[r].shunned = req[r].shunned
                 /\ req'[r].pc \notin {"issue", "commit"}
      BY <1>t, <2>4 DEF RequestState, At
    <2>5. QED
      BY <1>o, <1>2, <1>4, <2>1, <2>2, <2>3, <2>4, ProceedMoves
  <1>5. ASSUME UNCHANGED banned, req'[r] = req[r]
        PROVE  /\ req'[r].shunned \subseteq banned'
               /\ req'[r].pc \in {"issue", "commit"}
                     => Subject(r)' \notin req'[r].shunned
    <2>1. ASSUME req[r].pc \in {"issue", "commit"}
          PROVE  Subject(r)' = Subject(r)
      <3>1. CASE At(r, "issue")
        BY <1>5, <3>1 DEF Subject, At
      <3>2. CASE At(r, "commit")
        <4>1. req[r].session \in Session /\ Exists(req[r].session)
          BY <3>2, FoundExists DEF Found, At, RequestsSound
        <4>2. sessions'[req[r].session].user_id = sessions[req[r].session].user_id
          BY <4>1, Persistence
        <4>3. QED
          BY <1>5, <3>2, <4>2 DEF Subject, At
      <3>3. QED
        BY <2>1, <3>1, <3>2 DEF At
    <2>2. QED
      BY <1>5, <1>o, <2>1
  <1>6. CASE UNCHANGED vars
    BY <1>5, <1>6 DEF vars
  <1>7. ASSUME NEW q \in Request, Arrive(q) \/ Proceed(q) \/ Fail(q)
        PROVE  /\ UNCHANGED banned
               /\ q # r => req'[r] = req[r]
    <2>1. UNCHANGED banned
      BY <1>7 DEF Arrive, Proceed, Fail, LoginLookup, RefreshSelect, LogoutSelect,
         Issue, RefreshRecord, RefreshRotate, RefreshUser, RefreshCommit,
         RefreshFindUsed, RevokeAllRow, RefreshReuseCommit, LogoutRevoke,
         DeadlockVictim
    <2>2. QED
      BY <1>7, <2>1, OthersKeep
  <1>8. ASSUME NEW x \in Session, Expire(x)
        PROVE  UNCHANGED banned /\ req'[r] = req[r]
    BY <1>8 DEF Expire
  <1>9. QED
    BY <1>1, <1>3, <1>4, <1>5, <1>6, <1>7, <1>8 DEF Next, Environment

-----------------------------------------------------------------------------
LEMMA InvInit == Init => Inv
  <1> SUFFICES ASSUME Init PROVE Inv
    OBVIOUS
  <1>1. TypeOK
    BY TypeInit
  <1>2. \A s \in Session : ~ Exists(s)
    BY DEF Init, Exists
  <1>3. \A r \in Request :
          /\ req[r].pc = "idle"
          /\ req[r].todo = {}
          /\ req[r].revoking = {}
          /\ req[r].shunned = {}
    BY DEF Init, Rest
  <1>4. TokensHaveOrigin /\ CurrentIsNeverUsed
    BY <1>2 DEF TokensHaveOrigin, CurrentIsNeverUsed, Init
  <1>5. RequestsSound
    BY <1>3 DEF RequestsSound, RequestSound, At, Found
  <1>6. HistoryExact
    BY DEF HistoryExact, Init
  <1>7. RotationExcludesRevocation /\ BansRemembered
    BY <1>3 DEF RotationExcludesRevocation, BansRemembered, HoldsRotate
  <1>8. QED
    BY <1>1, <1>4, <1>5, <1>6, <1>7 DEF Inv

LEMMA InvNext == Inv /\ [Next]_vars => Inv'
  BY TypeNext, OriginNext, RequestNext, HistoryNext, CurrentNext, RotationNext,
     BansNext DEF Inv

\* The invariant holds in every state of every instance.
THEOREM Invariance == Spec => []Inv
  BY InvInit, InvNext, PTL DEF Spec

\* Every variable of Login, Refresh and Logout keeps its type.
THEOREM TypeCorrectness == Spec => []TypeOK
  <1>1. Inv => TypeOK
    BY DEF Inv
  <1>2. QED
    BY <1>1, Invariance, PTL

\* Reuse detection sees exactly the exchanged tokens, however many refreshes
\* overlap (RecordUsedRefreshHash, RotateSessionRefreshHash in one transaction).
THEOREM HistoryIsExact == Spec => []HistoryExact
  <1>1. Inv => HistoryExact
    BY DEF Inv
  <1>2. QED
    BY <1>1, Invariance, PTL

\* No exchanged token is ever the current one of a session.
THEOREM CurrentNeverUsed == Spec => []CurrentIsNeverUsed
  <1>1. Inv => CurrentIsNeverUsed
    BY DEF Inv
  <1>2. QED
    BY <1>1, Invariance, PTL

\* A step leaves a revoked session as it is.
LEMMA RevokedStays ==
    ASSUME Inv, [Next]_vars, NEW s \in Session, Revoked(s)
    PROVE  /\ Exists(s)' /\ sessions'[s].revoked
           /\ sessions'[s].refresh_token_hash = sessions[s].refresh_token_hash
           /\ \A i \in issued' \ issued : i.session # s
  <1> USE DEF Inv
  <1>1. CASE TablesUnchanged
    BY <1>1 DEF TablesUnchanged, Revoked, Exists
  <1>2. ASSUME NEW r \in Request, NEW x \in Session, NEW t \in Token,
               Issue(r, x, t)
        PROVE  /\ x # s
               /\ sessions'[s] = sessions[s]
               /\ \A i \in issued' \ issued : i.session = x
    BY <1>2, IssueWrites DEF Issue, Revoked
  <1>3. ASSUME NEW r \in Request, NEW t \in Token, RefreshCommit(r, t)
        PROVE  /\ req[r].session # s
               /\ sessions'[s] = sessions[s]
               /\ \A i \in issued' \ issued : i.session = req[r].session
    <2>1. HoldsRotate(r, req[r].session)
      BY <1>3 DEF RefreshCommit, At, HoldsRotate
    <2>2. req[r].session # s
      BY <2>1 DEF RotationExcludesRevocation
    <2>3. QED
      BY <1>3, <2>2, CommitWrites DEF RefreshCommit
  <1>4. CASE Touches
    BY <1>4, TouchKeeps DEF Revoked
  <1>5. QED
    BY <1>1, <1>2, <1>3, <1>4, TableSteps DEF Revoked, Exists

\* Revocation is for good: the row locks and "revoked_at IS NULL" keep a
\* rotation from reviving a session that a replay or a logout closed.
THEOREM RevocationIsFinal == Spec => RevokedIsFinal
  <1>1. Inv /\ [Next]_vars =>
          [\A s \in Session : Revoked(s) =>
             /\ Exists(s)' /\ sessions'[s].revoked
             /\ sessions'[s].refresh_token_hash = sessions[s].refresh_token_hash
             /\ \A i \in issued' \ issued : i.session # s]_vars
    BY RevokedStays
  <1>2. QED
    BY <1>1, Invariance, PTL DEF Spec, RevokedIsFinal

\* No request succeeds for a user who was banned all the while.
THEOREM BannedGetNothing == Spec => BannedGetsNothing
  <1> DEFINE Nothing == \A r \in Request :
          req[r].pc \in Waiting /\ req'[r].pc = "ok"
              => Subject(r) \notin req[r].shunned
  <1>1. ASSUME Inv, [Next]_vars
        PROVE  Nothing
    <2> SUFFICES ASSUME NEW r \in Request, req[r].pc \in Waiting, req'[r].pc = "ok"
                 PROVE  Subject(r) \notin req[r].shunned
      OBVIOUS
    <2> USE <1>1 DEF Inv
    <2>t. req[r] \in RequestState
      BY RequestTyped
    <2>1. "ok" \notin Waiting
      BY DEF Waiting
    <2>2. ~ Arrive(r)
      BY RestingIsNotWaiting DEF Arrive, LoginLookup, RefreshSelect, LogoutSelect
    <2>3. req'[r] # [req[r] EXCEPT !.shunned = req'[r].shunned]
      BY <2>t, <2>1 DEF RequestState
    <2>4. Proceed(r) \/ Fail(r)
      BY <2>2, <2>3, SlotSteps
    <2>5. At(r, "issue") \/ At(r, "commit")
      <3>1. ASSUME NEW verdict, Answer(r, verdict)
            PROVE  req'[r].pc = verdict
        BY <3>1 DEF Answer, Rest, TypeOK
      <3>2. ASSUME NEW label, Goto(r, label)
            PROVE  req'[r].pc = label
        BY <3>2, <2>t DEF Goto, TypeOK, RequestState
      <3>3. VerdictOnError(r) # "ok"
        BY DEF VerdictOnError
      <3>4. ~ (Fail(r) \/ DeadlockVictim(r) \/ RefreshReuseCommit(r) \/ LogoutRevoke(r))
        BY <3>1, <3>3 DEF Fail, DeadlockVictim, RefreshReuseCommit, LogoutRevoke
      <3>5. ~ (RefreshRecord(r) \/ RefreshRotate(r) \/ RefreshUser(r))
        BY <3>1, <3>2 DEF RefreshRecord, RefreshRotate, RefreshUser
      <3>6. ~ RefreshFindUsed(r)
        <4>1. ASSUME NEW row \in refresh_token_history,
                     req' = [req EXCEPT
                        ![r].pc = "revoke",
                        ![r].session = row.session_id,
                        ![r].todo = {s \in VictimsOf(row) : ~ sessions[s].revoked}]
              PROVE  req'[r].pc = "revoke"
          BY <2>t, <4>1 DEF TypeOK, RequestState
        <4>2. QED
          BY <3>1, <4>1 DEF RefreshFindUsed
      <3>7. ASSUME NEW s \in Session, RevokeAllRow(r, s)
            PROVE  FALSE
        BY <2>t, <3>7 DEF RevokeAllRow, TypeOK, RequestState, At
      <3>8. QED
        BY <2>4, <3>4, <3>5, <3>6, <3>7 DEF Proceed, Issue, RefreshCommit
    <2>6. QED
      BY <2>5 DEF BansRemembered, At
  <1>2. QED
    BY <1>1, Invariance, PTL DEF Spec, BannedGetsNothing
=============================================================================
