--------------------------- MODULE FamiliesProofs ---------------------------
(***************************************************************************)
(* Further theorems about Sessions: what a replay closes, that the tables  *)
(* implement TokenFamilies, and what holds of requests one at a time.      *)
(***************************************************************************)
EXTENDS SessionsProofs, FiniteSetTheorems

-----------------------------------------------------------------------------
\* The inductive invariant, on top of Inv.

\* A request that revokes was given a token of its session.  Every session of
\* the same user that existed when it arrived is revoked, or it still waits
\* for the row, or it holds it.
RevocationSound(r) ==
    /\ \A s \in req[r].before : Exists(s)
    /\ ~ At(r, "revoke") => req[r].todo = {} /\ req[r].revoking = {}
    /\ At(r, "revoke") =>
          /\ \E i \in issued : /\ i.token = req[r].token
                               /\ i.session = req[r].session
          /\ \A s \in req[r].todo \union req[r].revoking :
                sessions[s].user_id = sessions[req[r].session].user_id
          /\ \A s \in req[r].before :
                sessions[s].user_id = sessions[req[r].session].user_id
                   => Revoked(s) \/ s \in req[r].todo \union req[r].revoking

RevocationsSound == \A r \in Request : RevocationSound(r)

\* Requests are served one after another.
OneSlot == \A q, r \in Request : q = r

\* The token that a rotation is about to replace is still the current one.
Rotates(r) == req[r].pc \in {"record", "rotate", "user", "commit"}

CurrentInTurn ==
    OneSlot => \A r \in Request :
        Rotates(r) => HasHash(req[r].session, HashRefreshToken(req[r].token))

FamilyInv == Inv /\ RevocationsSound /\ CurrentInTurn

-----------------------------------------------------------------------------
\* What a step leaves of a request that goes on.
LEMMA SoundIsKept ==
    ASSUME Inv, RevocationsSound, [Next]_vars, NEW r \in Request,
           req'[r].pc = req[r].pc,
           req'[r].token = req[r].token,
           req'[r].session = req[r].session,
           req'[r].todo = req[r].todo,
           req'[r].revoking = req[r].revoking,
           req'[r].before = req[r].before
    PROVE  RevocationSound(r)'
  <1>1. RevocationSound(r)
    BY DEF RevocationsSound
  <1>2. /\ issued \subseteq issued'
        /\ \A s \in Session : Exists(s) =>
              Exists(s)' /\ sessions'[s].user_id = sessions[s].user_id
    BY Persistence DEF Inv
  <1>3. \A s \in Session : Revoked(s) => Revoked(s)'
    BY RevokedStays DEF Revoked
  <1>4. /\ req[r].todo \in SUBSET Session
        /\ req[r].revoking \in SUBSET Session
        /\ req[r].before \in SUBSET Session
    BY RequestTyped DEF Inv
  <1>5. \A s \in req[r].before : Exists(s)'
    BY <1>1, <1>2, <1>4 DEF RevocationSound
  <1>6. \A s \in req[r].todo \union req[r].revoking : Exists(s)
    BY DEF Inv, RequestsSound, RequestSound
  <1>7. ASSUME At(r, "revoke")
        PROVE  sessions'[req[r].session].user_id = sessions[req[r].session].user_id
    <2>1. req[r].session \in Session /\ Exists(req[r].session)
      BY <1>1, <1>7 DEF RevocationSound, Inv, TokensHaveOrigin, TypeOK
    <2>2. QED
      BY <1>2, <2>1
  <1>8. QED
    BY <1>1, <1>2, <1>3, <1>4, <1>5, <1>6, <1>7 DEF RevocationSound, At

\* A request that does not revoke has only to remember sessions that exist.
LEMMA SoundIsEasy ==
    ASSUME NEW r \in Request,
           req'[r].pc # "revoke",
           req'[r].todo = {}, req'[r].revoking = {},
           \A s \in req'[r].before : Exists(s)'
    PROVE  RevocationSound(r)'
  BY DEF RevocationSound, At

\* The lookup in the history finds the session of the replayed token, and the
\* statement that follows selects every open session of its user.
LEMMA FindIsSound ==
    ASSUME Inv, RevocationsSound, NEW r \in Request, RefreshFindUsed(r)
    PROVE  Rests(r) \/ RevocationSound(r)'
  <1>u. UNCHANGED <<sessions, issued>>
    BY DEF RefreshFindUsed
  <1>t. req[r] \in RequestState /\ req[r].before \in SUBSET Session
    BY RequestTyped DEF Inv
  <1>r. /\ \A s \in req[r].before : Exists(s)
        /\ req[r].revoking = {}
    BY DEF RevocationsSound, RevocationSound, RefreshFindUsed, At
  <1>1. CASE Answer(r, "invalid")
    BY <1>1 DEF Answer, Rests, Resting, Verdict, Inv, TypeOK
  <1>2. ASSUME NEW row \in refresh_token_history,
               row.token_hash = HashRefreshToken(req[r].token),
               req' = [req EXCEPT
                  ![r].pc = "revoke",
                  ![r].session = row.session_id,
                  ![r].todo = {s \in VictimsOf(row) : ~ sessions[s].revoked}]
        PROVE  RevocationSound(r)'
    <2>1. /\ req'[r].pc = "revoke"
          /\ req'[r].token = req[r].token
          /\ req'[r].session = row.session_id
          /\ req'[r].todo = {s \in VictimsOf(row) : ~ sessions[s].revoked}
          /\ req'[r].revoking = {}
          /\ req'[r].before = req[r].before
      BY <1>2, <1>t, <1>r DEF RequestState, Inv, TypeOK
    <2>2. PICK j \in issued :
            /\ j.from # NoToken
            /\ row = [token_hash |-> HashRefreshToken(j.from),
                      session_id |-> j.session]
      BY DEF Inv, HistoryExact
    <2>3. j.from = req[r].token
      BY <1>2, <2>2, HashInjective
    <2>4. \E k \in issued : k.token = req[r].token /\ k.session = row.session_id
      BY <2>2, <2>3 DEF Inv, TokensHaveOrigin
    <2>5. VictimsOf(row) = {s \in Session : Exists(s)
              /\ sessions[s].user_id = sessions[row.session_id].user_id}
      BY DEF VictimsOf, SessionsOf
    <2>6. \A s \in req[r].before :
            sessions[s].user_id = sessions[row.session_id].user_id
               => Revoked(s) \/ s \in req'[r].todo
      BY <1>r, <1>t, <2>1, <2>5 DEF Revoked
    <2>7. \A s \in req'[r].todo :
            sessions[s].user_id = sessions[row.session_id].user_id
      BY <2>1, <2>5
    <2>8. QED
      BY <1>u, <1>r, <2>1, <2>4, <2>6, <2>7
         DEF RevocationSound, At, Exists, Revoked
  <1>3. QED
    BY <1>1, <1>2 DEF RefreshFindUsed

\* Once a row is reached it is locked, or it was revoked by then.
LEMMA RowIsSound ==
    ASSUME Inv, RevocationsSound, NEW r \in Request, NEW x \in Session,
           RevokeAllRow(r, x)
    PROVE  RevocationSound(r)'
  <1>u. UNCHANGED <<sessions, issued>>
    BY DEF RevokeAllRow
  <1>t. req[r] \in RequestState
    BY RequestTyped DEF Inv
  <1>r. RevocationSound(r)
    BY DEF RevocationsSound
  <1>1. /\ At(r, "revoke")
        /\ x \in req[r].todo
        /\ req'[r].pc = "revoke"
        /\ req'[r].token = req[r].token
        /\ req'[r].session = req[r].session
        /\ req'[r].todo = req[r].todo \ {x}
        /\ req'[r].revoking =
              IF Revoked(x) THEN req[r].revoking ELSE req[r].revoking \union {x}
        /\ req'[r].before = req[r].before
    BY <1>t DEF RevokeAllRow, RequestState, At, Inv, TypeOK
  <1>2. req'[r].todo \union req'[r].revoking \subseteq req[r].todo \union req[r].revoking
    BY <1>1
  <1>3. \A s \in req[r].todo \union req[r].revoking :
          Revoked(s) \/ s \in req'[r].todo \union req'[r].revoking
    BY <1>1
  <1>4. QED
    BY <1>u, <1>r, <1>1, <1>2, <1>3 DEF RevocationSound, At, Exists, Revoked

LEMMA RevocationNext ==
    ASSUME Inv, RevocationsSound, [Next]_vars
    PROVE  RevocationsSound'
  <1> SUFFICES ASSUME NEW r \in Request PROVE RevocationSound(r)'
    BY DEF RevocationsSound
  <1>t. req[r] \in RequestState /\ req[r].before \in SUBSET Session
    BY RequestTyped DEF Inv
  <1>i. TypeOK
    BY DEF Inv
  <1>r. RevocationSound(r)
    BY DEF RevocationsSound
  <1>p. \A s \in Session : Exists(s) => Exists(s)'
    BY Persistence DEF Inv
  <1>1. CASE Rests(r)
    <2>1. req'[r].before = {} /\ req'[r].pc # "revoke"
      BY <1>1 DEF Rests, Rest, Resting, Verdict
    <2>2. QED
      BY <1>1, <2>1, RestFields, SoundIsEasy
  <1>2. CASE Arrive(r)
    <2>1. ASSUME NEW u \in User, req'[r] = [Begin(r, "issue") EXCEPT !.user = u]
          PROVE  /\ req'[r].pc # "revoke"
                 /\ req'[r].todo = {} /\ req'[r].revoking = {}
                 /\ req'[r].before = {}
      BY <2>1 DEF Begin, Rest
    <2>2. ASSUME NEW t \in Presentable, NEW s \in Session,
                 NEW label \in {"record", "logout"},
                 req'[r] = [Begin(r, label) EXCEPT !.token = t, !.session = s]
          PROVE  /\ req'[r].pc # "revoke"
                 /\ req'[r].todo = {} /\ req'[r].revoking = {}
                 /\ req'[r].before = {}
      BY <2>2 DEF Begin, Rest
    <2>3. ASSUME NEW t \in Presentable,
                 req'[r] = [Begin(r, "used") EXCEPT
                              !.token = t, !.before = {s \in Session : Exists(s)}]
          PROVE  /\ req'[r].pc # "revoke"
                 /\ req'[r].todo = {} /\ req'[r].revoking = {}
                 /\ req'[r].before = {s \in Session : Exists(s)}
      BY <2>3 DEF Begin, Rest
    <2>4. QED
      BY <1>i, <1>p, <1>1, <1>2, <2>1, <2>2, <2>3, ArriveMoves, SoundIsEasy
  <1>3. CASE RefreshFindUsed(r)
    BY <1>1, <1>3, FindIsSound
  <1>4. ASSUME NEW x \in Session, RevokeAllRow(r, x) PROVE RevocationSound(r)'
    BY <1>4, RowIsSound
  <1>5. ASSUME NEW from \in {"record", "rotate", "user"},
               NEW label \in {"rotate", "user", "commit"},
               At(r, from), req'[r] = [req[r] EXCEPT !.pc = label]
        PROVE  RevocationSound(r)'
    <2>1. /\ req'[r].pc = label
          /\ req'[r].todo = req[r].todo
          /\ req'[r].revoking = req[r].revoking
          /\ req'[r].before = req[r].before
      BY <1>5, <1>t DEF RequestState
    <2>2. req[r].todo = {} /\ req[r].revoking = {}
      BY <1>r, <1>5 DEF RevocationSound, At
    <2>3. \A s \in req[r].before : Exists(s)'
      BY <1>r, <1>t, <1>p DEF RevocationSound
    <2>4. QED
      BY <2>1, <2>2, <2>3, SoundIsEasy
  <1>6. CASE req'[r] = [req[r] EXCEPT !.shunned = req'[r].shunned]
    <2>1. /\ req'[r].pc = req[r].pc
          /\ req'[r].token = req[r].token
          /\ req'[r].session = req[r].session
          /\ req'[r].todo = req[r].todo
          /\ req'[r].revoking = req[r].revoking
          /\ req'[r].before = req[r].before
      BY <1>6, <1>t DEF RequestState
    <2>2. QED
      BY <2>1, SoundIsKept
  <1>7. CASE Proceed(r) \/ Fail(r)
    <2>1. CASE \E x \in Session : RevokeAllRow(r, x)
      BY <1>4, <2>1
    <2>2. CASE /\ ~ \E x \in Session : RevokeAllRow(r, x)
               /\ ~ RefreshFindUsed(r)
      <3>1. \/ Rests(r)
            \/ RefreshRecord(r) \/ RefreshRotate(r) \/ RefreshUser(r)
        BY <1>i, <1>7, <2>2, VerdictTyped DEF Proceed, Issue, RefreshCommit,
           RefreshReuseCommit, LogoutRevoke, DeadlockVictim, Fail, Answer, Rests,
           TypeOK, Resting, Verdict
      <3>2. CASE RefreshRecord(r)
        BY <1>i, <1>5, <3>2 DEF RefreshRecord, Goto, TypeOK
      <3>3. CASE RefreshRotate(r)
        BY <1>i, <1>1, <1>5, <3>3 DEF RefreshRotate, Goto, Answer, Rests, TypeOK,
           Resting, Verdict
      <3>4. CASE RefreshUser(r)
        BY <1>i, <1>1, <1>5, <3>4 DEF RefreshUser, Goto, Answer, Rests, TypeOK,
           Resting, Verdict
      <3>5. QED
        BY <1>1, <3>1, <3>2, <3>3, <3>4
    <2>3. QED
      BY <1>3, <2>1, <2>2
  <1>8. QED
    BY <1>i, <1>2, <1>6, <1>7, SlotSteps

-----------------------------------------------------------------------------
\* One request at a time: nobody rotates a session while another rotation of
\* it is under way.

LEMMA TurnNext ==
    ASSUME Inv, CurrentInTurn, [Next]_vars
    PROVE  CurrentInTurn'
  <1> SUFFICES ASSUME OneSlot, NEW r \in Request, Rotates(r)'
               PROVE  HasHash(req[r].session, HashRefreshToken(req[r].token))'
    BY DEF CurrentInTurn, OneSlot
  <1>i. TypeOK /\ TokensHaveOrigin /\ RequestsSound
    BY DEF Inv
  <1>t. req[r] \in RequestState
    BY <1>i, RequestTyped
  <1>r. Rotates(r) =>
          /\ HasHash(req[r].session, HashRefreshToken(req[r].token))
          /\ req[r].session \in Session
    BY <1>i, FoundExists DEF CurrentInTurn, Rotates, Found, RequestsSound
  <1>1. ~ Rests(r)
    <2>1. Rests(r) => req'[r].pc \notin Waiting
      BY RestFields, RestingIsNotWaiting
    <2>2. QED
      BY <2>1 DEF Rotates, Waiting
  <1>2. CASE Arrive(r)
    <2>1. UNCHANGED sessions
      BY <1>2 DEF Arrive, LoginLookup, RefreshSelect, LogoutSelect
    <2>2. ASSUME NEW u \in User, req'[r] = [Begin(r, "issue") EXCEPT !.user = u]
          PROVE  FALSE
      BY <2>2 DEF Begin, Rest, Rotates
    <2>3. ASSUME NEW t \in Presentable,
                 req'[r] = [Begin(r, "used") EXCEPT
                              !.token = t, !.before = {s \in Session : Exists(s)}]
          PROVE  FALSE
      BY <2>3 DEF Begin, Rest, Rotates
    <2>4. ASSUME NEW t \in Presentable, NEW s \in Session,
                 NEW label \in {"record", "logout"},
                 HasHash(s, HashRefreshToken(t)),
                 req'[r] = [Begin(r, label) EXCEPT !.token = t, !.session = s]
          PROVE  HasHash(req[r].session, HashRefreshToken(req[r].token))'
      <3>1. req'[r].token = t /\ req'[r].session = s
        BY <2>4 DEF Begin, Rest
      <3>2. QED
        BY <2>1, <2>4, <3>1 DEF HasHash, Exists
    <2>5. QED
      BY <1>i, <1>1, <1>2, <2>2, <2>3, <2>4, ArriveMoves
  <1>3. ASSUME UNCHANGED sessions, Rotates(r),
               req'[r].token = req[r].token, req'[r].session = req[r].session
        PROVE  HasHash(req[r].session, HashRefreshToken(req[r].token))'
    BY <1>3, <1>r DEF HasHash, Exists
  <1>4. CASE Proceed(r) \/ Fail(r)
    <2>1. ASSUME NEW label \in {"rotate", "user", "commit"},
                 req'[r] = [req[r] EXCEPT !.pc = label]
          PROVE  req'[r].token = req[r].token /\ req'[r].session = req[r].session
      BY <1>t, <2>1 DEF RequestState
    <2>2. ASSUME NEW row \in refresh_token_history,
                 req'[r] = [req[r] EXCEPT
                    !.pc = "revoke", !.session = row.session_id,
                    !.todo = {s \in VictimsOf(row) : ~ sessions[s].revoked}]
          PROVE  FALSE
      BY <1>t, <2>2 DEF RequestState, Rotates
    <2>3. ASSUME NEW x \in Session, At(r, "revoke"),
                 req'[r] = [req[r] EXCEPT
                    !.todo = @ \ {x},
                    !.revoking = IF Revoked(x) THEN @ ELSE @ \union {x}]
          PROVE  FALSE
      BY <1>t, <2>3 DEF RequestState, Rotates, At
    <2>4. CASE RefreshRecord(r) \/ RefreshRotate(r) \/ RefreshUser(r)
      <3>1. UNCHANGED sessions /\ Rotates(r)
        BY <2>4 DEF RefreshRecord, RefreshRotate, RefreshUser, Rotates, At
      <3>2. \E label \in {"rotate", "user", "commit"} :
              req'[r] = [req[r] EXCEPT !.pc = label]
        BY <1>i, <1>1, <1>4, <2>2, <2>3, ProceedMoves
      <3>3. QED
        BY <1>3, <2>1, <3>1, <3>2
    <2>5. QED
      BY <1>i, <1>1, <1>4, <2>2, <2>3, <2>4, ProceedMoves
  <1>5. CASE req'[r] = [req[r] EXCEPT !.shunned = req'[r].shunned]
    <2>1. /\ req'[r].pc = req[r].pc
          /\ req'[r].token = req[r].token
          /\ req'[r].session = req[r].session
      BY <1>5, <1>t DEF RequestState
    <2>2. Rotates(r)
      BY <2>1 DEF Rotates
    <2>3. CASE UNCHANGED sessions
      BY <1>3, <2>1, <2>2, <2>3
    <2>4. ASSUME NEW q \in Request,
                 Proceed(q)
          PROVE  HasHash(req[r].session, HashRefreshToken(req[r].token))'
      BY <1>4, <2>4 DEF OneSlot
    <2>5. ASSUME NEW x \in Session, Expire(x)
          PROVE  HasHash(req[r].session, HashRefreshToken(req[r].token))'
      <3>1. \A s \in Session : Exists(s) =>
              Exists(s)' /\ sessions'[s].refresh_token_hash
                                = sessions[s].refresh_token_hash
        BY <1>i, <2>5, TouchKeeps DEF Touches
      <3>2. QED
        BY <1>r, <2>1, <2>2, <3>1 DEF HasHash
    <2>6. QED
      BY <2>3, <2>4, <2>5 DEF Next, Environment, Arrive, LoginLookup, RefreshSelect,
         LogoutSelect, Fail, SetUserBanned, vars
  <1>6. QED
    BY <1>i, <1>2, <1>4, <1>5, SlotSteps

LEMMA FamilyInit == Init => FamilyInv
  <1> SUFFICES ASSUME Init PROVE FamilyInv
    OBVIOUS
  <1>1. \A r \in Request :
          /\ req[r].pc = "idle"
          /\ req[r].todo = {} /\ req[r].revoking = {} /\ req[r].before = {}
    BY DEF Init, Rest
  <1>2. QED
    BY <1>1, InvInit DEF FamilyInv, RevocationsSound, RevocationSound,
       CurrentInTurn, Rotates, At

LEMMA FamilyNext == FamilyInv /\ [Next]_vars => FamilyInv'
  BY InvNext, RevocationNext, TurnNext DEF FamilyInv

\* The invariant of this module holds in every state of every instance.
THEOREM FamilyInvariance == Spec => []FamilyInv
  BY FamilyInit, FamilyNext, PTL DEF Spec

-----------------------------------------------------------------------------
\* Who closes sessions.
LEMMA ClosingSteps ==
    ASSUME Inv, [Next]_vars, NEW s \in Session,
           Exists(s), ~ Revoked(s), Revoked(s)'
    PROVE  \/ \E r \in Request : RefreshReuseCommit(r) /\ s \in req[r].revoking
           \/ \E r \in Request : LogoutRevoke(r) /\ s = req[r].session
  <1>i. TypeOK /\ TokensHaveOrigin /\ RequestsSound
    BY DEF Inv
  <1>1. CASE TablesUnchanged
    BY <1>1 DEF TablesUnchanged, Revoked, Exists
  <1>2. ASSUME NEW r \in Request, NEW x \in Session, NEW t \in Token, Issue(r, x, t)
        PROVE  FALSE
    BY <1>i, <1>2, IssueWrites DEF Revoked, Exists
  <1>3. ASSUME NEW r \in Request, NEW t \in Token, RefreshCommit(r, t)
        PROVE  FALSE
    BY <1>i, <1>3, CommitWrites DEF Revoked, Exists
  <1>4. ASSUME NEW r \in Request, RefreshReuseCommit(r)
        PROVE  s \in req[r].revoking
    BY <1>4 DEF RefreshReuseCommit, Revoked, Exists
  <1>5. ASSUME NEW r \in Request, LogoutRevoke(r)
        PROVE  s = req[r].session
    BY <1>i, <1>5 DEF LogoutRevoke, Revoked, Exists, TypeOK
  <1>6. ASSUME NEW x \in Session, Expire(x)
        PROVE  FALSE
    <2>1. sessions[x] \in SessionRow
      BY <1>i, <1>6, RowTyped DEF Expire
    <2>2. QED
      BY <1>i, <1>6, <2>1 DEF Expire, Revoked, Exists, TypeOK, SessionRow
  <1>7. QED
    BY <1>1, <1>2, <1>3, <1>4, <1>5, <1>6, TableSteps DEF Touches

\* A commit of a replay leaves nothing of the victim open that was there when
\* the replay arrived.
LEMMA ReuseClosesAll ==
    ASSUME FamilyInv, [Next]_vars, NEW r \in Request, RefreshReuseCommit(r),
           NEW s \in Endangered(r)
    PROVE  Revoked(s)'
  <1>1. /\ s \in Session
        /\ s \in req[r].before
        /\ Exists(s)
    BY RequestTyped DEF Endangered, FamilyInv, Inv, RevocationsSound, RevocationSound
  <1>2. PICK i \in issued : /\ i.token = req[r].token
                            /\ sessions[i.session].user_id = sessions[s].user_id
    BY DEF Endangered
  <1>3. PICK j \in issued : j.token = req[r].token /\ j.session = req[r].session
    BY DEF FamilyInv, RevocationsSound, RevocationSound, RefreshReuseCommit, At
  <1>4. i = j
    BY <1>2, <1>3 DEF FamilyInv, Inv, TokensHaveOrigin
  <1>5. Revoked(s) \/ s \in req[r].revoking
    BY <1>1, <1>2, <1>3, <1>4
       DEF FamilyInv, RevocationsSound, RevocationSound, RefreshReuseCommit, At
  <1>6. CASE Revoked(s)
    BY <1>1, <1>6, RevokedStays DEF FamilyInv, Revoked
  <1>7. CASE s \in req[r].revoking
    <2>1. sessions[s] \in SessionRow
      BY <1>1, RowTyped DEF FamilyInv, Inv
    <2>2. /\ sessions'[s] = [sessions[s] EXCEPT !.revoked = TRUE]
          /\ sessions'[s] \in SessionRow
          /\ sessions'[s].revoked
      BY <1>1, <1>7, <2>1 DEF RefreshReuseCommit, SessionRow
    <2>3. QED
      BY <2>2, NoRowIsNoRow DEF Revoked, Exists
  <1>8. QED
    BY <1>5, <1>6, <1>7

\* However rotations, logouts and other replays interleave with the rows that
\* RevokeAllUserSessions visits, none of its user's sessions is left out.
THEOREM ReplaysCloseAll == Spec => ReuseRevokesSnapshot
  <1>1. FamilyInv /\ [Next]_vars =>
          [\A r \in Request :
             RefreshReuseCommit(r) => \A s \in Endangered(r) : Revoked(s)']_vars
    BY ReuseClosesAll
  <1>2. QED
    BY <1>1, FamilyInvariance, PTL DEF Spec, ReuseRevokesSnapshot

\* What a request that answers was doing, and what it answers.
LEMMA CommitAnswers ==
    ASSUME TypeOK, NEW r \in Request, RefreshReuseCommit(r) \/ LogoutRevoke(r)
    PROVE  /\ req[r].pc \in Waiting
           /\ req'[r].pc \in Resting
  BY DEF RefreshReuseCommit, LogoutRevoke, Answer, Rest, At, TypeOK, Waiting,
     Resting, Verdict

\* Nobody closes a session of another user: not by logging out, and not by
\* presenting a token that was used before.
THEOREM OnlyOwnTokensClose == Spec => OnlyOwnTokensRevoke
  <1> DEFINE Own(s) == \E r \in Request, i \in issued :
                          /\ req[r].pc \in Waiting /\ req'[r].pc \in Resting
                          /\ i.token = req[r].token
                          /\ sessions[i.session].user_id = sessions[s].user_id
  <1>1. ASSUME FamilyInv, [Next]_vars, NEW s \in Session,
               Exists(s), ~ Revoked(s), Revoked(s)'
        PROVE  Own(s)
    <2> USE <1>1 DEF FamilyInv
    <2>1. ASSUME NEW r \in Request, RefreshReuseCommit(r), s \in req[r].revoking
          PROVE  Own(s)
      <3>1. PICK i \in issued : i.token = req[r].token /\ i.session = req[r].session
        BY <2>1 DEF RevocationsSound, RevocationSound, RefreshReuseCommit
      <3>2. sessions[s].user_id = sessions[req[r].session].user_id
        BY <2>1 DEF RevocationsSound, RevocationSound, RefreshReuseCommit
      <3>3. req[r].pc \in Waiting /\ req'[r].pc \in Resting
        BY <2>1, CommitAnswers DEF Inv
      <3>4. QED
        BY <3>1, <3>2, <3>3
    <2>2. ASSUME NEW r \in Request, LogoutRevoke(r), s = req[r].session
          PROVE  Own(s)
      <3>1. PICK i \in issued : i.token = req[r].token /\ i.session = req[r].session
        BY <2>2 DEF LogoutRevoke, Inv, RequestsSound, RequestSound, Found, At
      <3>2. req[r].pc \in Waiting /\ req'[r].pc \in Resting
        BY <2>2, CommitAnswers DEF Inv
      <3>3. QED
        BY <2>2, <3>1, <3>2
    <2>3. QED
      BY <2>1, <2>2, ClosingSteps
  <1>2. FamilyInv /\ [Next]_vars =>
          [\A s \in Session :
             Exists(s) /\ ~ Revoked(s) /\ Revoked(s)' => Own(s)]_vars
    BY <1>1
  <1>3. QED
    BY <1>2, FamilyInvariance, PTL DEF Spec, OnlyOwnTokensRevoke

-----------------------------------------------------------------------------
\* What holds of requests that do not overlap.

\* Nothing of the tables changes but by these steps; here for one slot.
LEMMA OnceInit == Init => TokenExchangedOnce /\ OutgoingHashRecorded
  BY DEF Init, TokenExchangedOnce, OutgoingHashRecorded

LEMMA OnceNext ==
    ASSUME OneSlot, FamilyInv, TokenExchangedOnce, OutgoingHashRecorded, [Next]_vars
    PROVE  TokenExchangedOnce' /\ OutgoingHashRecorded'
  <1>i. TypeOK /\ TokensHaveOrigin /\ RequestsSound /\ HistoryExact /\ CurrentIsNeverUsed
    BY DEF FamilyInv, Inv
  <1>e. \A i \in issued : i.session \in Session /\ Exists(i.session)
    BY <1>i DEF TokensHaveOrigin, TypeOK
  <1>1. CASE TablesUnchanged
    BY <1>1 DEF TablesUnchanged, TokenExchangedOnce, OutgoingHashRecorded, UsedHashes,
       HasHash, Exists
  <1>2. ASSUME NEW r \in Request, NEW x \in Session, NEW t \in Token, Issue(r, x, t)
        PROVE  TokenExchangedOnce' /\ OutgoingHashRecorded'
    <2> DEFINE new == [token |-> t, from |-> NoToken, session |-> x]
    <2>1. issued' = issued \union {new} /\ UsedHashes' = UsedHashes
      BY <1>2 DEF Issue, UsedHashes
    <2>2. TokenExchangedOnce'
      BY <2>1 DEF TokenExchangedOnce
    <2>3. \A i \in issued : i.session # x /\ sessions'[i.session] = sessions[i.session]
      <3>1. /\ ~ Exists(x)
            /\ \A y \in Session \ {x} : sessions'[y] = sessions[y]
        BY <1>i, <1>2, IssueWrites
      <3>2. QED
        BY <1>e, <3>1
    <2>4. HasHash(x, HashRefreshToken(t))'
      BY <1>i, <1>2, IssueWrites DEF HasHash
    <2>5. \A i \in issued : HasHash(i.session, HashRefreshToken(i.token))
              => /\ sessions'[i.session] # NoRow
                 /\ sessions'[i.session].refresh_token_hash = HashRefreshToken(i.token)
      BY <2>3 DEF HasHash, Exists
    <2>6. OutgoingHashRecorded'
      BY <2>1, <2>4, <2>5 DEF OutgoingHashRecorded, HasHash, Exists
    <2>7. QED
      BY <2>2, <2>6
  <1>3. ASSUME NEW r \in Request, NEW t \in Token, RefreshCommit(r, t)
        PROVE  TokenExchangedOnce' /\ OutgoingHashRecorded'
    <2> DEFINE s == req[r].session
               p == req[r].token
               new == [token |-> t, from |-> p, session |-> s]
    <2>1. /\ issued' = issued \union {new}
          /\ refresh_token_history' = refresh_token_history \union Outgoing(r)
      BY <1>3 DEF RefreshCommit
    <2>2. HasHash(s, HashRefreshToken(p)) /\ s \in Session
      BY <1>i, <1>3, CommitWrites
         DEF FamilyInv, CurrentInTurn, Rotates, RefreshCommit, At
    <2>3. HashRefreshToken(p) \notin UsedHashes
      BY <1>i, <2>2 DEF CurrentIsNeverUsed, HasHash
    <2>4. \A i \in issued : i.from # p
      <3> SUFFICES ASSUME NEW i \in issued, i.from = p PROVE FALSE
        OBVIOUS
      <3>1. p # NoToken
        BY <1>i, <1>3, CommitWrites, NoTokenIsNoToken
      <3>2. [token_hash |-> HashRefreshToken(p), session_id |-> i.session]
               \in refresh_token_history
        BY <1>i, <3>1 DEF HistoryExact
      <3>3. QED
        BY <2>3, <3>2 DEF UsedHashes
    <2>5. TokenExchangedOnce'
      BY <2>1, <2>4 DEF TokenExchangedOnce
    <2>6. /\ UsedHashes \subseteq UsedHashes'
          /\ HashRefreshToken(p) \in UsedHashes'
      <3>1. [token_hash |-> HashRefreshToken(p), session_id |-> s] \in Outgoing(r)
        BY <2>3 DEF Outgoing
      <3>2. HashRefreshToken(p) \in UsedHashes'
        BY <2>1, <3>1 DEF UsedHashes
      <3>3. QED
        BY <2>1, <3>2 DEF UsedHashes
    <2>7. /\ sessions'[s] # NoRow
          /\ sessions'[s].refresh_token_hash = HashRefreshToken(t)
      BY <1>i, <1>3, CommitWrites
    <2>8. ASSUME NEW i \in issued
          PROVE  \/ HashRefreshToken(i.token) \in UsedHashes'
                 \/ /\ sessions'[i.session] # NoRow
                    /\ sessions'[i.session].refresh_token_hash
                          = HashRefreshToken(i.token)
      <3>1. CASE HashRefreshToken(i.token) \in UsedHashes
        BY <2>6, <3>1
      <3>2. CASE HasHash(i.session, HashRefreshToken(i.token)) /\ i.session = s
        BY <2>2, <2>6, <3>2 DEF HasHash
      <3>3. CASE HasHash(i.session, HashRefreshToken(i.token)) /\ i.session # s
        <4>1. sessions'[i.session] = sessions[i.session]
          BY <1>i, <1>e, <1>3, <3>3, CommitWrites
        <4>2. QED
          BY <3>3, <4>1 DEF HasHash, Exists
      <3>4. QED
        BY <3>1, <3>2, <3>3 DEF OutgoingHashRecorded
    <2>9. OutgoingHashRecorded'
      <3>1. new.session = s /\ new.token = t
        OBVIOUS
      <3> HIDE DEF s, new
      <3>2. \A i \in issued' :
              \/ HashRefreshToken(i.token) \in UsedHashes'
              \/ /\ sessions'[i.session] # NoRow
                 /\ sessions'[i.session].refresh_token_hash
                       = HashRefreshToken(i.token)
        BY <2>1, <2>7, <2>8, <3>1
      <3>3. QED
        BY <3>2 DEF OutgoingHashRecorded, HasHash, Exists
    <2>10. QED
      BY <2>5, <2>9
  <1>4. CASE Touches
    <2>1. /\ UNCHANGED <<refresh_token_history, issued>>
          /\ \A s \in Session : Exists(s) =>
                /\ Exists(s)'
                /\ sessions'[s].refresh_token_hash = sessions[s].refresh_token_hash
      BY <1>i, <1>4, TouchKeeps
    <2>2. QED
      BY <1>e, <2>1 DEF TokenExchangedOnce, OutgoingHashRecorded, UsedHashes, HasHash
  <1>5. QED
    BY <1>1, <1>2, <1>3, <1>4, TableSteps

\* Of requests one at a time, no token is exchanged twice ("rotated on every
\* use", internal/token/token.go), whatever fails.
THEOREM ExchangedOnceInTurn ==
    ASSUME OneSlot
    PROVE  Spec => []TokenExchangedOnce
  <1>1. FamilyInv /\ TokenExchangedOnce /\ OutgoingHashRecorded /\ [Next]_vars
           => (TokenExchangedOnce /\ OutgoingHashRecorded)'
    BY OnceNext
  <1>2. QED
    BY <1>1, OnceInit, FamilyInvariance, PTL DEF Spec

\* Of requests one at a time, every token that is not current any more is in
\* the history, so its replay is noticed.
THEOREM RecordedInTurn ==
    ASSUME OneSlot
    PROVE  Spec => []OutgoingHashRecorded
  <1>1. FamilyInv /\ TokenExchangedOnce /\ OutgoingHashRecorded /\ [Next]_vars
           => (TokenExchangedOnce /\ OutgoingHashRecorded)'
    BY OnceNext
  <1>2. QED
    BY <1>1, OnceInit, FamilyInvariance, PTL DEF Spec

\* Without faults "reuse" is said by the commit of a revocation only: a single
\* request waits for nobody, so it is no victim of a deadlock either.
LEMMA ReuseIsCommitted ==
    ASSUME OneSlot, ~ Faults, TypeOK, [Next]_vars, NEW r \in Request,
           req[r].pc \in Waiting, req'[r].pc = "reuse"
    PROVE  RefreshReuseCommit(r)
  <1>t. req[r] \in RequestState
    BY RequestTyped
  <1>1. \A q \in Request : Blockers(q) = {} /\ \A s \in Session : RowBlockers(q, s) = {}
    BY DEF OneSlot, Blockers, RowBlockers
  <1>2. ~ DeadlockVictim(r)
    <2>1. ASSUME NEW D \in SUBSET Request, WaitForEachOther(D) PROVE FALSE
      <3>1. PICK q \in D : /\ q \in Request
                          /\ \/ Blockers(q) \intersect D # {}
                             \/ \E s \in req[q].todo : RowBlockers(q, s) \intersect D # {}
        BY <2>1 DEF WaitForEachOther
      <3>2. req[q].todo \in SUBSET Session
        BY <3>1, RequestTyped
      <3>3. QED
        BY <1>1, <3>1, <3>2
    <2>2. QED
      BY <2>1 DEF DeadlockVictim, Deadlock
  <1>3. ~ Arrive(r)
    BY RestingIsNotWaiting DEF Arrive, LoginLookup, RefreshSelect, LogoutSelect
  <1>4. req'[r] # [req[r] EXCEPT !.shunned = req'[r].shunned]
    BY <1>t DEF RequestState, Waiting
  <1>5. ASSUME NEW verdict, Answer(r, verdict)
        PROVE  req'[r].pc = verdict
    BY <1>5 DEF Answer, Rest, TypeOK
  <1>6. ASSUME NEW label, Goto(r, label)
        PROVE  req'[r].pc = label
    BY <1>t, <1>6 DEF Goto, TypeOK, RequestState
  <1>7. ~ (RefreshRecord(r) \/ RefreshRotate(r) \/ RefreshUser(r))
    BY <1>5, <1>6 DEF RefreshRecord, RefreshRotate, RefreshUser
  <1>8. ~ (LogoutRevoke(r) \/ Fail(r))
    BY <1>5 DEF LogoutRevoke, Fail
  <1>9. ~ \E t \in Token : RefreshCommit(r, t) \/ \E s \in Session : Issue(r, s, t)
    BY <1>5 DEF RefreshCommit, Issue
  <1>10. ~ RefreshFindUsed(r)
    <2>1. ASSUME NEW row \in refresh_token_history,
                 req' = [req EXCEPT
                    ![r].pc = "revoke",
                    ![r].session = row.session_id,
                    ![r].todo = {s \in VictimsOf(row) : ~ sessions[s].revoked}]
          PROVE  FALSE
      BY <1>t, <2>1 DEF TypeOK, RequestState
    <2>2. QED
      BY <1>5, <2>1 DEF RefreshFindUsed
  <1>11. ASSUME NEW s \in Session, RevokeAllRow(r, s)
         PROVE  FALSE
    BY <1>t, <1>11 DEF RevokeAllRow, TypeOK, RequestState, At
  <1>12. QED
    BY <1>2, <1>3, <1>4, <1>7, <1>8, <1>9, <1>10, <1>11, SlotSteps DEF Proceed

\* Of requests one at a time of which none fails, whoever is told that all
\* sessions were revoked (auth_handlers.go) can rely on it.
THEOREM ReportedInTurn ==
    ASSUME OneSlot, ~ Faults
    PROVE  Spec => ReuseRevokesAll
  <1>1. FamilyInv /\ [Next]_vars =>
          [\A r \in Request :
             req[r].pc \in Waiting /\ req'[r].pc = "reuse"
                => \A s \in Endangered(r) : Revoked(s)']_vars
    BY ReuseIsCommitted, ReuseClosesAll DEF FamilyInv, Inv
  <1>2. QED
    BY <1>1, FamilyInvariance, PTL DEF Spec, ReuseRevokesAll

-----------------------------------------------------------------------------
\* What holds of a token when its refreshes overlap.

Exchanges(t) == {i \in issued : i.from = t}

\* Refreshes that found t to be current.
Refreshing(t) ==
    {r \in Request : /\ req[r].pc \in {"record", "rotate", "user", "commit"}
                     /\ req[r].token = t}

ExchangeBudgets ==
    /\ IsFiniteSet(issued)
    /\ \A t \in Token :
          Cardinality(Exchanges(t)) + Cardinality(Refreshing(t)) <= Cardinality(Request)

LEMMA CountsAreFinite ==
    ASSUME IsFiniteSet(issued), NEW t
    PROVE  /\ IsFiniteSet(Exchanges(t)) /\ IsFiniteSet(Refreshing(t))
           /\ Cardinality(Exchanges(t)) \in Nat /\ Cardinality(Refreshing(t)) \in Nat
           /\ Cardinality(Request) \in Nat
           /\ Cardinality(Refreshing(t)) <= Cardinality(Request)
  <1>1. Exchanges(t) \subseteq issued /\ Refreshing(t) \subseteq Request
    BY DEF Exchanges, Refreshing
  <1>2. QED
    BY <1>1, RequestsAreFinite, FS_Subset, FS_CardinalityType

\* A refresh that starts finds its token current.
LEMMA RefreshStarts ==
    ASSUME Inv, [Next]_vars, NEW t \in Token, NEW q \in Request, q \in Refreshing(t)'
    PROVE  \/ q \in Refreshing(t)
           \/ Arrive(q) /\ \E s \in Session : HasHash(s, HashRefreshToken(t))
  <1>i. TypeOK
    BY DEF Inv
  <1>r. req[q] \in RequestState
    BY <1>i, RequestTyped
  <1>q. req'[q].pc \in {"record", "rotate", "user", "commit"} /\ req'[q].token = t
    BY DEF Refreshing
  <1>1. CASE req'[q] = [req[q] EXCEPT !.shunned = req'[q].shunned]
    BY <1>r, <1>q, <1>1 DEF Refreshing, RequestState
  <1>2. CASE Rests(q)
    BY <1>q, <1>2 DEF Rests, Rest, Resting, Verdict
  <1>3. CASE Proceed(q) \/ Fail(q)
    <2>1. CASE \E label \in {"rotate", "user", "commit"} :
                 /\ req[q].pc \in {"record", "rotate", "user"}
                 /\ req'[q] = [req[q] EXCEPT !.pc = label]
      BY <1>r, <1>q, <2>1 DEF Refreshing, RequestState
    <2>2. CASE At(q, "used") /\ \E row \in refresh_token_history :
                 req'[q] = [req[q] EXCEPT
                    !.pc = "revoke", !.session = row.session_id,
                    !.todo = {s \in VictimsOf(row) : ~ sessions[s].revoked}]
      BY <1>r, <1>q, <2>2 DEF RequestState
    <2>3. CASE At(q, "revoke") /\ \E s \in Session :
                 req'[q] = [req[q] EXCEPT
                       !.todo = @ \ {s},
                       !.revoking = IF Revoked(s) THEN @ ELSE @ \union {s}]
      BY <1>r, <1>q, <2>3 DEF RequestState, At
    <2>4. QED
      BY <1>i, <1>2, <1>3, <2>1, <2>2, <2>3, ProceedMoves DEF At
  <1>4. CASE Arrive(q)
    <2>1. ASSUME NEW u \in User, req'[q] = [Begin(q, "issue") EXCEPT !.user = u]
          PROVE  FALSE
      BY <1>q, <2>1 DEF Begin, Rest
    <2>2. ASSUME NEW p, NEW s \in Session, NEW label \in {"record", "logout"},
                 req'[q] = [Begin(q, label) EXCEPT !.token = p, !.session = s]
          PROVE  p = t
      BY <1>q, <2>2 DEF Begin, Rest
    <2>3. ASSUME NEW p, req'[q] = [Begin(q, "used") EXCEPT
                              !.token = p, !.before = {s \in Session : Exists(s)}]
          PROVE  FALSE
      BY <1>q, <2>3 DEF Begin, Rest
    <2>4. QED
      BY <1>i, <1>2, <1>4, <2>1, <2>2, <2>3, ArriveMoves
  <1>5. QED
    BY <1>i, <1>1, <1>3, <1>4, SlotSteps

\* A current token was not exchanged yet.
LEMMA CurrentIsUnspent ==
    ASSUME Inv, NEW t \in Token, NEW s \in Session, HasHash(s, HashRefreshToken(t))
    PROVE  Exchanges(t) = {}
  <1> SUFFICES ASSUME NEW i \in issued, i.from = t PROVE FALSE
    BY DEF Exchanges
  <1>1. [token_hash |-> HashRefreshToken(t), session_id |-> i.session]
           \in refresh_token_history
    BY NoTokenIsNoToken DEF Inv, HistoryExact
  <1>2. HashRefreshToken(t) \in UsedHashes
    BY <1>1 DEF UsedHashes
  <1>3. QED
    BY <1>2 DEF Inv, CurrentIsNeverUsed, HasHash

\* A step that exchanges nothing for t.
LEMMA BudgetStays ==
    ASSUME Inv, ExchangeBudgets, [Next]_vars, NEW t \in Token,
           Exchanges(t)' = Exchanges(t)
    PROVE  Cardinality(Exchanges(t)') + Cardinality(Refreshing(t)')
               <= Cardinality(Request)
  <1> DEFINE S == Refreshing(t)
             T == Refreshing(t)'
  <1>1. T \subseteq Request /\ S \subseteq Request
    BY DEF Refreshing
  <1>2. /\ Cardinality(T) \in Nat /\ Cardinality(T) <= Cardinality(Request)
        /\ IsFiniteSet(S)
    BY <1>1, RequestsAreFinite, FS_Subset, FS_CardinalityType
  <1>3. /\ Cardinality(Exchanges(t)) \in Nat /\ Cardinality(S) \in Nat
        /\ Cardinality(Request) \in Nat
        /\ Cardinality(Exchanges(t)) + Cardinality(S) <= Cardinality(Request)
    BY CountsAreFinite DEF ExchangeBudgets
  <1>4. CASE T \subseteq S
    <2>1. Cardinality(T) <= Cardinality(S)
      BY <1>2, <1>4, FS_Subset
    <2> HIDE DEF S, T
    <2>2. QED
      BY <1>2, <1>3, <2>1 DEF T
  <1>5. CASE \E s \in Session : HasHash(s, HashRefreshToken(t))
    <2>1. Exchanges(t) = {}
      BY <1>5, CurrentIsUnspent
    <2>2. Cardinality(Exchanges(t)') = 0
      BY <2>1, FS_EmptySet
    <2> HIDE DEF S, T
    <2>3. QED
      BY <1>2, <1>3, <2>2 DEF T
  <1>6. QED
    BY <1>1, <1>4, <1>5, RefreshStarts

\* The commit of a refresh takes it from those under way.
LEMMA BudgetIsUsed ==
    ASSUME Inv, ExchangeBudgets, [Next]_vars, NEW r \in Request, NEW new \in Token,
           RefreshCommit(r, new), NEW t \in Token, req[r].token = t
    PROVE  Cardinality(Exchanges(t)') + Cardinality(Refreshing(t)')
               <= Cardinality(Request)
  <1> DEFINE S == Refreshing(t)
             T == Refreshing(t)'
             more == [token |-> new, from |-> t, session |-> req[r].session]
             E == Exchanges(t)
             F == Exchanges(t)'
  <1>i. TypeOK
    BY DEF Inv
  <1>1. r \in S
    BY DEF Refreshing, RefreshCommit, At
  <1>2. T \subseteq S \ {r}
    <2>1. \A q \in Request \ {r} : req'[q] = req[q]
      BY <1>i, OthersKeep DEF Proceed
    <2>2. req'[r].pc \in Resting
      BY <1>i, RestFields DEF RefreshCommit, Answer, TypeOK, Rests, Rest, Resting, Verdict
    <2>3. QED
      BY <2>1, <2>2 DEF Refreshing, Resting, Verdict
  <1>3. F \subseteq E \union {more}
    BY DEF RefreshCommit, Exchanges
  <1>4. /\ IsFiniteSet(E) /\ IsFiniteSet(S)
        /\ Cardinality(E) \in Nat /\ Cardinality(S) \in Nat
        /\ Cardinality(Request) \in Nat
        /\ Cardinality(E) + Cardinality(S) <= Cardinality(Request)
    BY CountsAreFinite DEF ExchangeBudgets
  <1> HIDE DEF S, T, E, F, more
  <1>5. /\ IsFiniteSet(S \ {r}) /\ Cardinality(S \ {r}) = Cardinality(S) - 1
    BY <1>1, <1>4, FS_RemoveElement
  <1>6. Cardinality(T) \in Nat /\ Cardinality(T) <= Cardinality(S) - 1
    BY <1>2, <1>5, FS_Subset, FS_CardinalityType
  <1>7. /\ IsFiniteSet(E \union {more})
        /\ Cardinality(E \union {more}) \in Nat
        /\ Cardinality(E \union {more}) <= Cardinality(E) + 1
    <2>1. /\ IsFiniteSet(E \union {more})
          /\ Cardinality(E \union {more})
                = IF more \in E THEN Cardinality(E) ELSE Cardinality(E) + 1
      BY <1>4, FS_AddElement, Zenon
    <2>2. Cardinality(E \union {more}) \in Nat
      BY <2>1, FS_CardinalityType, Zenon
    <2>3. QED
      BY <1>4, <2>1, <2>2
  <1>8. Cardinality(F) \in Nat /\ Cardinality(F) <= Cardinality(E \union {more})
    BY <1>3, <1>7, FS_Subset, FS_CardinalityType
  <1>9. Cardinality(F) + Cardinality(T) <= Cardinality(Request)
    BY <1>4, <1>6, <1>7, <1>8
  <1>10. QED
    BY <1>9 DEF F, T

LEMMA BudgetsNext ==
    ASSUME Inv, ExchangeBudgets, [Next]_vars
    PROVE  ExchangeBudgets'
  <1>i. TypeOK /\ TokensHaveOrigin /\ RequestsSound
    BY DEF Inv
  <1>1. IsFiniteSet(issued')
    <2>1. ASSUME NEW x, issued' = issued \union {x}
          PROVE  IsFiniteSet(issued')
      BY <2>1, FS_AddElement DEF ExchangeBudgets
    <2>2. CASE Touches
      BY <1>i, <2>2, TouchKeeps DEF ExchangeBudgets
    <2>3. QED
      BY <2>1, <2>2, TableSteps DEF TablesUnchanged, ExchangeBudgets, Issue, RefreshCommit
  <1>2. ASSUME NEW t \in Token
        PROVE  Cardinality(Exchanges(t)') + Cardinality(Refreshing(t)')
                   <= Cardinality(Request)
    <2>1. CASE \E r \in Request, new \in Token :
                  RefreshCommit(r, new) /\ req[r].token = t
      BY <2>1, BudgetIsUsed
    <2>2. ASSUME NEW x, x.from # t, issued' = issued \union {x}
          PROVE  Exchanges(t)' = Exchanges(t)
      BY <2>2 DEF Exchanges
    <2>3. CASE Touches
      BY <1>i, <2>3, TouchKeeps, BudgetStays DEF Exchanges
    <2>4. CASE TablesUnchanged
      BY <2>4, BudgetStays DEF TablesUnchanged, Exchanges
    <2>5. ASSUME NEW r \in Request, NEW s \in Session, NEW new \in Token, Issue(r, s, new)
          PROVE  Exchanges(t)' = Exchanges(t)
      <3> DEFINE x == [token |-> new, from |-> NoToken, session |-> s]
      <3>1. x.from # t /\ issued' = issued \union {x}
        BY <2>5, NoTokenIsNoToken DEF Issue
      <3> HIDE DEF x
      <3>2. QED
        BY <2>2, <3>1
    <2>6. ASSUME NEW r \in Request, NEW new \in Token, RefreshCommit(r, new),
                 req[r].token # t
          PROVE  Exchanges(t)' = Exchanges(t)
      <3> DEFINE x == [token |-> new, from |-> req[r].token,
                       session |-> req[r].session]
      <3>1. x.from # t /\ issued' = issued \union {x}
        BY <2>6 DEF RefreshCommit
      <3> HIDE DEF x
      <3>2. QED
        BY <2>2, <3>1
    <2>7. QED
      BY <2>1, <2>3, <2>4, <2>5, <2>6, BudgetStays, TableSteps
  <1>3. QED
    BY <1>1, <1>2 DEF ExchangeBudgets

\* A token is exchanged at most as often as refreshes can overlap, whatever else
\* happens: once the first exchange is committed no refresh finds it current.
THEOREM ExchangesAreBounded == Spec => []ExchangesBounded
  <1>1. Init => ExchangeBudgets
    <2> SUFFICES ASSUME Init
                 PROVE  /\ IsFiniteSet(issued)
                        /\ \A t \in Token : Cardinality(Exchanges(t))
                              + Cardinality(Refreshing(t)) <= Cardinality(Request)
      BY DEF ExchangeBudgets
    <2>1. issued = {} /\ IsFiniteSet(issued)
      BY FS_EmptySet DEF Init
    <2>2. ASSUME NEW t \in Token
          PROVE  Exchanges(t) = {} /\ Cardinality(Exchanges(t)) = 0
      BY <2>1, FS_EmptySet DEF Exchanges
    <2>3. \A t \in Token : /\ Cardinality(Refreshing(t)) \in Nat
                           /\ Cardinality(Refreshing(t)) <= Cardinality(Request)
      BY <2>1, CountsAreFinite
    <2>4. QED
      BY <2>1, <2>2, <2>3
  <1>2. Inv /\ ExchangeBudgets /\ [Next]_vars => ExchangeBudgets'
    BY BudgetsNext
  <1>3. ExchangeBudgets => ExchangesBounded
    <2> SUFFICES ASSUME ExchangeBudgets, NEW t \in Token
                 PROVE  Cardinality(Exchanges(t)) <= Cardinality(Request)
      BY DEF ExchangesBounded, Exchanges
    <2>1. QED
      BY CountsAreFinite DEF ExchangeBudgets
  <1>4. QED
    BY <1>1, <1>2, <1>3, Invariance, PTL DEF Spec

-----------------------------------------------------------------------------
\* The refinement.

LEMMA TokenOfHash ==
    ASSUME NEW t \in Token
    PROVE  TokenOf(HashRefreshToken(t)) = t
  BY HashInjective DEF TokenOf

\* Logouts and replays close families; nothing else about them changes.
LEMMA TouchCloses ==
    ASSUME Inv, Touches
    PROVE  /\ UNCHANGED <<SessionOwner, SessionFamily, CurrentToken, SpentTokens>>
           /\ ClosedSessions \subseteq ClosedSessions'
  <1>1. /\ UNCHANGED <<refresh_token_history, issued>>
        /\ \A s \in Session :
             /\ Exists(s)' <=> Exists(s)
             /\ Exists(s) =>
                  /\ sessions'[s].user_id = sessions[s].user_id
                  /\ sessions'[s].refresh_token_hash = sessions[s].refresh_token_hash
                  /\ sessions[s].revoked => sessions'[s].revoked
    BY TouchKeeps DEF Inv
  <1>2. SessionOwner' = SessionOwner
    BY <1>1 DEF SessionOwner
  <1>3. SessionFamily' = SessionFamily
    BY <1>1 DEF SessionFamily
  <1>4. CurrentToken' = CurrentToken
    BY <1>1 DEF CurrentToken
  <1>5. SpentTokens' = SpentTokens
    BY <1>1 DEF SpentTokens, UsedHashes
  <1>6. ClosedSessions \subseteq ClosedSessions'
    BY <1>1 DEF ClosedSessions, Revoked
  <1>7. QED
    BY <1>2, <1>3, <1>4, <1>5, <1>6

LEMMA CloseStep ==
    ASSUME Inv, Touches, NEW u \in User,
           \A s \in ClosedSessions' \ ClosedSessions :
              Exists(s) /\ sessions[s].user_id = u
    PROVE  Families!Next
  <1> DEFINE gone == ClosedSessions' \ ClosedSessions
  <1>1. gone \in SUBSET Session
    BY DEF ClosedSessions
  <1>2. \A s \in gone : SessionOwner[s] = u /\ u # NoUser /\ s \notin ClosedSessions
    BY <1>1, NoUserIsNoUser DEF SessionOwner
  <1>3. ClosedSessions' = ClosedSessions \union gone
    BY TouchCloses
  <1>4. UNCHANGED <<SessionOwner, SessionFamily, CurrentToken, SpentTokens>>
    BY TouchCloses
  <1> HIDE DEF gone
  <1>5. Families!Close(u, gone)
    BY <1>2, <1>3, <1>4 DEF Families!Close, Families!IsOpen
  <1>6. QED
    BY <1>1, <1>5 DEF Families!Next

LEMMA OpenStep ==
    ASSUME Inv, NEW r \in Request, NEW x \in Session, NEW t \in Token,
           Issue(r, x, t)
    PROVE  Families!Next
  <1> DEFINE u == req[r].user
             new == [token |-> t, from |-> NoToken, session |-> x]
  <1>1. /\ u \in User
        /\ t \notin IssuedTokens
        /\ issued' = issued \union {new}
        /\ UsedHashes' = UsedHashes
    BY DEF Issue, Inv, RequestsSound, RequestSound, UsedHashes
  <1>2. /\ ~ Exists(x) /\ Exists(x)'
        /\ sessions'[x].user_id = u
        /\ sessions'[x].refresh_token_hash = HashRefreshToken(t)
        /\ sessions'[x].revoked = FALSE
        /\ \A other \in Session \ {x} : sessions'[other] = sessions[other]
    BY IssueWrites DEF Inv
  <1>3. \A i \in issued : i.session # x
    BY <1>2 DEF Inv, TokensHaveOrigin
  <1>4. new.session = x /\ new.token = t
    OBVIOUS
  <1> HIDE DEF new, u
  <1>5. SessionOwner[x] = NoUser
    BY <1>2 DEF SessionOwner
  <1>6. \A s \in Session : t \notin SessionFamily[s]
    BY <1>1 DEF SessionFamily, IssuedTokens
  <1>7. SessionOwner' = [SessionOwner EXCEPT ![x] = u]
    BY <1>2 DEF SessionOwner, Exists
  <1>8. SessionFamily' = [SessionFamily EXCEPT ![x] = {t}]
    <2>1. ASSUME NEW s \in Session \ {x}
          PROVE  {j \in issued' : j.session = s} = {j \in issued : j.session = s}
      BY <1>1, <1>4, <2>1
    <2>2. {i.token : i \in {j \in issued' : j.session = x}} = {t}
      <3>1. {j \in issued' : j.session = x} = {new}
        BY <1>1, <1>3, <1>4
      <3>2. QED
        BY <1>4, <3>1
    <2>3. SessionFamily'[x] = {t}
      BY <2>2 DEF SessionFamily
    <2>4. \A s \in Session \ {x} : SessionFamily'[s] = SessionFamily[s]
      BY <2>1 DEF SessionFamily
    <2>5. /\ SessionFamily = [s \in Session |-> SessionFamily[s]]
          /\ SessionFamily' = [s \in Session |-> SessionFamily'[s]]
      BY DEF SessionFamily
    <2>6. QED
      BY <2>3, <2>4, <2>5
  <1>9. CurrentToken' = [CurrentToken EXCEPT ![x] = t]
    BY <1>2, TokenOfHash DEF CurrentToken, Exists
  <1>10. SpentTokens' = SpentTokens
    BY <1>1 DEF SpentTokens
  <1>11. ClosedSessions' = ClosedSessions
    BY <1>2 DEF ClosedSessions, Revoked, Exists
  <1>12. Families!Open(x, u, t)
    BY <1>5, <1>6, <1>7, <1>8, <1>9, <1>10, <1>11 DEF Families!Open, Families!Fresh
  <1>13. QED
    BY <1>1, <1>12 DEF Families!Next

LEMMA ExchangeStep ==
    ASSUME FamilyInv, NEW r \in Request, NEW t \in Token, RefreshCommit(r, t)
    PROVE  Families!Next
  <1> DEFINE p == req[r].token
             new == [token |-> t, from |-> p, session |-> req[r].session]
  <1>i. TypeOK /\ TokensHaveOrigin /\ RequestsSound
    BY DEF FamilyInv, Inv
  <1> PICK x \in Session : x = req[r].session
    BY <1>i, CommitWrites
  <1>1. /\ t \notin IssuedTokens
        /\ issued' = issued \union {new}
        /\ refresh_token_history' = refresh_token_history \union Outgoing(r)
    BY DEF RefreshCommit
  <1>2. /\ Exists(x) /\ Exists(x)'
        /\ sessions'[x].user_id = sessions[x].user_id
        /\ sessions'[x].refresh_token_hash = HashRefreshToken(t)
        /\ sessions'[x].revoked = sessions[x].revoked
        /\ \A other \in Session \ {x} : sessions'[other] = sessions[other]
        /\ p \in Token
        /\ \E i \in issued : i.token = p /\ i.session = x
    BY <1>i, CommitWrites DEF Exists
  <1>3. new.session = x /\ new.token = t
    OBVIOUS
  <1>4. ~ Revoked(x)
    BY DEF FamilyInv, Inv, RotationExcludesRevocation, HoldsRotate, RefreshCommit, At
  <1>5. OneSlot => HasHash(x, HashRefreshToken(p))
    BY DEF FamilyInv, CurrentInTurn, Rotates, RefreshCommit, At
  <1>6. SpentTokens' = SpentTokens \union {p}
    <2>1. ASSUME NEW h
          PROVE  h \in UsedHashes' <=> h \in UsedHashes \/ h = HashRefreshToken(p)
      <3>1. CASE HashRefreshToken(p) \in UsedHashes
        <4>1. Outgoing(r) = {}
          BY <3>1 DEF Outgoing
        <4>2. QED
          BY <1>1, <3>1, <4>1 DEF UsedHashes
      <3>2. CASE HashRefreshToken(p) \notin UsedHashes
        <4> DEFINE row == [token_hash |-> HashRefreshToken(p),
                           session_id |-> req[r].session]
        <4>1. Outgoing(r) = {row}
          BY <3>2 DEF Outgoing
        <4>2. row.token_hash = HashRefreshToken(p)
          OBVIOUS
        <4> HIDE DEF row
        <4>3. QED
          BY <1>1, <4>1, <4>2 DEF UsedHashes
      <3>3. QED
        BY <3>1, <3>2
    <2> HIDE DEF p
    <2>2. \A y \in Token : HashRefreshToken(y) = HashRefreshToken(p) <=> y = p
      BY HashInjective
    <2>3. \A y \in Token : HashRefreshToken(y) \in UsedHashes'
              <=> HashRefreshToken(y) \in UsedHashes \/ y = p
      BY <2>1, <2>2
    <2>4. SpentTokens' = {y \in Token : HashRefreshToken(y) \in UsedHashes'}
      BY DEF SpentTokens
    <2>5. QED
      BY <1>2, <2>3, <2>4 DEF SpentTokens
  <1> HIDE DEF new, p
  <1>7. SessionOwner[x] # NoUser /\ x \notin ClosedSessions
    <2>1. sessions[x].user_id \in User
      BY <1>i, <1>2, RowTyped
    <2>2. QED
      BY <1>2, <1>4, <2>1, NoUserIsNoUser DEF SessionOwner, ClosedSessions
  <1>8. p \in SessionFamily[x]
    BY <1>2 DEF SessionFamily
  <1>9. OneSlot => p = CurrentToken[x]
    BY <1>2, <1>5, TokenOfHash DEF CurrentToken, HasHash
  <1>10. \A s \in Session : t \notin SessionFamily[s]
    BY <1>1 DEF SessionFamily, IssuedTokens
  <1>11. SessionFamily' = [SessionFamily EXCEPT ![x] = @ \union {t}]
    <2>1. ASSUME NEW s \in Session \ {x}
          PROVE  {j \in issued' : j.session = s} = {j \in issued : j.session = s}
      BY <1>1, <1>3, <2>1
    <2>2. {j \in issued' : j.session = x} = {j \in issued : j.session = x} \union {new}
      BY <1>1, <1>3
    <2>3. {i.token : i \in {j \in issued : j.session = x} \union {new}}
             = {i.token : i \in {j \in issued : j.session = x}} \union {t}
      BY <1>3
    <2>4. SessionFamily'[x] = SessionFamily[x] \union {t}
      BY <2>2, <2>3 DEF SessionFamily
    <2>5. \A s \in Session \ {x} : SessionFamily'[s] = SessionFamily[s]
      BY <2>1 DEF SessionFamily
    <2>6. /\ SessionFamily = [s \in Session |-> SessionFamily[s]]
          /\ SessionFamily' = [s \in Session |-> SessionFamily'[s]]
      BY DEF SessionFamily
    <2>7. QED
      BY <2>4, <2>5, <2>6
  <1>12. CurrentToken' = [CurrentToken EXCEPT ![x] = t]
    BY <1>2, TokenOfHash DEF CurrentToken, Exists
  <1>13. SessionOwner' = SessionOwner
    BY <1>2 DEF SessionOwner, Exists
  <1>14. ClosedSessions' = ClosedSessions
    BY <1>2 DEF ClosedSessions, Revoked, Exists
  <1>15. Families!Exchange(x, p, t)
    BY <1>6, <1>7, <1>8, <1>9, <1>10, <1>11, <1>12, <1>13, <1>14
       DEF Families!Exchange, Families!IsOpen, Families!Fresh, OneSlot
  <1>16. QED
    BY <1>2, <1>15 DEF Families!Next

LEMMA FamiliesStep ==
    ASSUME FamilyInv, [Next]_vars
    PROVE  [Families!Next]_(Families!vars)
  <1>i. Inv /\ TypeOK /\ TokensHaveOrigin /\ RequestsSound
    BY DEF FamilyInv, Inv
  <1>1. CASE TablesUnchanged
    <2>1. UNCHANGED <<SessionOwner, SessionFamily, CurrentToken, SpentTokens,
                      ClosedSessions>>
      BY <1>1 DEF TablesUnchanged, SessionOwner, SessionFamily, CurrentToken,
         SpentTokens, ClosedSessions, Exists, Revoked, UsedHashes
    <2>2. QED
      BY <2>1 DEF Families!vars
  <1>2. CASE \E r \in Request, s \in Session, t \in Token : Issue(r, s, t)
    BY <1>2, OpenStep DEF FamilyInv
  <1>3. CASE \E r \in Request, t \in Token : RefreshCommit(r, t)
    BY <1>3, ExchangeStep
  <1>4. CASE Touches /\ ClosedSessions' = ClosedSessions
    BY <1>4, <1>i, TouchCloses DEF Families!vars
  <1>5. CASE Touches /\ ClosedSessions' # ClosedSessions
    <2>1. PICK s0 \in Session : ~ Revoked(s0) /\ Revoked(s0)'
      <3>1. ClosedSessions \subseteq ClosedSessions'
        BY <1>5, <1>i, TouchCloses
      <3>2. QED
        BY <1>5, <3>1 DEF ClosedSessions
    <2>2. \A s \in Session : Exists(s)' <=> Exists(s)
      BY <1>5, <1>i, TouchKeeps
    <2>3. ASSUME NEW s \in Session, ~ Revoked(s), Revoked(s)'
          PROVE  /\ Exists(s)
                 /\ \/ \E r \in Request : RefreshReuseCommit(r) /\ s \in req[r].revoking
                    \/ \E r \in Request : LogoutRevoke(r) /\ s = req[r].session
      <3>1. Exists(s)
        BY <2>2, <2>3 DEF Revoked
      <3>2. QED
        BY <1>i, <2>3, <3>1, ClosingSteps
    <2>4. ASSUME NEW r \in Request, RefreshReuseCommit(r)
          PROVE  Families!Next
      <3>1. /\ req[r].session \in Session
            /\ Exists(req[r].session)
            /\ \A s \in req[r].revoking :
                  sessions[s].user_id = sessions[req[r].session].user_id
        BY <1>i, <2>4 DEF FamilyInv, RevocationsSound, RevocationSound, TokensHaveOrigin,
           TypeOK, RefreshReuseCommit
      <3>2. sessions[req[r].session].user_id \in User
        BY <1>i, <3>1, RowTyped
      <3>3. \A s \in ClosedSessions' \ ClosedSessions :
              Exists(s) /\ sessions[s].user_id = sessions[req[r].session].user_id
        <4>1. \A s \in ClosedSessions' \ ClosedSessions :
                 s \in req[r].revoking
          BY <2>4 DEF RefreshReuseCommit, ClosedSessions, Revoked, Exists
        <4>2. \A s \in ClosedSessions' \ ClosedSessions : Exists(s)
          BY <2>3 DEF ClosedSessions
        <4>3. QED
          BY <3>1, <4>1, <4>2
      <3>4. PICK u \in User : u = sessions[req[r].session].user_id
        BY <3>2
      <3>5. QED
        BY <1>i, <1>5, <3>3, <3>4, CloseStep
    <2>5. ASSUME NEW r \in Request, LogoutRevoke(r)
          PROVE  Families!Next
      <3>1. req[r].session \in Session /\ Exists(req[r].session)
        BY <1>i, <2>5, FoundExists DEF LogoutRevoke, At, Found, RequestsSound
      <3>2. sessions[req[r].session].user_id \in User
        BY <1>i, <3>1, RowTyped
      <3>3. \A s \in ClosedSessions' \ ClosedSessions : s = req[r].session
        BY <1>i, <2>5 DEF LogoutRevoke, ClosedSessions, Revoked, Exists, TypeOK
      <3>4. PICK u \in User : u = sessions[req[r].session].user_id
        BY <3>2
      <3>5. QED
        BY <1>i, <1>5, <3>1, <3>3, <3>4, CloseStep
    <2>6. QED
      BY <2>1, <2>3, <2>4, <2>5
  <1>6. QED
    BY <1>1, <1>2, <1>3, <1>4, <1>5, TableSteps, <1>i

\* The two tables, with every interleaving of their readers and writers, are
\* families of tokens: opened by a login, handed on one token at a time,
\* closed for good.
THEOREM TablesImplementFamilies == Spec => ImplementsFamilies
  <1>1. Init => Families!Init
    <2> SUFFICES ASSUME Init PROVE Families!Init
      OBVIOUS
    <2>1. \A s \in Session : ~ Exists(s)
      BY DEF Init, Exists
    <2>2. issued = {} /\ UsedHashes = {}
      BY DEF Init, UsedHashes
    <2>3. QED
      BY <2>1, <2>2 DEF Families!Init, SessionOwner, SessionFamily, CurrentToken,
         SpentTokens, ClosedSessions, Revoked
  <1>2. FamilyInv /\ [Next]_vars => [Families!Next]_(Families!vars)
    BY FamiliesStep
  <1>3. QED
    BY <1>1, <1>2, FamilyInvariance, PTL DEF Spec, Families!Spec, ImplementsFamilies
=============================================================================
