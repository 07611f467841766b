--------------------------- MODULE DeadlockProofs ---------------------------
(***************************************************************************)
(* Which requests of Sessions can wait for each other in a cycle: replays  *)
(* of tokens of one user, or refreshes of one session after overlapping    *)
(* exchanges, and nobody else.                                             *)
(***************************************************************************)
EXTENDS FamiliesProofs

-----------------------------------------------------------------------------
\* The unique index of the history: the uncommitted inserts are of different
\* tokens.
InsertsApart ==
    \A q, r \in Request :
        q # r /\ Inserted(q) /\ Inserted(r) => req[q].token # req[r].token

WaitInv == FamilyInv /\ InsertsApart

-----------------------------------------------------------------------------
LEMMA HistoryGrows ==
    ASSUME Inv, [Next]_vars
    PROVE  UsedHashes \subseteq UsedHashes'
  <1>1. TypeOK /\ TokensHaveOrigin /\ RequestsSound
    BY DEF Inv
  <1>2. refresh_token_history \subseteq refresh_token_history'
    <2>1. CASE Touches
      BY <1>1, <2>1, TouchKeeps
    <2>2. QED
      BY <2>1, TableSteps DEF TablesUnchanged, Issue, RefreshCommit
  <1>3. QED
    BY <1>2 DEF UsedHashes

\* An uncommitted insert is there already, or this step makes it.
LEMMA InsertAppears ==
    ASSUME Inv, [Next]_vars, NEW r \in Request, Inserted(r)'
    PROVE  /\ req'[r].token = req[r].token
           /\ \/ Inserted(r)
              \/ /\ RefreshRecord(r)
                 /\ At(r, "record")
                 /\ HashRefreshToken(req[r].token) \notin UsedHashes
  <1>i. TypeOK
    BY DEF Inv
  <1>t. req[r] \in RequestState
    BY <1>i, RequestTyped
  <1>p. req'[r].pc \in {"rotate", "user", "commit"}
        /\ HashRefreshToken(req'[r].token) \notin UsedHashes
    BY HistoryGrows DEF Inserted
  <1>1. ~ Rests(r)
    BY <1>p, RestFields DEF Resting, Verdict
  <1>2. CASE Arrive(r)
    <2>1. ASSUME NEW u \in User, req'[r] = [Begin(r, "issue") EXCEPT !.user = u]
          PROVE  FALSE
      BY <1>p, <2>1 DEF Begin, Rest
    <2>2. ASSUME NEW t \in Presentable, NEW s \in Session,
                 NEW label \in {"record", "logout"},
                 req'[r] = [Begin(r, label) EXCEPT !.token = t, !.session = s]
          PROVE  FALSE
      BY <1>p, <2>2 DEF Begin, Rest
    <2>3. ASSUME NEW t \in Presentable,
                 req'[r] = [Begin(r, "used") EXCEPT
                              !.token = t, !.before = {s \in Session : Exists(s)}]
          PROVE  FALSE
      BY <1>p, <2>3 DEF Begin, Rest
    <2>4. QED
      BY <1>i, <1>1, <1>2, <2>1, <2>2, <2>3, ArriveMoves
  <1>3. ASSUME req'[r].pc = req[r].pc, req'[r].token = req[r].token
        PROVE  Inserted(r)
    BY <1>p, <1>3 DEF Inserted
  <1>4. CASE req'[r] = [req[r] EXCEPT !.shunned = req'[r].shunned]
    BY <1>t, <1>3, <1>4 DEF RequestState
  <1>5. CASE Proceed(r) \/ Fail(r)
    <2>1. ASSUME NEW label, req'[r] = [req[r] EXCEPT !.pc = label]
          PROVE  req'[r].token = req[r].token
      BY <1>t, <2>1 DEF RequestState
    <2>2. ASSUME NEW row \in refresh_token_history, RefreshFindUsed(r),
                 req'[r] = [req[r] EXCEPT
                    !.pc = "revoke", !.session = row.session_id,
                    !.todo = {s \in VictimsOf(row) : ~ sessions[s].revoked}]
          PROVE  FALSE
      BY <1>t, <1>p, <2>2 DEF RequestState
    <2>3. ASSUME NEW x \in Session, At(r, "revoke"),
                 req'[r] = [req[r] EXCEPT
                    !.todo = @ \ {x},
                    !.revoking = IF Revoked(x) THEN @ ELSE @ \union {x}]
          PROVE  FALSE
      BY <1>t, <1>p, <2>3 DEF RequestState, At
    <2>4. CASE RefreshRecord(r) /\ At(r, "record")
               /\ req'[r] = [req[r] EXCEPT !.pc = "rotate"]
      BY <1>p, <2>1, <2>4
    <2>5. ASSUME NEW from \in {"rotate", "user"}, NEW label,
                 At(r, from), req'[r] = [req[r] EXCEPT !.pc = label]
          PROVE  req'[r].token = req[r].token /\ Inserted(r)
      BY <1>p, <2>1, <2>5 DEF Inserted, At
    <2>6. QED
      BY <1>i, <1>1, <1>5, <2>2, <2>3, <2>4, <2>5, ProceedMoves
  <1>6. QED
    BY <1>i, <1>2, <1>3, <1>4, <1>5, SlotSteps

LEMMA InsertsNext ==
    ASSUME Inv, InsertsApart, [Next]_vars
    PROVE  InsertsApart'
  <1> SUFFICES ASSUME NEW q \in Request, NEW r \in Request, q # r,
                      Inserted(q)', Inserted(r)'
               PROVE  req'[q].token # req'[r].token
    BY DEF InsertsApart
  <1>1. ASSUME NEW x \in Request, NEW y \in Request, x # y,
               RefreshRecord(x), Inserted(y)', At(x, "record"),
               HashRefreshToken(req[x].token) \notin UsedHashes
        PROVE  req[x].token # req[y].token
    <2>1. req'[y] = req[y]
      BY <1>1, OthersKeep DEF Proceed, Inv
    <2>2. Inserted(y)
      BY <1>1, <2>1, HistoryGrows DEF Inserted
    <2>3. y \notin Blockers(x)
      BY <1>1 DEF RefreshRecord
    <2>4. QED
      BY <1>1, <2>2, <2>3 DEF Blockers
  <1>2. QED
    BY <1>1, InsertAppears DEF InsertsApart

LEMMA WaitInit == Init => WaitInv
  <1>1. Init => InsertsApart
    BY DEF Init, InsertsApart, Inserted, Rest
  <1>2. QED
    BY <1>1, FamilyInit DEF WaitInv

LEMMA WaitNext == WaitInv /\ [Next]_vars => WaitInv'
  BY FamilyNext, InsertsNext DEF WaitInv, FamilyInv

THEOREM WaitInvariance == Spec => []WaitInv
  BY WaitInit, WaitNext, PTL DEF Spec

-----------------------------------------------------------------------------
\* Who waits in a cycle.

\* A request of a cycle waits for another one at a lock of its own statement.
LEMMA MemberWaits ==
    ASSUME FamilyInv, NEW D \in SUBSET Request, WaitForEachOther(D), NEW r \in D
    PROVE  \/ /\ req[r].pc \in {"record", "rotate", "logout"}
              /\ \E q \in D : q \in Blockers(r)
           \/ /\ At(r, "revoke")
              /\ \E s \in req[r].todo :
                    /\ \E q \in D : q \in RowBlockers(r, s)
                    /\ \A other \in req[r].todo : RowBlockers(r, other) # {}
  <1>1. req[r].todo # {} => At(r, "revoke")
    BY DEF FamilyInv, RevocationsSound, RevocationSound
  <1>2. Blockers(r) # {} => req[r].pc \in {"record", "rotate", "logout"}
    BY DEF Blockers, At
  <1>3. QED
    BY <1>1, <1>2 DEF WaitForEachOther

\* A rotation that holds its row waits for nobody: it is in no cycle.
LEMMA MemberRotatesNothing ==
    ASSUME FamilyInv, NEW D \in SUBSET Request, WaitForEachOther(D), NEW q \in D,
           NEW s
    PROVE  ~ HoldsRotate(q, s)
  BY MemberWaits DEF HoldsRotate, At

\* A row that a replay locks is one of its victim.
LEMMA RevokesOwnVictim ==
    ASSUME FamilyInv, NEW q \in Request, NEW s \in Session, HoldsRevoke(q, s)
    PROVE  At(q, "revoke") /\ Victim(q) = sessions[s].user_id
  BY DEF FamilyInv, RevocationsSound, RevocationSound, HoldsRevoke, Victim

\* Within a cycle a replay waits for replays of tokens of the same user.
LEMMA ReplayWaitsForReplay ==
    ASSUME FamilyInv, NEW D \in SUBSET Request, WaitForEachOther(D), NEW r \in D,
           At(r, "revoke")
    PROVE  \E s \in req[r].todo :
              /\ \E q \in D : /\ q \in RowBlockers(r, s)
                              /\ At(q, "revoke")
                              /\ Victim(q) = Victim(r)
              /\ \A other \in req[r].todo : RowBlockers(r, other) # {}
  <1>1. PICK s \in req[r].todo :
            /\ \E q \in D : q \in RowBlockers(r, s)
            /\ \A other \in req[r].todo : RowBlockers(r, other) # {}
    BY MemberWaits DEF At
  <1>2. PICK q \in D : q \in RowBlockers(r, s)
    BY <1>1
  <1>3. s \in Session
    BY RequestTyped DEF FamilyInv, Inv
  <1>4. HoldsRevoke(q, s)
    BY <1>2, MemberRotatesNothing DEF RowBlockers
  <1>5. At(q, "revoke") /\ Victim(q) = sessions[s].user_id
    BY <1>3, <1>4, RevokesOwnVictim
  <1>6. sessions[s].user_id = Victim(r)
    BY DEF FamilyInv, RevocationsSound, RevocationSound, Victim
  <1>7. QED
    BY <1>1, <1>2, <1>5, <1>6

\* The other requests wait for a replay, or for a refresh that is about to
\* rotate the same session.
LEMMA OthersWaitForReplayOrRefresh ==
    ASSUME FamilyInv, NEW D \in SUBSET Request, WaitForEachOther(D), NEW r \in D,
           ~ At(r, "revoke")
    PROVE  \E q \in D :
              /\ q \in Blockers(r)
              /\ \/ At(q, "revoke")
                 \/ At(q, "rotate") /\ Inserted(q)
                      /\ (At(r, "rotate") => req[q].session = req[r].session)
              /\ At(r, "logout") => At(q, "revoke")
  <1>1. PICK q \in D : q \in Blockers(r)
    BY MemberWaits
  <1>2. req[r].pc \in {"record", "rotate", "logout"}
    BY MemberWaits
  <1>3. ~ HoldsRotate(q, req[r].session)
    BY MemberRotatesNothing
  <1>4. Inserted(q) => At(q, "rotate")
    BY MemberWaits DEF Inserted, At
  <1>5. HoldsRevoke(q, req[r].session) => At(q, "revoke")
    BY DEF HoldsRevoke, FamilyInv, RevocationsSound, RevocationSound
  <1>6. QED
    BY <1>1, <1>2, <1>3, <1>4, <1>5 DEF Blockers, HoldsKeyShare, At

-----------------------------------------------------------------------------
\* A cycle with a replay in it consists of replays of tokens of one user.
LEMMA ReplaysAmongThemselves ==
    ASSUME FamilyInv, NEW D \in SUBSET Request, Deadlock(D), NEW r \in D,
           At(r, "revoke")
    PROVE  \A q \in D : At(q, "revoke") /\ Victim(q) = Victim(r)
  <1> DEFINE E == {q \in D : At(q, "revoke") /\ Victim(q) = Victim(r)}
  <1>1. WaitForEachOther(D)
    BY DEF Deadlock
  <1>2. ASSUME NEW q \in E
        PROVE  \E s \in req[q].todo :
                  /\ RowBlockers(q, s) \intersect E # {}
                  /\ \A other \in req[q].todo : RowBlockers(q, other) # {}
    <2>1. PICK s \in req[q].todo :
              /\ \E p \in D : /\ p \in RowBlockers(q, s)
                              /\ At(p, "revoke")
                              /\ Victim(p) = Victim(q)
              /\ \A other \in req[q].todo : RowBlockers(q, other) # {}
      BY <1>1, ReplayWaitsForReplay
    <2>2. RowBlockers(q, s) \intersect E # {}
      BY <2>1
    <2>3. QED
      BY <2>1, <2>2
  <1>3. E # {}
    OBVIOUS
  <1> HIDE DEF E
  <1>4. WaitForEachOther(E)
    BY <1>2, <1>3 DEF WaitForEachOther
  <1>5. E = D
    <2>1. E \in SUBSET D
      BY DEF E
    <2>2. QED
      BY <1>4, <2>1 DEF Deadlock
  <1>6. QED
    BY <1>5 DEF E

\* A cycle without one consists of refreshes of one session.
LEMMA RefreshesAmongThemselves ==
    ASSUME FamilyInv, NEW D \in SUBSET Request, Deadlock(D),
           \A q \in D : ~ At(q, "revoke")
    PROVE  \E r \in D : \A q \in D :
              At(q, "rotate") /\ req[q].session = req[r].session
  <1>1. WaitForEachOther(D)
    BY DEF Deadlock
  <1>2. PICK r \in D : At(r, "rotate")
    BY <1>1, OthersWaitForReplayOrRefresh DEF WaitForEachOther
  <1> DEFINE E == {q \in D : At(q, "rotate") /\ req[q].session = req[r].session}
  <1>3. ASSUME NEW q \in E
        PROVE  Blockers(q) \intersect E # {}
    BY <1>1, OthersWaitForReplayOrRefresh
  <1>4. E # {}
    BY <1>2
  <1> HIDE DEF E
  <1>5. WaitForEachOther(E)
    BY <1>3, <1>4 DEF WaitForEachOther
  <1>6. E = D
    <2>1. E \in SUBSET D
      BY DEF E
    <2>2. QED
      BY <1>5, <2>1 DEF Deadlock
  <1>7. QED
    BY <1>6 DEF E

\* Two inserts for one session are of two tokens, neither of them exchanged, and
\* the session has one current token: the other one is unknown to the server.
LEMMA TwoInsertsLoseAToken ==
    ASSUME WaitInv, NEW p \in Request, NEW q \in Request, p # q,
           Inserted(p), Inserted(q), req[p].session = req[q].session
    PROVE  ~ OutgoingHashRecorded
  <1>1. Found(p) /\ Found(q)
    BY DEF Inserted, Found
  <1>2. PICK i \in issued : i.token = req[p].token /\ i.session = req[p].session
    BY <1>1 DEF WaitInv, FamilyInv, Inv, RequestsSound, RequestSound
  <1>3. PICK j \in issued : j.token = req[q].token /\ j.session = req[q].session
    BY <1>1 DEF WaitInv, FamilyInv, Inv, RequestsSound, RequestSound
  <1>4. HashRefreshToken(i.token) # HashRefreshToken(j.token)
    BY <1>2, <1>3, HashInjective DEF WaitInv, InsertsApart
  <1>5. /\ HashRefreshToken(i.token) \notin UsedHashes
        /\ HashRefreshToken(j.token) \notin UsedHashes
    BY <1>2, <1>3 DEF Inserted
  <1>6. QED
    BY <1>2, <1>3, <1>4, <1>5 DEF OutgoingHashRecorded, HasHash

LEMMA KindsOfDeadlock ==
    ASSUME WaitInv
    PROVE  DeadlocksAreOfTwoKinds
  <1> SUFFICES ASSUME NEW D \in SUBSET Request, Deadlock(D)
               PROVE  \/ \A q, r \in D : At(q, "revoke") /\ Victim(q) = Victim(r)
                      \/ /\ \A q, r \in D : At(q, "rotate")
                                            /\ req[q].session = req[r].session
                         /\ ~ OutgoingHashRecorded
    BY DEF DeadlocksAreOfTwoKinds
  <1>f. FamilyInv /\ WaitForEachOther(D)
    BY DEF WaitInv, Deadlock
  <1>1. CASE \E r \in D : At(r, "revoke")
    BY <1>f, <1>1, ReplaysAmongThemselves
  <1>2. CASE \A r \in D : ~ At(r, "revoke")
    <2>1. PICK r \in D : \A q \in D :
              At(q, "rotate") /\ req[q].session = req[r].session
      BY <1>f, <1>2, RefreshesAmongThemselves
    <2>2. PICK q \in D : q \in Blockers(r) /\ Inserted(q)
      BY <1>f, <1>2, OthersWaitForReplayOrRefresh
    <2>3. PICK p \in D : p \in Blockers(q) /\ Inserted(p)
      BY <1>f, <1>2, OthersWaitForReplayOrRefresh
    <2>4. p # q /\ req[p].session = req[q].session
      BY <2>1, <2>3 DEF Blockers
    <2>5. QED
      BY <2>1, <2>2, <2>3, <2>4, TwoInsertsLoseAToken
  <1>3. QED
    BY <1>1, <1>2

\* Replays of tokens of one user, or refreshes of one session one of whose tokens
\* the server has forgotten: no other request is ever the victim of a deadlock.
THEOREM TwoKindsOfDeadlock == Spec => []DeadlocksAreOfTwoKinds
  BY WaitInvariance, KindsOfDeadlock, PTL
=============================================================================
