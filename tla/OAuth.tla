------------------------------- MODULE OAuth -------------------------------
(***************************************************************************)
(* Google sign-in of SAuth: StartGoogleOAuth, HandleGoogleCallback with    *)
(* resolveOAuthUser, and ExchangeAuthCode of internal/auth/oauth.go, over  *)
(* the tables oauth_states, oauth_accounts, users and auth_exchange_codes. *)
(* As in Sessions, a request is a pc, and what its transaction wrote and   *)
(* did not commit is read off the pc.  Row locks on users are left out:    *)
(* they delay a transaction that is about to commit and close no cycle.    *)
(***************************************************************************)
EXTENDS FiniteSets, Naturals

CONSTANTS
    Project, Email,
    Subject,         \* identities at Google (the claim sub)
    User,            \* primary keys that users may draw
    State,           \* random states that StartGoogleOAuth may draw
    AuthCode,        \* random codes that HandleGoogleCallback may draw
    Request,         \* request slots served concurrently
    None,            \* no row, or an unset field
    Faults           \* may statements, commits and connections fail?

StateRow == [project : Project, expired : BOOLEAN]

UserRow == [project : Project, email : Email, email_verified : BOOLEAN,
            origin : {"google", "elsewhere"}]

AccountRow == [provider_user_id : Subject, user_id : User]

CodeRow == [user_id : User, project : Project,
            consumed : BOOLEAN, expired : BOOLEAN]

Grant == [state : State, sub : Subject]

ASSUME FaultsAreOptional == Faults \in BOOLEAN
ASSUME NoneIsNothing ==
    /\ None \notin StateRow \union UserRow \union CodeRow \union Grant
    /\ None \notin Project \union Email \union Subject \union User
    /\ None \notin State \union AuthCode

VARIABLES
    oauth_states,         \* the committed rows; a taken row is deleted
    users,                \* the committed rows
    banned,               \* users whose column banned is set
    oauth_accounts,       \* the committed rows
    auth_exchange_codes,  \* the committed rows
    flows,                \* history: the project that drew each state
    grants,               \* history: state and identity behind each code
    opened,               \* history: how many sessions each code opened
    req                   \* the request each slot serves

tables == <<oauth_states, users, banned, oauth_accounts, auth_exchange_codes>>
history == <<flows, grants, opened>>
vars == <<tables, history, req>>

-----------------------------------------------------------------------------
\* Tables.

UserExists(u) == users[u] # None

UsersWithEmail(p, e) ==
    {u \in User : UserExists(u) /\ users[u].project = p /\ users[u].email = e}

AccountsOf(sub) == {a \in oauth_accounts : a.provider_user_id = sub}

-----------------------------------------------------------------------------
\* Requests.

Verdict == {"code", "ok", "state_invalid", "exchange_failed", "conflict",
            "banned", "email_taken", "auth_code_invalid", "error"}

Waiting == {"google", "account", "email", "link", "create", "link_new",
            "mint", "user", "issue"}

Slot(label) ==
    [pc |-> label, project |-> None, state |-> None, sub |-> None,
     email |-> None, vouched |-> FALSE, user |-> None, inserts |-> "nothing",
     code |-> None, shunned |-> {}]

RequestState ==
    [pc : {"idle"} \union Waiting, project : Project \union {None},
     state : State \union {None}, sub : Subject \union {None},
     email : Email \union {None}, vouched : BOOLEAN, user : User \union {None},
     inserts : {"nothing", "link", "user"}, code : AuthCode \union {None},
     shunned : SUBSET User]

At(r, label) == req[r].pc = label

Idle(r) == At(r, "idle")

\* The client gets the verdict; the server keeps nothing of it.
Answer(r, verdict) ==
    verdict \in Verdict /\ req' = [req EXCEPT ![r] = Slot("idle")]

Goto(r, label) == req' = [req EXCEPT ![r].pc = label]

\* Bounds of the instance: keys are left for what is under way.
KeysLeft ==
    /\ Cardinality({q \in Request : req[q].pc \in Waiting \ {"user", "issue"}})
          < Cardinality({c \in AuthCode : auth_exchange_codes[c] = None})
    /\ Cardinality({q \in Request : req[q].pc \in Waiting \ {"user", "issue"}})
          < Cardinality({u \in User : ~ UserExists(u)})

\* Uncommitted inserts that others wait for: a link of the identity sub, a user
\* with this address.
InsertsLink(q, sub) ==
    /\ req[q].inserts # "nothing" /\ At(q, "mint")
    /\ req[q].sub = sub

InsertsUser(q, p, e) ==
    /\ req[q].inserts = "user"
    /\ req[q].project = p /\ req[q].email = e

\* Whose commit or rollback CreateUser or CreateOAuthAccount waits for.
Blockers(r) ==
    {q \in Request \ {r} :
        \/ At(r, "create") /\ InsertsUser(q, req[r].project, req[r].email)
        \/ req[r].pc \in {"link", "link_new"} /\ InsertsLink(q, req[r].sub)}

-----------------------------------------------------------------------------
Init ==
    /\ oauth_states = [s \in State |-> None]
    /\ users = [u \in User |-> None]
    /\ banned = {}
    /\ oauth_accounts = {}
    /\ auth_exchange_codes = [c \in AuthCode |-> None]
    /\ flows = [s \in State |-> None]
    /\ grants = [c \in AuthCode |-> None]
    /\ opened = [c \in AuthCode |-> 0]
    /\ req = [r \in Request |-> Slot("idle")]

-----------------------------------------------------------------------------
\* StartGoogleOAuth, when the project is configured and the redirect allowed.

StartGoogleOAuth(p, s) ==
    /\ flows[s] = None
    /\ oauth_states' = [oauth_states EXCEPT ![s] = [project |-> p, expired |-> FALSE]]
    /\ flows' = [flows EXCEPT ![s] = p]
    /\ UNCHANGED <<users, banned, oauth_accounts, auth_exchange_codes, grants,
                   opened, req>>

-----------------------------------------------------------------------------
\* HandleGoogleCallback.

\* Seeded bug: the state is looked up and stays.
Kept(s) == oauth_states

\* DELETE ... RETURNING.
Taken(s) == [oauth_states EXCEPT ![s] = None]

\* The row is deleted as it is read, whatever comes of the callback.
TakeOAuthState(r, s) ==
    /\ Idle(r)
    /\ KeysLeft
    /\ \/ oauth_states[s] = None /\ Answer(r, "state_invalid")
       \/ /\ oauth_states[s] # None
          /\ IF oauth_states[s].expired
               THEN Answer(r, "state_invalid")
               ELSE req' = [req EXCEPT ![r] = [Slot("google") EXCEPT
                              !.state = s, !.project = oauth_states[s].project]]
    /\ oauth_states' = Taken(s)
    /\ UNCHANGED <<users, banned, oauth_accounts, auth_exchange_codes, history>>

\* Seeded bug: an identity without an address is passed on.
ExchangeIncomplete ==
    [sub : Subject, email : Email \union {None}, vouched : BOOLEAN]

\* What Google may answer: nothing of use, or who is behind the code.
Exchange == {None} \union [sub : Subject, email : Email, vouched : BOOLEAN]

GoogleExchange(r) ==
    /\ At(r, "google")
    /\ \E id \in Exchange :
          IF id = None
            THEN Answer(r, "exchange_failed")
            ELSE req' = [req EXCEPT ![r].pc = "account", ![r].sub = id.sub,
                              ![r].email = id.email, ![r].vouched = id.vouched]
    /\ UNCHANGED <<tables, history>>

\* Seeded bug: an account of another project will do.
ElsewhereIgnored(r, u) == FALSE

LinkedElsewhere(r, u) == users[u].project # req[r].project

\* GetOAuthAccount, and GetUserByIDOnly for the account it finds.
FindAccount(r) ==
    /\ At(r, "account")
    /\ \/ AccountsOf(req[r].sub) = {} /\ Goto(r, "email")
       \/ \E a \in AccountsOf(req[r].sub) :
            CASE LinkedElsewhere(r, a.user_id) -> Answer(r, "conflict")
              [] ~ LinkedElsewhere(r, a.user_id) /\ a.user_id \in banned
                                               -> Answer(r, "banned")
              [] OTHER -> req' = [req EXCEPT ![r].pc = "mint",
                                             ![r].user = a.user_id]
    /\ UNCHANGED <<tables, history>>

\* Seeded bug: the address is believed whatever Google says of it.
AnyAddress(r) == TRUE

Vouched(r) == req[r].vouched

\* GetUserByEmail, for an address that Google vouches for.
FindEmail(r) ==
    LET found == UsersWithEmail(req[r].project, req[r].email)
    IN  /\ At(r, "email")
        /\ \/ ~ Vouched(r) /\ Goto(r, "create")
           \/ Vouched(r) /\ found = {} /\ Goto(r, "create")
           \/ /\ Vouched(r)
              /\ \E u \in found :
                   IF u \in banned
                     THEN Answer(r, "banned")
                     ELSE req' = [req EXCEPT ![r].pc = "link", ![r].user = u]
        /\ UNCHANGED <<tables, history>>

\* CreateOAuthAccount: the unique constraint waits for an uncommitted link of
\* the identity and fails on a committed one, which no caller expects.
CreateOAuthAccount(r) ==
    /\ req[r].pc \in {"link", "link_new"}
    /\ Blockers(r) = {}
    /\ IF AccountsOf(req[r].sub) # {}
         THEN Answer(r, "error")
         ELSE req' = [req EXCEPT ![r].pc = "mint",
                        ![r].inserts = IF @ = "user" THEN "user" ELSE "link"]
    /\ UNCHANGED <<tables, history>>

\* Seeded bug: the user is created through s.q, outside the transaction.
CreateUserOutsideTx(r) ==
    /\ At(r, "create")
    /\ UsersWithEmail(req[r].project, req[r].email) = {}
    /\ \E u \in User :
          /\ ~ UserExists(u)
          /\ users' = [users EXCEPT ![u] =
                [project |-> req[r].project, email |-> req[r].email,
                 email_verified |-> req[r].vouched, origin |-> "google"]]
          /\ req' = [req EXCEPT ![r].pc = "link", ![r].user = u]
    /\ UNCHANGED <<oauth_states, banned, oauth_accounts, auth_exchange_codes, history>>

\* Seeded bug: the unique constraint on the address is missing.
CreateUserTwice(r) ==
    /\ At(r, "create")
    /\ req' = [req EXCEPT ![r].pc = "link_new", ![r].inserts = "user"]
    /\ UNCHANGED <<tables, history>>

\* CreateUser, with the constraint uq_users_project_email.
CreateUser(r) ==
    LET p == req[r].project
        e == req[r].email
    IN  /\ At(r, "create")
        /\ Blockers(r) = {}
        /\ IF UsersWithEmail(p, e) # {}
             THEN Answer(r, "email_taken")
             ELSE req' = [req EXCEPT ![r].pc = "link_new", ![r].inserts = "user"]
        /\ UNCHANGED <<tables, history>>

\* The user row as the transaction leaves it: made, or marked as verified.
Resolved(r, u) ==
    CASE req[r].inserts = "user" ->
           [project |-> req[r].project, email |-> req[r].email,
            email_verified |-> req[r].vouched, origin |-> "google"]
      [] req[r].inserts = "link" -> [users[u] EXCEPT !.email_verified = TRUE]
      [] OTHER -> users[u]

NewCode(r, u) ==
    [user_id |-> u, project |-> req[r].project, consumed |-> FALSE, expired |-> FALSE]

\* SetUserEmailVerified, CreateAuthExchangeCode and the commit.
CallbackCommit(r, c, u) ==
    /\ At(r, "mint")
    /\ auth_exchange_codes[c] = None
    /\ IF req[r].inserts = "user" THEN ~ UserExists(u) ELSE u = req[r].user
    /\ users' = [users EXCEPT ![u] = Resolved(r, u)]
    /\ oauth_accounts' =
          IF req[r].inserts = "nothing" THEN oauth_accounts
          ELSE oauth_accounts \union
                 {[provider_user_id |-> req[r].sub, user_id |-> u]}
    /\ auth_exchange_codes' = [auth_exchange_codes EXCEPT ![c] = NewCode(r, u)]
    /\ grants' = [grants EXCEPT ![c] = [state |-> req[r].state, sub |-> req[r].sub]]
    /\ Answer(r, "code")
    /\ UNCHANGED <<oauth_states, banned, flows, opened>>

-----------------------------------------------------------------------------
\* ExchangeAuthCode.

\* Seeded bug: the condition consumed_at IS NULL is missing.
TakableAgain(row, p) == row.project = p /\ ~ row.expired

Takable(row, p) == row.project = p /\ ~ row.consumed /\ ~ row.expired

\* UPDATE ... RETURNING, a statement of its own that is not undone.
TakeAuthExchangeCode(r, c, p) ==
    /\ Idle(r)
    /\ auth_exchange_codes[c] # None
    /\ IF Takable(auth_exchange_codes[c], p)
         THEN /\ auth_exchange_codes' =
                   [auth_exchange_codes EXCEPT ![c].consumed = TRUE]
              /\ req' = [req EXCEPT ![r] = [Slot("user") EXCEPT
                   !.code = c, !.project = p, !.shunned = banned,
                   !.user = auth_exchange_codes[c].user_id]]
         ELSE Answer(r, "auth_code_invalid") /\ UNCHANGED auth_exchange_codes
    /\ UNCHANGED <<oauth_states, users, banned, oauth_accounts, history>>

\* Seeded bug: the flag was looked at in the callback, not again.
ExchangeUserUnchecked(r) ==
    /\ At(r, "user")
    /\ Goto(r, "issue")
    /\ UNCHANGED <<tables, history>>

ExchangeUser(r) ==
    /\ At(r, "user")
    /\ IF req[r].user \in banned THEN Answer(r, "banned") ELSE Goto(r, "issue")
    /\ UNCHANGED <<tables, history>>

\* issue and the commit.
ExchangeCommit(r) ==
    /\ At(r, "issue")
    /\ opened' = [opened EXCEPT ![req[r].code] = @ + 1]
    /\ Answer(r, "ok")
    /\ UNCHANGED <<tables, flows, grants>>

-----------------------------------------------------------------------------
\* What goes wrong, and what happens around the requests.

\* A statement or commit fails, the deadline passes or the process dies.
Fail(r) ==
    /\ Faults
    /\ req[r].pc \in Waiting
    /\ Answer(r, "error")
    /\ UNCHANGED <<tables, history>>

ExpireState(s) ==
    /\ oauth_states[s] # None /\ ~ oauth_states[s].expired
    /\ oauth_states' = [oauth_states EXCEPT ![s].expired = TRUE]
    /\ UNCHANGED <<users, banned, oauth_accounts, auth_exchange_codes, history, req>>

ExpireCode(c) ==
    /\ auth_exchange_codes[c] # None /\ ~ auth_exchange_codes[c].expired
    /\ auth_exchange_codes' = [auth_exchange_codes EXCEPT ![c].expired = TRUE]
    /\ UNCHANGED <<oauth_states, users, banned, oauth_accounts, history, req>>

\* Signup, or the verification of a signup code, makes a user; it waits for an
\* uncommitted insert of the address like any other.
RegisterElsewhere(u, p, e, verified) ==
    /\ ~ UserExists(u)
    /\ KeysLeft
    /\ UsersWithEmail(p, e) = {}
    /\ \A q \in Request : ~ InsertsUser(q, p, e)
    /\ users' = [users EXCEPT ![u] =
          [project |-> p, email |-> e, email_verified |-> verified,
           origin |-> "elsewhere"]]
    /\ UNCHANGED <<oauth_states, banned, oauth_accounts, auth_exchange_codes,
                   history, req>>

SetUserBanned(u, flag) ==
    /\ UserExists(u)
    /\ banned' = IF flag THEN banned \union {u} ELSE banned \ {u}
    /\ req' = [r \in Request |->
          [req[r] EXCEPT !.shunned = IF flag THEN @ ELSE @ \ {u}]]
    /\ UNCHANGED <<oauth_states, users, oauth_accounts, auth_exchange_codes, history>>

-----------------------------------------------------------------------------
Arrive(r) ==
    \/ \E s \in State : TakeOAuthState(r, s)
    \/ \E c \in AuthCode, p \in Project : TakeAuthExchangeCode(r, c, p)

Proceed(r) ==
    \/ GoogleExchange(r)
    \/ FindAccount(r)
    \/ FindEmail(r)
    \/ CreateOAuthAccount(r)
    \/ CreateUser(r)
    \/ \E c \in AuthCode, u \in User : CallbackCommit(r, c, u)
    \/ ExchangeUser(r)
    \/ ExchangeCommit(r)

Environment ==
    \/ \E r \in Request : Fail(r)
    \/ \E p \in Project, s \in State : StartGoogleOAuth(p, s)
    \/ \E s \in State : ExpireState(s)
    \/ \E c \in AuthCode : ExpireCode(c)
    \/ \E u \in User, p \in Project, e \in Email, verified \in BOOLEAN :
          RegisterElsewhere(u, p, e, verified)
    \/ \E u \in User, flag \in BOOLEAN : SetUserBanned(u, flag)

Next == (\E r \in Request : Arrive(r) \/ Proceed(r)) \/ Environment

Spec == Init /\ [][Next]_vars

-----------------------------------------------------------------------------
TypeOK ==
    /\ oauth_states \in [State -> StateRow \union {None}]
    /\ users \in [User -> UserRow \union {None}]
    /\ banned \in SUBSET User
    /\ oauth_accounts \in SUBSET AccountRow
    /\ auth_exchange_codes \in [AuthCode -> CodeRow \union {None}]
    /\ flows \in [State -> Project \union {None}]
    /\ grants \in [AuthCode -> Grant \union {None}]
    /\ opened \in [AuthCode -> Nat]
    /\ req \in [Request -> RequestState]

-----------------------------------------------------------------------------
\* Properties.

\* A code stands for one flow from end to end: its project is the one that
\* started the flow, its user is a user of that project, and that user is the
\* one linked to the identity Google named (ErrOAuthAccountConflict and the
\* transaction in HandleGoogleCallback).
CodesFollowTheFlow ==
    \A c \in AuthCode : auth_exchange_codes[c] # None =>
        LET row == auth_exchange_codes[c]
        IN  /\ flows[grants[c].state] = row.project
            /\ users[row.user_id].project = row.project
            /\ \A a \in AccountsOf(grants[c].sub) : a.user_id = row.user_id
            /\ AccountsOf(grants[c].sub) # {}

\* A project has one user per address, whoever creates it: sign-ins with
\* different identities, Signup, or the verification of a signup code.
OneUserPerEmail ==
    \A u, v \in User :
        /\ UserExists(u) /\ UserExists(v)
        /\ users[u].project = users[v].project /\ users[u].email = users[v].email
        => u = v

\* A user that Google sign-in made can sign in with Google: a failure between
\* CreateUser and CreateOAuthAccount leaves no user without a link behind.
GoogleUsersAreLinked ==
    \A u \in User :
        UserExists(u) /\ users[u].origin = "google"
            => \E a \in oauth_accounts : a.user_id = u

\* An identity enters a user that was there before only through an address that
\* Google vouches for and that is the user's own, in the project of the flow.
LinkNeedsVouchedEmail ==
    [][\A a \in oauth_accounts' \ oauth_accounts :
          UserExists(a.user_id) =>
            \E r \in Request :
                /\ At(r, "mint") /\ req'[r].pc = "idle"
                /\ req[r].sub = a.provider_user_id
                /\ req[r].vouched
                /\ users[a.user_id].email = req[r].email
                /\ users[a.user_id].project = req[r].project]_vars

\* No exchange opens a session for a user of another project than the one that
\* asks, nor for one who was banned when it arrived and has been ever since,
\* although the code was minted before.
ExchangeJudgesAgain ==
    [][\A r \in Request :
          ExchangeCommit(r) =>
            /\ users[req[r].user].project = req[r].project
            /\ req[r].user \notin req[r].shunned]_vars

\* Callbacks never wait for each other in a circle, although each may insert a user
\* and a link and wait for either: among any that wait, one waits for none of the
\* others, because the user always comes before the link (resolveOAuthUser).
NobodyWaitsInACircle ==
    \A D \in SUBSET Request : D # {} => \E r \in D : Blockers(r) \cap D = {}

-----------------------------------------------------------------------------
\* The abstract specification: states and auth codes are grants for one use.

CodesOf(s) == {c \in AuthCode : grants[c] # None /\ grants[c].state = s}

\* A state is taken by the callback that deletes its row and used by the code
\* that comes of it; more codes than one are no status at all.
StateStatus ==
    [s \in State |->
        CASE flows[s] = None -> "unissued"
          [] Cardinality(CodesOf(s)) = 1 -> "used"
          [] Cardinality(CodesOf(s)) > 1 -> "overused"
          [] oauth_states[s] # None /\ ~ oauth_states[s].expired -> "live"
          [] oauth_states[s] = None /\ (\E r \in Request : req[r].state = s) -> "taken"
          [] OTHER -> "lost"]

\* An auth code is taken by the exchange that consumes it and used by the session
\* that it opens.
CodeStatus ==
    [c \in AuthCode |->
        CASE auth_exchange_codes[c] = None -> "unissued"
          [] opened[c] = 1 -> "used"
          [] opened[c] > 1 -> "overused"
          [] /\ auth_exchange_codes[c] # None
             /\ ~ auth_exchange_codes[c].consumed
             /\ ~ auth_exchange_codes[c].expired -> "live"
          [] auth_exchange_codes[c].consumed /\ (\E r \in Request : req[r].code = c) -> "taken"
          [] OTHER -> "lost"]

States == INSTANCE OneTimeGrants WITH Grant <- State, status <- StateStatus

Codes == INSTANCE OneTimeGrants WITH Grant <- AuthCode, status <- CodeStatus

\* A state is good for one callback and that one for one code, also for two that
\* arrive together, for one that is sent again after a failure, and for a state
\* that expires meanwhile.
StatesAreOneTimeGrants == States!Spec

\* An auth code opens at most one session, however its exchanges overlap and
\* whichever of them fails; no code that expired or was spent opens one.
CodesAreOneTimeGrants == Codes!Spec
=============================================================================
