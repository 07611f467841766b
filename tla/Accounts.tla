------------------------------ MODULE Accounts ------------------------------
(***************************************************************************)
(* Accounts, roles and access tokens of SAuth: Signup, Login, the minting  *)
(* half of Refresh, and Me of internal/auth/service.go, with IssueAccess   *)
(* and ParseAccess of internal/token, the two guards of                    *)
(* internal/httpapi/middleware_auth.go and the queries of                  *)
(* internal/db/users.sql.go and rbac.sql.go.  Refresh tokens are the       *)
(* matter of Sessions: here a user may present a good one at any time.     *)
(* As there, a request is a pc, and a transaction writes when it commits;  *)
(* the flag banned, which Sessions follows, only refuses a request here.   *)
(***************************************************************************)
EXTENDS FiniteSets, Naturals

CONSTANTS
    Project,
    Name,            \* what users call themselves: addresses and usernames
    Role,
    RoleProject,     \* the project of each role
    DefaultRole,     \* the default role of each project, or None
    User,            \* primary keys that users may draw
    Token,           \* access tokens in circulation at a time
    Request,         \* request slots served concurrently
    None,            \* no row, or an unset field
    Faults           \* may statements, commits and connections fail?

UserRow == [project : Project, email : Name \union {None},
            username : Name \union {None}, password : BOOLEAN]

\* Roles and permissions of a token; a permission is told by the role it came
\* from.
AccessClaims == [user : User, project : Project,
                 roles : SUBSET Role, permissions : SUBSET Role]

ASSUME FaultsAreOptional == Faults \in BOOLEAN
ASSUME RolesHaveProjects == RoleProject \in [Role -> Project]
ASSUME DefaultRolesAreOfTheProject ==
    \A p \in Project : DefaultRole[p] \in {None} \union {k \in Role : RoleProject[k] = p}
ASSUME NoneIsNothing ==
    None \notin UserRow \union AccessClaims \union Name \union User \union Role

VARIABLES
    users,       \* the committed rows
    user_roles,  \* the committed rows, as pairs of user and role
    tokens,      \* access tokens that clients hold and that have not expired
    req          \* the request each slot serves

tables == <<users, user_roles>>
vars == <<tables, tokens, req>>

-----------------------------------------------------------------------------
\* Tables.

UserExists(u) == users[u] # None

UsersOf(p) == {u \in User : UserExists(u) /\ users[u].project = p}

RolesOf(u) == {k \in Role : <<u, k>> \in user_roles}

\* Seeded bug: a user with a token gets the roles that the token shows.
CopiedRoleNames(u) ==
    LET his == {t \in Token : tokens[t] # None /\ tokens[t].user = u}
    IN  IF his = {} THEN RolesOf(u) ELSE UNION {tokens[t].roles : t \in his}

GetUserRoleNames(u) == RolesOf(u)

GetUserPermissionNames(u) == RolesOf(u)

\* email = $2 OR username = $2, LIMIT 1: whichever row comes first.
GetUserByLogin(p, name) ==
    {u \in UsersOf(p) : name \in {users[u].email, users[u].username}}

\* The constraints uq_users_project_email and uq_users_project_username.
EmailTaken(p, email) == email # None /\ \E u \in UsersOf(p) : users[u].email = email

UsernameTaken(p, name) == name # None /\ \E u \in UsersOf(p) : users[u].username = name

-----------------------------------------------------------------------------
\* Requests.

Kind == {"signup", "login", "refresh", "me"}

Waiting == {"create", "attach", "judge", "find", "roles", "permissions"}

Verdict == {"created", "ok", "email_taken", "username_taken",
            "invalid_credentials", "banned", "unauthorized", "user_not_found",
            "error"}

Slot(label) ==
    [pc |-> label, kind |-> "me", project |-> None, user |-> None,
     email |-> None, username |-> None, roles |-> {},
     held |-> {}, kept |-> {}]

RequestState ==
    [pc : {"idle"} \union Waiting, kind : Kind, project : Project \union {None},
     user : User \union {None}, email : Name \union {None},
     username : Name \union {None}, roles : SUBSET Role,
     held : SUBSET Role, kept : SUBSET Role]

At(r, label) == req[r].pc = label

Idle(r) == At(r, "idle")

Answer(r, verdict) ==
    verdict \in Verdict /\ req' = [req EXCEPT ![r] = Slot("idle")]

\* A request for the user u from here on.  The ghosts follow u while it is
\* served: roles held at some time, and roles held all the time.
For(label, kind, p, u) ==
    [Slot(label) EXCEPT
        !.kind = kind, !.project = p, !.user = u,
        !.held = RolesOf(u), !.kept = RolesOf(u)]

\* An insert that is not committed: another one of the same key waits for it.
Inserts(q, p, email, name) ==
    /\ req[q].kind = "signup" /\ req[q].pc \in Waiting \ {"create"}
    /\ req[q].project = p
    /\ \/ email # None /\ req[q].email = email
       \/ name # None /\ req[q].username = name

\* Bound of the instance: a key is left for each signup under way.
KeysLeft ==
    Cardinality({q \in Request : req[q].kind = "signup"})
        < Cardinality({u \in User : ~ UserExists(u)})

-----------------------------------------------------------------------------
Init ==
    /\ users = [u \in User |-> None]
    /\ user_roles = {}
    /\ tokens = [t \in Token |-> None]
    /\ req = [r \in Request |-> Slot("idle")]

-----------------------------------------------------------------------------
\* Signup.

\* The address is well formed and the password hashed; a transaction begins.
Signup(r, p, email, username) ==
    /\ Idle(r)
    /\ KeysLeft
    /\ req' = [req EXCEPT ![r] = [Slot("create") EXCEPT
                 !.kind = "signup", !.project = p,
                 !.email = email, !.username = username]]
    /\ UNCHANGED <<tables, tokens>>

\* Seeded bug: users has no unique constraint.
CreateUserTwice(r) ==
    /\ At(r, "create")
    /\ req' = [req EXCEPT ![r].pc = "attach"]
    /\ UNCHANGED <<tables, tokens>>

\* CreateUser: a unique constraint waits for an insert of the same key and
\* fails on a committed one, which mapCreateUserErr tells by its name.
CreateUser(r) ==
    LET p == req[r].project
    IN  /\ At(r, "create")
        /\ \A q \in Request \ {r} : ~ Inserts(q, p, req[r].email, req[r].username)
        /\ IF EmailTaken(p, req[r].email) THEN Answer(r, "email_taken")
           ELSE IF UsernameTaken(p, req[r].username) THEN Answer(r, "username_taken")
           ELSE req' = [req EXCEPT ![r].pc = "attach"]
        /\ UNCHANGED <<tables, tokens>>

\* Seeded bug: the default role of any project, and a foreign key on the role
\* alone.
GetAnyDefaultRole(p) == {DefaultRole[q] : q \in Project} \ {None}

GetDefaultRole(p) == {DefaultRole[p]} \ {None}

\* GetDefaultRole and AssignRoleToUser, if there is a default role.  The user
\* that nobody else sees has these roles and no others when mintAccess reads them.
AttachDefaultRole(r) ==
    LET given == GetDefaultRole(req[r].project)
    IN  /\ At(r, "attach")
        /\ req' = [req EXCEPT ![r].pc = "permissions", ![r].roles = given,
                              ![r].held = given, ![r].kept = given]
        /\ UNCHANGED <<tables, tokens>>

-----------------------------------------------------------------------------
\* Login, and the user that Refresh finds behind a session.

\* The row decides as it is read, before the transaction begins.
Login(r, p, name, passwordMatches) ==
    /\ Idle(r)
    /\ \/ GetUserByLogin(p, name) = {} /\ Answer(r, "invalid_credentials")
       \/ \E u \in GetUserByLogin(p, name) :
            IF users[u].password /\ passwordMatches
              THEN \/ Answer(r, "banned")
                   \/ req' = [req EXCEPT ![r] = For("roles", "login", p, u)]
              ELSE Answer(r, "invalid_credentials")
    /\ UNCHANGED <<tables, tokens>>

\* A good refresh token of u, in a request that names any project: the new
\* access token is one of the project of u.
Refresh(r, u) ==
    /\ Idle(r)
    /\ UserExists(u)
    /\ req' = [req EXCEPT ![r] = For("judge", "refresh", users[u].project, u)]
    /\ UNCHANGED <<tables, tokens>>

RefreshUser(r) ==
    /\ At(r, "judge")
    /\ Answer(r, "banned") \/ req' = [req EXCEPT ![r].pc = "roles"]
    /\ UNCHANGED <<tables, tokens>>

-----------------------------------------------------------------------------
\* mintAccess and the commit.

ReadRoles(r) ==
    /\ At(r, "roles")
    /\ req' = [req EXCEPT ![r].pc = "permissions",
                          ![r].roles = GetUserRoleNames(req[r].user)]
    /\ UNCHANGED <<tables, tokens>>

\* Seeded bug: the claim project_id is left empty.
IssueUnscoped(r, u, permissions) ==
    [user |-> u, project |-> None,
     roles |-> req[r].roles, permissions |-> permissions]

\* IssueAccess signs what the two statements found; nobody has the token before
\* the commit.
IssueAccess(r, u, permissions) ==
    [user |-> u, project |-> req[r].project,
     roles |-> req[r].roles, permissions |-> permissions]

\* The last statement of Login and Refresh, and their commit.
MintCommit(r, t) ==
    LET u == req[r].user
    IN  /\ At(r, "permissions")
        /\ req[r].kind \in {"login", "refresh"}
        /\ tokens[t] = None
        /\ tokens' = [tokens EXCEPT ![t] = IssueAccess(r, u, GetUserPermissionNames(u))]
        /\ Answer(r, "ok")
        /\ UNCHANGED tables

\* Seeded bug: the role is assigned after the commit, through s.q.
SignupCommitEarly(r, u, t) ==
    /\ At(r, "permissions")
    /\ req[r].kind = "signup"
    /\ ~ UserExists(u) /\ tokens[t] = None
    /\ users' = [users EXCEPT ![u] =
          [project |-> req[r].project, email |-> req[r].email,
           username |-> req[r].username, password |-> TRUE]]
    /\ tokens' = [tokens EXCEPT ![t] = IssueAccess(r, u, req[r].roles)]
    /\ Answer(r, "created")
    /\ UNCHANGED user_roles

SignupCommit(r, u, t) ==
    /\ At(r, "permissions")
    /\ req[r].kind = "signup"
    /\ ~ UserExists(u) /\ tokens[t] = None
    /\ users' = [users EXCEPT ![u] =
          [project |-> req[r].project, email |-> req[r].email,
           username |-> req[r].username, password |-> TRUE]]
    /\ user_roles' = user_roles \union ({u} \X req[r].roles)
    /\ tokens' = [tokens EXCEPT ![t] = IssueAccess(r, u, req[r].roles)]
    /\ Answer(r, "created")

-----------------------------------------------------------------------------
\* Me.

\* requireAccessToken: ParseAccess refuses an expired token, and a token opens
\* its own project only.
Opens(t, p) == tokens[t] # None /\ tokens[t].project = p

Me(r, t, p) ==
    /\ Idle(r)
    /\ IF Opens(t, p)
         THEN req' = [req EXCEPT ![r] = For("find", "me", p, tokens[t].user)]
         ELSE Answer(r, "unauthorized")
    /\ UNCHANGED <<tables, tokens>>

\* GetUserByID asks for the project as well, and not for the flag.
GetUserByID(r) ==
    /\ At(r, "find")
    /\ IF req[r].user \in UsersOf(req[r].project)
         THEN req' = [req EXCEPT ![r].pc = "roles"]
         ELSE Answer(r, "user_not_found")
    /\ UNCHANGED <<tables, tokens>>

MeAnswer(r) ==
    /\ At(r, "permissions")
    /\ req[r].kind = "me"
    /\ Answer(r, "ok")
    /\ UNCHANGED <<tables, tokens>>

-----------------------------------------------------------------------------
\* What goes wrong, and what happens around the requests.

Fail(r) ==
    /\ Faults
    /\ req[r].pc \in Waiting
    /\ Answer(r, "error")
    /\ UNCHANGED <<tables, tokens>>

\* accessTTL passes.
TokenExpires(t) ==
    /\ tokens[t] # None
    /\ tokens' = [tokens EXCEPT ![t] = None]
    /\ UNCHANGED <<tables, req>>

\* A signup code or Google sign-in makes a user, by an address or a telephone
\* number and without a password, with the default role in one transaction.
RegisterElsewhere(u, p, email) ==
    /\ ~ UserExists(u)
    /\ KeysLeft
    /\ ~ EmailTaken(p, email)
    /\ \A q \in Request : ~ Inserts(q, p, email, None)
    /\ users' = [users EXCEPT ![u] =
          [project |-> p, email |-> email, username |-> None, password |-> FALSE]]
    /\ user_roles' = user_roles \union ({u} \X GetDefaultRole(p))
    /\ UNCHANGED <<tokens, req>>

\* An administrator's acts.  The composite foreign keys of user_roles keep user
\* and role in one project.
AssignRoleToUser(u, k) ==
    /\ u \in UsersOf(RoleProject[k])
    /\ user_roles' = user_roles \union {<<u, k>>}
    /\ req' = [r \in Request |->
          IF req[r].user = u THEN [req[r] EXCEPT !.held = @ \union {k}] ELSE req[r]]
    /\ UNCHANGED <<users, tokens>>

RemoveRoleFromUser(u, k) ==
    /\ <<u, k>> \in user_roles
    /\ user_roles' = user_roles \ {<<u, k>>}
    /\ req' = [r \in Request |->
          IF req[r].user = u THEN [req[r] EXCEPT !.kept = @ \ {k}] ELSE req[r]]
    /\ UNCHANGED <<users, tokens>>

-----------------------------------------------------------------------------
Arrive(r) ==
    \/ \E p \in Project, email \in Name, username \in Name \union {None} :
          Signup(r, p, email, username)
    \/ \E p \in Project, name \in Name, passwordMatches \in BOOLEAN :
          Login(r, p, name, passwordMatches)
    \/ \E u \in User : Refresh(r, u)
    \/ \E t \in Token, p \in Project : Me(r, t, p)

Proceed(r) ==
    \/ CreateUser(r)
    \/ AttachDefaultRole(r)
    \/ RefreshUser(r)
    \/ GetUserByID(r)
    \/ ReadRoles(r)
    \/ \E t \in Token : MintCommit(r, t)
    \/ \E u \in User, t \in Token : SignupCommit(r, u, t)
    \/ MeAnswer(r)

Environment ==
    \/ \E r \in Request : Fail(r)
    \/ \E t \in Token : TokenExpires(t)
    \/ \E u \in User, p \in Project, email \in Name \union {None} :
          RegisterElsewhere(u, p, email)
    \/ \E u \in User, k \in Role : AssignRoleToUser(u, k) \/ RemoveRoleFromUser(u, k)

Next == (\E r \in Request : Arrive(r) \/ Proceed(r)) \/ Environment

Spec == Init /\ [][Next]_vars

-----------------------------------------------------------------------------
TypeOK ==
    /\ users \in [User -> UserRow \union {None}]
    /\ user_roles \in SUBSET (User \X Role)
    /\ tokens \in [Token -> AccessClaims \union {None}]
    /\ req \in [Request -> RequestState]

-----------------------------------------------------------------------------
\* Properties.

\* A project has one user per address and one per username, whoever creates
\* them: signups that overlap, a signup code, Google sign-in.
OneUserPerIdentifier ==
    \A u, v \in User : UserExists(u) /\ UserExists(v) /\ u # v =>
        LET a == users[u]
            b == users[v]
        IN  a.project = b.project =>
              /\ a.email # None => a.email # b.email
              /\ a.username # None => a.username # b.username

\* Tenant isolation: an access token is one of its user's project, and neither
\* its claims nor the rows they come from hold a role of another project.
TenantIsolation ==
    /\ \A t \in Token : tokens[t] # None =>
          /\ tokens[t].user \in UsersOf(tokens[t].project)
          /\ \A k \in tokens[t].roles \union tokens[t].permissions :
                RoleProject[k] = tokens[t].project
    /\ \A pair \in user_roles : pair[1] \in UsersOf(RoleProject[pair[2]])

\* A user and its default role come into being together: no failure between the
\* two leaves a user without the role, nor does anybody see it so.
BornWithDefaultRole ==
    [][\A u \in User : ~ UserExists(u) /\ users'[u] # None =>
          \A k \in GetDefaultRole(users'[u].project) : <<u, k>> \in user_roles']_vars

\* Stale claims are no older than the request that brought them: a token, or an
\* answer of Me, has every role and permission that its user had throughout the
\* request, and none that it did not have at some time of it.
ClaimsOfThisRequest ==
    [][\A r \in Request :
          At(r, "permissions") /\ req'[r].pc = "idle" =>
            LET fresh == {t \in Token : tokens[t] = None /\ tokens'[t] # None}
            IN  /\ req[r].kept \subseteq req[r].roles
                /\ req[r].roles \subseteq req[r].held
                /\ \A t \in fresh :
                     /\ tokens'[t].roles = req[r].roles
                     /\ req[r].kept \subseteq tokens'[t].permissions
                     /\ tokens'[t].permissions \subseteq req[r].held]_vars
=============================================================================
