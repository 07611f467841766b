--------------------------- MODULE AccountsProofs ---------------------------
(***************************************************************************)
(* Theorems about Accounts for every number of projects, names, roles,     *)
(* users, tokens and concurrent requests.                                  *)
(***************************************************************************)
EXTENDS Accounts, TLAPS

-----------------------------------------------------------------------------
\* The inductive invariant.  A request is judged as a record, so that what it
\* becomes can be judged before it is in the table.

\* The insert of a signup is done and not committed.
Pending(x) == x.kind = "signup" /\ x.pc \in Waiting \ {"create"}

\* A signup knows its project and, in the end, the roles it will assign.
SignupSound(x) ==
    x.kind = "signup" =>
        /\ x.pc \in {"create", "attach", "permissions"}
        /\ x.project \in Project
        /\ x.email \in Name
        /\ x.user = None
        /\ x.pc = "permissions" =>
              x.roles = GetDefaultRole(x.project) /\ x.held = x.roles /\ x.kept = x.roles

\* Any other request serves a user of its project, whose roles lie between the
\* ones it kept and the ones it held at some time.
UserSound(x) ==
    x.kind # "signup" /\ x.pc \in Waiting =>
        /\ x.pc \notin {"create", "attach"}
        /\ x.user \in User
        /\ x.user \in UsersOf(x.project)
        /\ x.kept \subseteq RolesOf(x.user)
        /\ RolesOf(x.user) \subseteq x.held
        /\ x.pc = "permissions" =>
              /\ x.kept \subseteq x.roles
              /\ x.roles \subseteq x.held
              /\ \A k \in x.roles : RoleProject[k] = x.project

Sound(x) == SignupSound(x) /\ UserSound(x)

RequestsSound == \A r \in Request : Sound(req[r])

\* The identifiers of an insert under way are its own, among the rows and among
\* the other inserts.
Reserved(r) ==
    /\ ~ EmailTaken(req[r].project, req[r].email)
    /\ ~ UsernameTaken(req[r].project, req[r].username)
    /\ \A q \in Request \ {r} :
          ~ Inserts(q, req[r].project, req[r].email, req[r].username)

IdentifiersReserved == \A r \in Request : Pending(req[r]) => Reserved(r)

Inv ==
    /\ TypeOK
    /\ OneUserPerIdentifier
    /\ TenantIsolation
    /\ RequestsSound
    /\ IdentifiersReserved

-----------------------------------------------------------------------------
\* Types.

LEMMA SlotTyped ==
    Slot("idle") \in RequestState /\ Slot("create") \in RequestState
  BY DEF Slot, RequestState, Kind, Waiting

LEMMA RequestTyped ==
    ASSUME TypeOK, NEW r \in Request
    PROVE  /\ req[r] \in RequestState
           /\ req[r].pc \in {"idle"} \union Waiting
           /\ req[r].kind \in Kind
           /\ req[r].project \in Project \union {None}
           /\ req[r].user \in User \union {None}
           /\ req[r].email \in Name \union {None}
           /\ req[r].username \in Name \union {None}
           /\ req[r].roles \in SUBSET Role
           /\ req[r].held \in SUBSET Role
           /\ req[r].kept \in SUBSET Role
  BY DEF TypeOK, RequestState

LEMMA UserTyped ==
    ASSUME TypeOK, NEW u \in User, UserExists(u)
    PROVE  /\ users[u] \in UserRow
           /\ users[u].project \in Project
           /\ users[u].email \in Name \union {None}
           /\ users[u].username \in Name \union {None}
  BY DEF TypeOK, UserExists, UserRow

LEMMA ForTyped ==
    ASSUME NEW label \in Waiting, NEW kind \in Kind, NEW p \in Project, NEW u \in User
    PROVE  For(label, kind, p, u) \in RequestState
  BY DEF For, Slot, RequestState, RolesOf

\* The default role of a project is one of its roles.
LEMMA DefaultRoleTyped ==
    ASSUME NEW p \in Project
    PROVE  /\ GetDefaultRole(p) \in SUBSET Role
           /\ \A k \in GetDefaultRole(p) : RoleProject[k] = p
  BY DefaultRolesAreOfTheProject DEF GetDefaultRole

-----------------------------------------------------------------------------
\* Steps of one request that touch no table.

LEMMA InitInv == Init => Inv
  <1> SUFFICES ASSUME Init PROVE Inv
    OBVIOUS
  <1>1. TypeOK
    BY SlotTyped DEF Init, TypeOK
  <1>2. OneUserPerIdentifier /\ TenantIsolation
    BY DEF Init, OneUserPerIdentifier, TenantIsolation, UserExists
  <1>3. \A r \in Request : req[r].pc = "idle" /\ req[r].kind = "me"
    BY DEF Init, Slot
  <1>4. RequestsSound /\ IdentifiersReserved
    BY <1>3 DEF RequestsSound, Sound, SignupSound, UserSound, Waiting,
                IdentifiersReserved, Pending
  <1>5. QED
    BY <1>1, <1>2, <1>4 DEF Inv

\* A request that becomes a sound one keeps the invariant, unless it is about to
\* insert: then it must be the owner of its identifiers already.
LEMMA RequestStep ==
    ASSUME Inv, NEW r \in Request, NEW x \in RequestState, Sound(x),
           req' = [req EXCEPT ![r] = x],
           UNCHANGED tables,
           tokens' \in [Token -> AccessClaims \union {None}], TenantIsolation',
           Pending(x) =>
              /\ Pending(req[r])
              /\ x.project = req[r].project
              /\ x.email = req[r].email
              /\ x.username = req[r].username
    PROVE  Inv'
  <1>1. TypeOK'
    BY DEF Inv, TypeOK, tables
  <1>2. OneUserPerIdentifier'
    BY DEF Inv, tables, OneUserPerIdentifier, UserExists
  <1>3. /\ req'[r] = x
        /\ \A q \in Request \ {r} : req'[q] = req[q]
    BY DEF Inv, TypeOK
  <1>5. RequestsSound'
    <2> SUFFICES ASSUME NEW q \in Request PROVE Sound(req[q])'
      BY DEF RequestsSound
    <2>1. Sound(req[q]) /\ Sound(x)
      BY DEF Inv, RequestsSound
    <2>2. QED
      BY <1>3, <2>1 DEF Sound, SignupSound, UserSound, UsersOf, UserExists, RolesOf, tables
  <1>6. IdentifiersReserved'
    <2> SUFFICES ASSUME NEW q \in Request, Pending(req[q])'
                 PROVE  Reserved(q)'
      BY DEF IdentifiersReserved
    <2>1. \A w \in Request :
            Pending(req'[w]) =>
              /\ Pending(req[w])
              /\ req'[w].project = req[w].project
              /\ req'[w].email = req[w].email
              /\ req'[w].username = req[w].username
      BY <1>3
    <2>2. Pending(req[q]) /\ Reserved(q)
      BY <2>1 DEF Inv, IdentifiersReserved, Pending
    <2>3. /\ req'[q].project = req[q].project
          /\ req'[q].email = req[q].email
          /\ req'[q].username = req[q].username
      BY <2>1 DEF Pending
    <2>4. ~ EmailTaken(req[q].project, req[q].email)'
          /\ ~ UsernameTaken(req[q].project, req[q].username)'
      BY <2>2, <2>3 DEF Reserved, EmailTaken, UsernameTaken, UsersOf, UserExists, tables
    <2>5. ASSUME NEW w \in Request \ {q}
          PROVE  ~ Inserts(w, req[q].project, req[q].email, req[q].username)'
      <3>1. ~ Inserts(w, req[q].project, req[q].email, req[q].username)
        BY <2>2 DEF Reserved
      <3>2. CASE Pending(req'[w])
        BY <2>1, <2>3, <3>1, <3>2 DEF Inserts, Pending
      <3>3. CASE ~ Pending(req'[w])
        BY <3>3 DEF Inserts, Pending
      <3>4. QED
        BY <3>2, <3>3
    <2>6. QED
      BY <2>4, <2>5 DEF Reserved
  <1>7. QED
    BY <1>1, <1>2, <1>5, <1>6 DEF Inv

LEMMA LocalStep ==
    ASSUME Inv, NEW r \in Request, NEW x \in RequestState, Sound(x),
           req' = [req EXCEPT ![r] = x],
           UNCHANGED <<tables, tokens>>,
           Pending(x) =>
              /\ Pending(req[r])
              /\ x.project = req[r].project
              /\ x.email = req[r].email
              /\ x.username = req[r].username
    PROVE  Inv'
  <1>1. tokens' \in [Token -> AccessClaims \union {None}]
    BY DEF Inv, TypeOK
  <1>2. TenantIsolation'
    BY DEF Inv, tables, TenantIsolation, UserExists, UsersOf
  <1>3. QED
    BY <1>1, <1>2, RequestStep

LEMMA IdleSound == Sound(Slot("idle")) /\ ~ Pending(Slot("idle"))
  <1>1. Slot("idle").pc = "idle" /\ Slot("idle").kind = "me"
    BY DEF Slot
  <1>2. QED
    BY <1>1 DEF Sound, SignupSound, UserSound, Pending, Waiting

LEMMA AnswerStep ==
    ASSUME Inv, NEW r \in Request, NEW verdict, Answer(r, verdict),
           UNCHANGED <<tables, tokens>>
    PROVE  Inv'
  BY IdleSound, SlotTyped, LocalStep DEF Answer

\* A request that begins to serve a user of its project is sound, whatever it is.
LEMMA ForSound ==
    ASSUME NEW label \in {"judge", "find", "roles"}, NEW kind \in Kind \ {"signup"},
           NEW p \in Project, NEW u \in UsersOf(p)
    PROVE  Sound(For(label, kind, p, u)) /\ ~ Pending(For(label, kind, p, u))
  BY DEF Sound, SignupSound, UserSound, Pending, For, Slot, Kind, Waiting, UsersOf

-----------------------------------------------------------------------------
\* One lemma per action.

LEMMA SignupKeeps ==
    ASSUME Inv, NEW r \in Request, NEW p \in Project, NEW email \in Name,
           NEW username \in Name \union {None}, Signup(r, p, email, username)
    PROVE  Inv'
  <1> DEFINE x == [Slot("create") EXCEPT
                     !.kind = "signup", !.project = p,
                     !.email = email, !.username = username]
  <1>1. x \in RequestState
    BY SlotTyped DEF RequestState, Kind
  <1>2. x.kind = "signup" /\ x.pc = "create" /\ x.project = p /\ x.email = email
        /\ x.user = None
    BY DEF Slot
  <1>3. Sound(x) /\ ~ Pending(x)
    BY <1>2 DEF Sound, SignupSound, UserSound, Pending
  <1>4. req' = [req EXCEPT ![r] = x] /\ UNCHANGED <<tables, tokens>>
    BY DEF Signup
  <1> HIDE DEF x
  <1>5. QED
    BY <1>1, <1>3, <1>4, LocalStep

\* The insert finds its identifiers free, among the rows and the other inserts.
LEMMA CreateUserKeeps ==
    ASSUME Inv, NEW r \in Request, CreateUser(r)
    PROVE  Inv'
  <1> DEFINE p == req[r].project
             e == req[r].email
             n == req[r].username
  <1>1. CASE EmailTaken(p, e) \/ UsernameTaken(p, n)
    BY <1>1, AnswerStep DEF CreateUser
  <1>2. CASE ~ EmailTaken(p, e) /\ ~ UsernameTaken(p, n)
    <2>1. /\ req' = [req EXCEPT ![r].pc = "attach"]
          /\ UNCHANGED <<tables, tokens>>
          /\ At(r, "create")
          /\ \A q \in Request \ {r} : ~ Inserts(q, p, e, n)
      BY <1>2 DEF CreateUser
    <2>2. TypeOK'
      BY <2>1, RequestTyped DEF Inv, TypeOK, tables, RequestState, Waiting
    <2>3. /\ \A q \in Request \ {r} : req'[q] = req[q]
          /\ req'[r].pc = "attach"
          /\ req'[r].kind = req[r].kind
          /\ req'[r].project = p
          /\ req'[r].email = e
          /\ req'[r].username = n
          /\ req'[r].user = req[r].user
      BY <2>1, RequestTyped DEF Inv, TypeOK, RequestState
    <2>4. Sound(req[r]) /\ req[r].pc = "create"
      BY <2>1 DEF Inv, RequestsSound, At
    <2>5. req[r].kind = "signup"
      BY <2>4 DEF Sound, UserSound, Waiting
    <2>6. RequestsSound'
      <3> SUFFICES ASSUME NEW q \in Request PROVE Sound(req[q])'
        BY DEF RequestsSound
      <3>1. CASE q = r
        BY <3>1, <2>3, <2>4, <2>5 DEF Sound, SignupSound, UserSound
      <3>2. CASE q # r
        BY <3>2, <2>1, <2>3 DEF Inv, RequestsSound, Sound, SignupSound, UserSound,
                                UsersOf, UserExists, RolesOf, tables
      <3>3. QED
        BY <3>1, <3>2
    <2>7. IdentifiersReserved'
      <3> SUFFICES ASSUME NEW q \in Request, Pending(req[q])' PROVE Reserved(q)'
        BY DEF IdentifiersReserved
      <3>1. CASE q = r
        <4>1. ~ EmailTaken(req[q].project, req[q].email)'
              /\ ~ UsernameTaken(req[q].project, req[q].username)'
          BY <1>2, <2>1, <2>3, <3>1 DEF EmailTaken, UsernameTaken, UsersOf, UserExists, tables
        <4>2. \A w \in Request \ {q} :
                 ~ Inserts(w, req[q].project, req[q].email, req[q].username)'
          BY <2>1, <2>3, <3>1 DEF Inserts
        <4>3. QED
          BY <4>1, <4>2 DEF Reserved
      <3>2. CASE q # r
        <4>1. Pending(req[q]) /\ Reserved(q) /\ req'[q] = req[q]
          BY <3>2, <2>3 DEF Inv, IdentifiersReserved, Pending
        <4>2. ~ EmailTaken(req[q].project, req[q].email)'
              /\ ~ UsernameTaken(req[q].project, req[q].username)'
          BY <2>1, <4>1 DEF Reserved, EmailTaken, UsernameTaken, UsersOf, UserExists, tables
        <4>3. ~ Inserts(r, req[q].project, req[q].email, req[q].username)'
          <5>1. ~ Inserts(q, p, e, n)
            BY <2>1, <3>2
          <5>2. QED
            BY <2>3, <4>1, <5>1, RequestTyped DEF Inserts, Pending, Inv
        <4>4. \A w \in Request \ {q, r} :
                 ~ Inserts(w, req[q].project, req[q].email, req[q].username)'
          BY <2>3, <4>1 DEF Reserved, Inserts
        <4>5. QED
          BY <4>2, <4>3, <4>4 DEF Reserved
      <3>3. QED
        BY <3>1, <3>2
    <2>8. OneUserPerIdentifier' /\ TenantIsolation'
      BY <2>1 DEF Inv, tables, OneUserPerIdentifier, TenantIsolation, UserExists, UsersOf
    <2>9. QED
      BY <2>2, <2>6, <2>7, <2>8 DEF Inv
  <1>3. QED
    BY <1>1, <1>2

LEMMA AttachDefaultRoleKeeps ==
    ASSUME Inv, NEW r \in Request, AttachDefaultRole(r)
    PROVE  Inv'
  <1> DEFINE given == GetDefaultRole(req[r].project)
             x == [req[r] EXCEPT !.pc = "permissions", !.roles = given,
                                 !.held = given, !.kept = given]
  <1>1. req[r].pc = "attach" /\ Sound(req[r]) /\ req[r] \in RequestState
    BY RequestTyped DEF AttachDefaultRole, At, Inv, RequestsSound
  <1>2. req[r].kind = "signup" /\ req[r].project \in Project
    <2>1. req[r].kind = "signup"
      BY <1>1 DEF Sound, UserSound, Waiting
    <2>2. QED
      BY <1>1, <2>1 DEF Sound, SignupSound
  <1>3. x \in RequestState
    BY <1>1, <1>2, DefaultRoleTyped DEF RequestState, Waiting
  <1>4. /\ x.kind = "signup" /\ x.pc = "permissions" /\ x.project = req[r].project
        /\ x.email = req[r].email /\ x.username = req[r].username /\ x.user = req[r].user
        /\ x.roles = given /\ x.held = given /\ x.kept = given
    BY <1>1, <1>2 DEF RequestState
  <1>5. Sound(x)
    BY <1>1, <1>2, <1>4 DEF Sound, SignupSound, UserSound
  <1>6. Pending(req[r])
    BY <1>1, <1>2 DEF Pending, Waiting
  <1>7. req' = [req EXCEPT ![r] = x] /\ UNCHANGED <<tables, tokens>>
    BY DEF AttachDefaultRole
  <1> HIDE DEF x
  <1>8. QED
    BY <1>3, <1>4, <1>5, <1>6, <1>7, LocalStep

LEMMA LoginKeeps ==
    ASSUME Inv, NEW r \in Request, NEW p \in Project, NEW name \in Name,
           NEW passwordMatches \in BOOLEAN, Login(r, p, name, passwordMatches)
    PROVE  Inv'
  <1>1. CASE \E verdict : Answer(r, verdict)
    BY <1>1, AnswerStep DEF Login
  <1>2. ASSUME NEW u \in GetUserByLogin(p, name),
               req' = [req EXCEPT ![r] = For("roles", "login", p, u)]
        PROVE  Inv'
    <2>1. u \in UsersOf(p) /\ u \in User
      BY DEF GetUserByLogin, UsersOf
    <2>2. For("roles", "login", p, u) \in RequestState
      BY <2>1, ForTyped DEF Waiting, Kind
    <2>3. Sound(For("roles", "login", p, u)) /\ ~ Pending(For("roles", "login", p, u))
      BY <2>1, ForSound DEF Waiting, Kind
    <2>4. QED
      BY <1>2, <2>2, <2>3, LocalStep DEF Login
  <1>3. QED
    BY <1>1, <1>2 DEF Login

LEMMA RefreshKeeps ==
    ASSUME Inv, NEW r \in Request, NEW u \in User, Refresh(r, u)
    PROVE  Inv'
  <1> DEFINE p == users[u].project
             x == For("judge", "refresh", p, u)
  <1>1. p \in Project /\ u \in UsersOf(p)
    BY UserTyped DEF Refresh, UsersOf, Inv
  <1>2. x \in RequestState
    BY <1>1, ForTyped DEF Waiting, Kind
  <1>3. Sound(x) /\ ~ Pending(x)
    BY <1>1, ForSound DEF Waiting, Kind
  <1>4. req' = [req EXCEPT ![r] = x] /\ UNCHANGED <<tables, tokens>>
    BY DEF Refresh
  <1> HIDE DEF x
  <1>5. QED
    BY <1>2, <1>3, <1>4, LocalStep

\* A request for a user goes on to its next statement.
LEMMA NextStatement ==
    ASSUME Inv, NEW r \in Request, req[r].pc \in {"judge", "find"},
           req' = [req EXCEPT ![r].pc = "roles"], UNCHANGED <<tables, tokens>>
    PROVE  Inv'
  <1> DEFINE x == [req[r] EXCEPT !.pc = "roles"]
  <1>1. Sound(req[r]) /\ req[r] \in RequestState
    BY RequestTyped DEF Inv, RequestsSound
  <1>2. req[r].kind # "signup"
    BY <1>1 DEF Sound, SignupSound
  <1>3. x \in RequestState
    BY <1>1 DEF RequestState, Waiting
  <1>4. /\ x.pc = "roles" /\ x.kind = req[r].kind /\ x.user = req[r].user
        /\ x.project = req[r].project /\ x.held = req[r].held /\ x.kept = req[r].kept
    BY <1>1 DEF RequestState
  <1>5. Sound(x) /\ ~ Pending(x)
    BY <1>1, <1>2, <1>4 DEF Sound, SignupSound, UserSound, Pending, Waiting
  <1>6. req' = [req EXCEPT ![r] = x]
    OBVIOUS
  <1> HIDE DEF x
  <1>7. QED
    BY <1>3, <1>5, <1>6, LocalStep

LEMMA ReadRolesKeeps ==
    ASSUME Inv, NEW r \in Request, ReadRoles(r)
    PROVE  Inv'
  <1> DEFINE u == req[r].user
             x == [req[r] EXCEPT !.pc = "permissions", !.roles = GetUserRoleNames(u)]
  <1>1. Sound(req[r]) /\ req[r] \in RequestState /\ req[r].pc = "roles"
    BY RequestTyped DEF Inv, RequestsSound, ReadRoles, At
  <1>2. req[r].kind # "signup" /\ u \in UsersOf(req[r].project)
        /\ req[r].kept \subseteq RolesOf(u) /\ RolesOf(u) \subseteq req[r].held
    BY <1>1 DEF Sound, SignupSound, UserSound, Waiting
  <1>3. x \in RequestState
    BY <1>1 DEF RequestState, Waiting, GetUserRoleNames, RolesOf
  <1>4. /\ x.pc = "permissions" /\ x.kind = req[r].kind /\ x.user = u
        /\ x.project = req[r].project /\ x.held = req[r].held /\ x.kept = req[r].kept
        /\ x.roles = RolesOf(u)
    BY <1>1 DEF RequestState, GetUserRoleNames
  <1>5. \A k \in RolesOf(u) : RoleProject[k] = req[r].project
    BY <1>2 DEF RolesOf, Inv, TenantIsolation, UsersOf
  <1>6. Sound(x) /\ ~ Pending(x)
    BY <1>1, <1>2, <1>4, <1>5 DEF Sound, SignupSound, UserSound, Pending, Waiting
  <1>7. req' = [req EXCEPT ![r] = x] /\ UNCHANGED <<tables, tokens>>
    BY DEF ReadRoles
  <1> HIDE DEF x
  <1>8. QED
    BY <1>3, <1>6, <1>7, LocalStep

LEMMA MeKeeps ==
    ASSUME Inv, NEW r \in Request, NEW t \in Token, NEW p \in Project, Me(r, t, p)
    PROVE  Inv'
  <1>1. CASE ~ Opens(t, p)
    BY <1>1, AnswerStep DEF Me
  <1>2. CASE Opens(t, p)
    <2> DEFINE u == tokens[t].user
               x == For("find", "me", p, u)
    <2>1. u \in UsersOf(p) /\ u \in User
      BY <1>2 DEF Opens, Inv, TenantIsolation, UsersOf
    <2>2. x \in RequestState
      BY <2>1, ForTyped DEF Waiting, Kind
    <2>3. Sound(x) /\ ~ Pending(x)
      BY <2>1, ForSound DEF Waiting, Kind
    <2>4. req' = [req EXCEPT ![r] = x] /\ UNCHANGED <<tables, tokens>>
      BY <1>2 DEF Me
    <2> HIDE DEF x
    <2>5. QED
      BY <2>2, <2>3, <2>4, LocalStep
  <1>3. QED
    BY <1>1, <1>2

LEMMA MintCommitKeeps ==
    ASSUME Inv, NEW r \in Request, NEW t \in Token, MintCommit(r, t)
    PROVE  Inv'
  <1> DEFINE u == req[r].user
             c == IssueAccess(r, u, GetUserPermissionNames(u))
  <1>1. req[r] \in RequestState /\ Sound(req[r]) /\ req[r].pc = "permissions"
        /\ req[r].kind # "signup"
    BY RequestTyped DEF Inv, RequestsSound, MintCommit, At
  <1>2. u \in User /\ u \in UsersOf(req[r].project)
        /\ \A k \in req[r].roles : RoleProject[k] = req[r].project
    BY <1>1 DEF Sound, UserSound, Waiting
  <1>3. req[r].project \in Project
    BY <1>2, UserTyped DEF Inv, UsersOf
  <1>4. \A k \in RolesOf(u) : RoleProject[k] = req[r].project
    BY <1>2 DEF RolesOf, Inv, TenantIsolation, UsersOf
  <1>5. c \in AccessClaims /\ c.user = u /\ c.project = req[r].project
        /\ c.roles = req[r].roles /\ c.permissions = RolesOf(u)
    BY <1>1, <1>2, <1>3, RequestTyped
       DEF IssueAccess, AccessClaims, GetUserPermissionNames, RolesOf, Inv
  <1>6. tokens' = [tokens EXCEPT ![t] = c] /\ UNCHANGED tables
        /\ req' = [req EXCEPT ![r] = Slot("idle")]
    BY DEF MintCommit, Answer
  <1> HIDE DEF c
  <1>7. tokens' \in [Token -> AccessClaims \union {None}]
    BY <1>5, <1>6 DEF Inv, TypeOK
  <1>8. TenantIsolation'
    <2>1. \A p : UsersOf(p)' = UsersOf(p)
      BY <1>6 DEF UsersOf, UserExists, tables
    <2>2. ASSUME NEW s \in Token, tokens'[s] # None
          PROVE  /\ tokens'[s].user \in UsersOf(tokens'[s].project)
                 /\ \A k \in tokens'[s].roles \union tokens'[s].permissions :
                       RoleProject[k] = tokens'[s].project
      <3>1. CASE s = t
        BY <1>2, <1>4, <1>5, <1>6, <3>1 DEF Inv, TypeOK
      <3>2. CASE s # t
        BY <1>6, <2>2, <3>2 DEF Inv, TypeOK, TenantIsolation
      <3>3. QED
        BY <3>1, <3>2
    <2>3. QED
      BY <1>6, <2>1, <2>2 DEF Inv, TenantIsolation, tables
  <1>9. QED
    BY <1>6, <1>7, <1>8, IdleSound, SlotTyped, RequestStep

\* A user comes into being with identifiers that are free and with roles of its
\* project; the requests go on as they were, or end.
LEMMA EnrolStep ==
    ASSUME Inv, NEW u \in User, ~ UserExists(u), NEW row \in UserRow,
           NEW given \in SUBSET Role, \A k \in given : RoleProject[k] = row.project,
           ~ EmailTaken(row.project, row.email),
           ~ UsernameTaken(row.project, row.username),
           users' = [users EXCEPT ![u] = row],
           user_roles' = user_roles \union ({u} \X given),
           tokens' \in [Token -> AccessClaims \union {None}],
           \A t \in Token :
              \/ tokens'[t] = tokens[t]
              \/ /\ tokens'[t].user = u /\ tokens'[t].project = row.project
                 /\ tokens'[t].roles \subseteq given
                 /\ tokens'[t].permissions \subseteq given,
           req' \in [Request -> RequestState],
           \A q \in Request :
              \/ req'[q] = Slot("idle")
              \/ /\ req'[q] = req[q]
                 /\ ~ Inserts(q, row.project, row.email, row.username)
    PROVE  Inv'
  <1>1. /\ users'[u] = row
        /\ \A v \in User \ {u} : users'[v] = users[v]
        /\ row # None
    BY NoneIsNothing DEF Inv, TypeOK
  <1>2. TypeOK'
    BY DEF Inv, TypeOK
  <1>3. OneUserPerIdentifier'
    <2> SUFFICES ASSUME NEW v \in User, NEW w \in User, v # w,
                        UserExists(v)', UserExists(w)',
                        users'[v].project = users'[w].project
                 PROVE  /\ users'[v].email # None => users'[v].email # users'[w].email
                        /\ users'[v].username # None
                             => users'[v].username # users'[w].username
      BY DEF OneUserPerIdentifier
    <2>1. CASE v # u /\ w # u
      BY <1>1, <2>1 DEF Inv, OneUserPerIdentifier, UserExists
    <2>2. CASE v = u
      BY <1>1, <2>2 DEF EmailTaken, UsernameTaken, UsersOf, UserExists
    <2>3. CASE w = u
      BY <1>1, <2>3 DEF EmailTaken, UsernameTaken, UsersOf, UserExists
    <2>4. QED
      BY <2>1, <2>2, <2>3
  <1>4. /\ \A p : UsersOf(p)' = UsersOf(p) \union {v \in {u} : row.project = p}
        /\ \A p : u \notin UsersOf(p)
    BY <1>1 DEF UsersOf, UserExists
  <1>5. \A v \in User \ {u} : RolesOf(v)' = RolesOf(v)
    BY DEF RolesOf
  <1>6. TenantIsolation'
    <2>1. \A p, v : v \in UsersOf(p) => v \in UsersOf(p)'
      BY <1>4
    <2>2. \A p : p = row.project => u \in UsersOf(p)'
      BY <1>4
    <2>3. ASSUME NEW t \in Token, tokens'[t] # None
          PROVE  /\ (tokens[t].user \in UsersOf(tokens[t].project))'
                 /\ \A k \in tokens'[t].roles \union tokens'[t].permissions :
                       RoleProject[k] = tokens'[t].project
      <3>1. CASE tokens'[t] = tokens[t]
        <4>1. /\ tokens[t].user \in UsersOf(tokens[t].project)
              /\ \A k \in tokens[t].roles \union tokens[t].permissions :
                    RoleProject[k] = tokens[t].project
          BY <2>3, <3>1 DEF Inv, TenantIsolation
        <4>2. QED
          BY <1>1, <3>1, <4>1 DEF UsersOf, UserExists
      <3>2. CASE tokens'[t] # tokens[t]
        <4>1. /\ tokens'[t].user = u /\ tokens'[t].project = row.project
              /\ tokens'[t].roles \subseteq given
              /\ tokens'[t].permissions \subseteq given
          BY <3>2
        <4>2. QED
          BY <1>1, <4>1 DEF UsersOf, UserExists
      <3>3. QED
        BY <3>1, <3>2
    <2>4. ASSUME NEW pair \in user_roles'
          PROVE  pair[1] \in UsersOf(RoleProject[pair[2]])'
      <3>1. CASE pair \in user_roles
        BY <2>1, <3>1 DEF Inv, TenantIsolation
      <3>2. CASE pair \in {u} \X given
        BY <2>2, <3>2
      <3>3. QED
        BY <2>4, <3>1, <3>2
    <2>5. QED
      BY <2>3, <2>4 DEF TenantIsolation, UsersOf, UserExists
  <1>7. RequestsSound'
    <2> SUFFICES ASSUME NEW q \in Request PROVE Sound(req[q])'
      BY DEF RequestsSound
    <2>1. Sound(req[q]) /\ Sound(Slot("idle"))
      BY IdleSound DEF Inv, RequestsSound
    <2>2. CASE req'[q] = Slot("idle")
      BY <2>2 DEF Sound, SignupSound, UserSound, Slot, Waiting
    <2>3. CASE req'[q] = req[q]
      <3>1. SignupSound(req[q])'
        BY <2>1, <2>3 DEF Sound, SignupSound
      <3>2. UserSound(req[q])'
        BY <1>4, <1>5, <2>1, <2>3 DEF Sound, UserSound
      <3>3. QED
        BY <3>1, <3>2 DEF Sound
    <2>4. QED
      BY <2>2, <2>3
  <1>8. IdentifiersReserved'
    <2> SUFFICES ASSUME NEW q \in Request, Pending(req[q])' PROVE Reserved(q)'
      BY DEF IdentifiersReserved
    <2>1. req'[q] = req[q] /\ ~ Inserts(q, row.project, row.email, row.username)
      BY DEF Pending, Slot
    <2>2. Pending(req[q]) /\ Reserved(q)
      BY <2>1 DEF Pending, Inv, IdentifiersReserved
    <2>3. ~ EmailTaken(req[q].project, req[q].email)'
      BY <1>1, <2>1, <2>2 DEF Reserved, EmailTaken, UsersOf, UserExists, Inserts, Pending
    <2>4. ~ UsernameTaken(req[q].project, req[q].username)'
      BY <1>1, <2>1, <2>2 DEF Reserved, UsernameTaken, UsersOf, UserExists, Inserts, Pending
    <2>5. ASSUME NEW w \in Request \ {q}
          PROVE  ~ Inserts(w, req[q].project, req[q].email, req[q].username)'
      BY <2>1, <2>2 DEF Reserved, Inserts, Slot
    <2>6. QED
      BY <2>3, <2>4, <2>5 DEF Reserved
  <1>9. QED
    BY <1>2, <1>3, <1>6, <1>7, <1>8 DEF Inv

LEMMA SignupCommitKeeps ==
    ASSUME Inv, NEW r \in Request, NEW u \in User, NEW t \in Token, SignupCommit(r, u, t)
    PROVE  Inv'
  <1> DEFINE row == [project |-> req[r].project, email |-> req[r].email,
                     username |-> req[r].username, password |-> TRUE]
             given == req[r].roles
             c == IssueAccess(r, u, given)
  <1>1. /\ req[r] \in RequestState /\ Sound(req[r])
        /\ req[r].pc = "permissions" /\ req[r].kind = "signup"
    BY RequestTyped DEF Inv, RequestsSound, SignupCommit, At
  <1>2. /\ req[r].project \in Project /\ req[r].email \in Name
        /\ given = GetDefaultRole(req[r].project)
    BY <1>1 DEF Sound, SignupSound
  <1>3. given \in SUBSET Role /\ \A k \in given : RoleProject[k] = req[r].project
    BY <1>2, DefaultRoleTyped
  <1>4. row \in UserRow
    BY <1>1, <1>2 DEF UserRow, RequestState
  <1>5. Pending(req[r]) /\ Reserved(r)
    BY <1>1 DEF Pending, Waiting, Inv, IdentifiersReserved
  <1>6. c \in AccessClaims /\ c.user = u /\ c.project = req[r].project
        /\ c.roles = given /\ c.permissions = given
    BY <1>2, <1>3 DEF IssueAccess, AccessClaims
  <1>7. /\ ~ UserExists(u)
        /\ users' = [users EXCEPT ![u] = row]
        /\ user_roles' = user_roles \union ({u} \X given)
        /\ tokens' = [tokens EXCEPT ![t] = c]
        /\ req' = [req EXCEPT ![r] = Slot("idle")]
    BY DEF SignupCommit, Answer
  <1>8. /\ row.project = req[r].project /\ row.email = req[r].email
        /\ row.username = req[r].username
    OBVIOUS
  <1> HIDE DEF row, given, c
  <1>9. /\ ~ EmailTaken(row.project, row.email)
        /\ ~ UsernameTaken(row.project, row.username)
        /\ \A q \in Request \ {r} : ~ Inserts(q, row.project, row.email, row.username)
    BY <1>5, <1>8 DEF Reserved
  <1>10. /\ req' \in [Request -> RequestState]
         /\ req'[r] = Slot("idle")
         /\ \A q \in Request \ {r} : req'[q] = req[q]
    BY <1>7, SlotTyped DEF Inv, TypeOK
  <1>11. /\ tokens' \in [Token -> AccessClaims \union {None}]
         /\ tokens'[t] = c
         /\ \A s \in Token \ {t} : tokens'[s] = tokens[s]
    BY <1>6, <1>7 DEF Inv, TypeOK
  <1>12. \A q \in Request :
            \/ req'[q] = Slot("idle")
            \/ req'[q] = req[q] /\ ~ Inserts(q, row.project, row.email, row.username)
    BY <1>9, <1>10
  <1>13. \A s \in Token :
            \/ tokens'[s] = tokens[s]
            \/ /\ tokens'[s].user = u /\ tokens'[s].project = row.project
               /\ tokens'[s].roles \subseteq given
               /\ tokens'[s].permissions \subseteq given
    BY <1>6, <1>8, <1>11
  <1>14. \A k \in given : RoleProject[k] = row.project
    BY <1>3, <1>8
  <1>15. QED
    BY <1>3, <1>4, <1>7, <1>9, <1>10, <1>11, <1>12, <1>13, <1>14, EnrolStep

LEMMA RegisterElsewhereKeeps ==
    ASSUME Inv, NEW u \in User, NEW p \in Project, NEW email \in Name \union {None},
           RegisterElsewhere(u, p, email)
    PROVE  Inv'
  <1> DEFINE row == [project |-> p, email |-> email, username |-> None, password |-> FALSE]
             given == GetDefaultRole(p)
  <1>1. row \in UserRow
    BY DEF UserRow
  <1>2. row.project = p /\ row.email = email /\ row.username = None
    OBVIOUS
  <1>3. /\ ~ UserExists(u) /\ ~ EmailTaken(p, email)
        /\ \A q \in Request : ~ Inserts(q, p, email, None)
        /\ users' = [users EXCEPT ![u] = row]
        /\ user_roles' = user_roles \union ({u} \X given)
        /\ tokens' = tokens /\ req' = req
    BY DEF RegisterElsewhere
  <1>4. given \in SUBSET Role /\ \A k \in given : RoleProject[k] = p
    BY DefaultRoleTyped
  <1> HIDE DEF row, given
  <1>5. ~ EmailTaken(row.project, row.email) /\ ~ UsernameTaken(row.project, row.username)
    BY <1>2, <1>3 DEF UsernameTaken
  <1>6. \A q \in Request :
           req'[q] = req[q] /\ ~ Inserts(q, row.project, row.email, row.username)
    BY <1>2, <1>3
  <1>7. /\ tokens' \in [Token -> AccessClaims \union {None}]
        /\ req' \in [Request -> RequestState]
    BY <1>3 DEF Inv, TypeOK
  <1>8. \A k \in given : RoleProject[k] = row.project
    BY <1>2, <1>4
  <1>9. \A s \in Token : tokens'[s] = tokens[s]
    BY <1>3
  <1>10. QED
    BY <1>1, <1>3, <1>4, <1>5, <1>6, <1>7, <1>8, <1>9, EnrolStep

LEMMA TokenExpiresKeeps ==
    ASSUME Inv, NEW t \in Token, TokenExpires(t)
    PROVE  Inv'
  <1>1. /\ tokens' = [tokens EXCEPT ![t] = None]
        /\ users' = users /\ user_roles' = user_roles /\ req' = req
    BY DEF TokenExpires, tables
  <1>2. TypeOK'
    BY <1>1 DEF Inv, TypeOK
  <1>3. OneUserPerIdentifier'
    BY <1>1 DEF Inv, OneUserPerIdentifier, UserExists
  <1>4. TenantIsolation'
    <2>1. tokens'[t] = None /\ \A s \in Token \ {t} : tokens'[s] = tokens[s]
      BY <1>1 DEF Inv, TypeOK
    <2>2. QED
      BY <1>1, <2>1 DEF Inv, TenantIsolation, UsersOf, UserExists
  <1>5. RequestsSound'
    BY <1>1 DEF Inv, RequestsSound, Sound, SignupSound, UserSound, UsersOf, UserExists, RolesOf
  <1>6. IdentifiersReserved'
    BY <1>1 DEF Inv, IdentifiersReserved, Pending, Reserved, EmailTaken, UsernameTaken,
                UsersOf, UserExists, Inserts
  <1>7. QED
    BY <1>2, <1>3, <1>4, <1>5, <1>6 DEF Inv

\* An administrator changes the roles of u: requests differ in their ghosts only.
LEMMA RolesChange ==
    ASSUME Inv, NEW u \in User, NEW k \in Role,
           UNCHANGED <<users, tokens>>,
           user_roles' \in SUBSET (User \X Role),
           \A pair \in user_roles' : pair \in user_roles \/ pair = <<u, k>>,
           <<u, k>> \in user_roles' => u \in UsersOf(RoleProject[k]),
           req' \in [Request -> RequestState],
           \A q \in Request :
              /\ req'[q].pc = req[q].pc /\ req'[q].kind = req[q].kind
              /\ req'[q].project = req[q].project /\ req'[q].user = req[q].user
              /\ req'[q].email = req[q].email /\ req'[q].username = req[q].username
              /\ req'[q].roles = req[q].roles
              /\ req[q].held \subseteq req'[q].held
              /\ req'[q].kept \subseteq req[q].kept
              /\ req[q].user = None =>
                    req'[q].held = req[q].held /\ req'[q].kept = req[q].kept
              /\ req[q].user \in User /\ req[q].kept \subseteq RolesOf(req[q].user) =>
                    req'[q].kept \subseteq RolesOf(req[q].user)'
              /\ req[q].user \in User /\ RolesOf(req[q].user) \subseteq req[q].held =>
                    RolesOf(req[q].user)' \subseteq req'[q].held
    PROVE  Inv'
  <1>1. TypeOK'
    BY DEF Inv, TypeOK
  <1>2. OneUserPerIdentifier'
    BY DEF Inv, OneUserPerIdentifier, UserExists
  <1>3. TenantIsolation'
    <2>1. \A pair \in user_roles' : pair[1] \in UsersOf(RoleProject[pair[2]])
      BY DEF Inv, TenantIsolation
    <2>2. QED
      BY <2>1 DEF Inv, TenantIsolation, UsersOf, UserExists
  <1>4. RequestsSound'
    <2> SUFFICES ASSUME NEW q \in Request PROVE Sound(req[q])'
      BY DEF RequestsSound
    <2>1. Sound(req[q])
      BY DEF Inv, RequestsSound
    <2>2. SignupSound(req[q])'
      BY <2>1 DEF Sound, SignupSound
    <2>3. UserSound(req[q])'
      <3> SUFFICES ASSUME req[q].kind # "signup", req[q].pc \in Waiting
                   PROVE  UserSound(req[q])'
        BY DEF UserSound
      <3>1. /\ req[q].pc \notin {"create", "attach"}
            /\ req[q].user \in User
            /\ req[q].user \in UsersOf(req[q].project)
            /\ req[q].kept \subseteq RolesOf(req[q].user)
            /\ RolesOf(req[q].user) \subseteq req[q].held
            /\ req[q].pc = "permissions" =>
                  /\ req[q].kept \subseteq req[q].roles
                  /\ req[q].roles \subseteq req[q].held
                  /\ \A j \in req[q].roles : RoleProject[j] = req[q].project
        BY <2>1 DEF Sound, UserSound
      <3>2. req'[q].user \in UsersOf(req[q].project)'
        BY <3>1 DEF UsersOf, UserExists
      <3>3. /\ req'[q].kept \subseteq RolesOf(req[q].user)'
            /\ RolesOf(req[q].user)' \subseteq req'[q].held
        BY <3>1
      <3>4. QED
        BY <3>1, <3>2, <3>3 DEF UserSound
    <2>4. QED
      BY <2>2, <2>3 DEF Sound
  <1>5. IdentifiersReserved'
    <2>1. \A q \in Request : Pending(req[q])' => Pending(req[q])
      BY DEF Pending
    <2>2. QED
      BY <2>1 DEF Inv, IdentifiersReserved, Reserved, EmailTaken, UsernameTaken,
                  UsersOf, UserExists, Inserts
  <1>6. QED
    BY <1>1, <1>2, <1>3, <1>4, <1>5 DEF Inv

LEMMA AssignRoleKeeps ==
    ASSUME Inv, NEW u \in User, NEW k \in Role, AssignRoleToUser(u, k)
    PROVE  Inv'
  <1>1. /\ u \in UsersOf(RoleProject[k])
        /\ user_roles' = user_roles \union {<<u, k>>}
        /\ UNCHANGED <<users, tokens>>
    BY DEF AssignRoleToUser
  <1>2. /\ user_roles' \in SUBSET (User \X Role)
        /\ \A pair \in user_roles' : pair \in user_roles \/ pair = <<u, k>>
    BY <1>1 DEF Inv, TypeOK
  <1>3. ASSUME NEW q \in Request
        PROVE  /\ req'[q] \in RequestState
               /\ req'[q].pc = req[q].pc /\ req'[q].kind = req[q].kind
               /\ req'[q].project = req[q].project /\ req'[q].user = req[q].user
               /\ req'[q].email = req[q].email /\ req'[q].username = req[q].username
               /\ req'[q].roles = req[q].roles /\ req'[q].kept = req[q].kept
               /\ req'[q].held = IF req[q].user = u THEN req[q].held \union {k}
                                                    ELSE req[q].held
    <2>1. req'[q] = IF req[q].user = u THEN [req[q] EXCEPT !.held = @ \union {k}]
                                       ELSE req[q]
      BY DEF AssignRoleToUser
    <2>2. req[q] \in RequestState
      BY DEF Inv, TypeOK
    <2>3. QED
      BY <2>1, <2>2 DEF RequestState
  <1>4. req' \in [Request -> RequestState]
    <2>1. req' = [q \in Request |-> req'[q]]
      BY DEF AssignRoleToUser
    <2>2. QED
      BY <1>3, <2>1
  <1>5. /\ \A v : RolesOf(v) \subseteq RolesOf(v)'
        /\ \A v : v # u => RolesOf(v)' = RolesOf(v)
        /\ RolesOf(u)' = RolesOf(u) \union {k}
    BY <1>1 DEF RolesOf
  <1>6. u # None
    BY NoneIsNothing
  <1>7. ASSUME NEW q \in Request
        PROVE  /\ req'[q].pc = req[q].pc /\ req'[q].kind = req[q].kind
               /\ req'[q].project = req[q].project /\ req'[q].user = req[q].user
               /\ req'[q].email = req[q].email /\ req'[q].username = req[q].username
               /\ req'[q].roles = req[q].roles
               /\ req[q].held \subseteq req'[q].held
               /\ req'[q].kept \subseteq req[q].kept
               /\ req[q].user = None =>
                     req'[q].held = req[q].held /\ req'[q].kept = req[q].kept
               /\ req[q].user \in User /\ req[q].kept \subseteq RolesOf(req[q].user) =>
                     req'[q].kept \subseteq RolesOf(req[q].user)'
               /\ req[q].user \in User /\ RolesOf(req[q].user) \subseteq req[q].held =>
                     RolesOf(req[q].user)' \subseteq req'[q].held
    <2> DEFINE v == req[q].user
    <2>1. RolesOf(req[q].user)' = {j \in Role : <<v, j>> \in user_roles'}
      BY <1>3 DEF RolesOf
    <2>2. RolesOf(v) = {j \in Role : <<v, j>> \in user_roles}
      BY DEF RolesOf
    <2>3. QED
      BY <1>1, <1>3, <1>6, <2>1, <2>2
  <1>8. <<u, k>> \in user_roles' => u \in UsersOf(RoleProject[k])
    BY <1>1
  <1>9. QED
    BY <1>1, <1>2, <1>4, <1>7, <1>8, RolesChange

LEMMA RemoveRoleKeeps ==
    ASSUME Inv, NEW u \in User, NEW k \in Role, RemoveRoleFromUser(u, k)
    PROVE  Inv'
  <1>1. /\ user_roles' = user_roles \ {<<u, k>>}
        /\ UNCHANGED <<users, tokens>>
    BY DEF RemoveRoleFromUser
  <1>2. /\ user_roles' \in SUBSET (User \X Role)
        /\ \A pair \in user_roles' : pair \in user_roles \/ pair = <<u, k>>
        /\ <<u, k>> \notin user_roles'
    BY <1>1 DEF Inv, TypeOK
  <1>3. ASSUME NEW q \in Request
        PROVE  /\ req'[q] \in RequestState
               /\ req'[q].pc = req[q].pc /\ req'[q].kind = req[q].kind
               /\ req'[q].project = req[q].project /\ req'[q].user = req[q].user
               /\ req'[q].email = req[q].email /\ req'[q].username = req[q].username
               /\ req'[q].roles = req[q].roles /\ req'[q].held = req[q].held
               /\ req'[q].kept = IF req[q].user = u THEN req[q].kept \ {k}
                                                    ELSE req[q].kept
    <2>1. req'[q] = IF req[q].user = u THEN [req[q] EXCEPT !.kept = @ \ {k}]
                                       ELSE req[q]
      BY DEF RemoveRoleFromUser
    <2>2. req[q] \in RequestState
      BY DEF Inv, TypeOK
    <2>3. QED
      BY <2>1, <2>2 DEF RequestState
  <1>4. req' \in [Request -> RequestState]
    <2>1. req' = [q \in Request |-> req'[q]]
      BY DEF RemoveRoleFromUser
    <2>2. QED
      BY <1>3, <2>1
  <1>5. u # None
    BY NoneIsNothing
  <1>6. ASSUME NEW q \in Request
        PROVE  /\ req'[q].pc = req[q].pc /\ req'[q].kind = req[q].kind
               /\ req'[q].project = req[q].project /\ req'[q].user = req[q].user
               /\ req'[q].email = req[q].email /\ req'[q].username = req[q].username
               /\ req'[q].roles = req[q].roles
               /\ req[q].held \subseteq req'[q].held
               /\ req'[q].kept \subseteq req[q].kept
               /\ req[q].user = None =>
                     req'[q].held = req[q].held /\ req'[q].kept = req[q].kept
               /\ req[q].user \in User /\ req[q].kept \subseteq RolesOf(req[q].user) =>
                     req'[q].kept \subseteq RolesOf(req[q].user)'
               /\ req[q].user \in User /\ RolesOf(req[q].user) \subseteq req[q].held =>
                     RolesOf(req[q].user)' \subseteq req'[q].held
    <2> DEFINE v == req[q].user
    <2>1. RolesOf(req[q].user)' = {j \in Role : <<v, j>> \in user_roles'}
      BY <1>3 DEF RolesOf
    <2>2. RolesOf(v) = {j \in Role : <<v, j>> \in user_roles}
      BY DEF RolesOf
    <2>3. QED
      BY <1>1, <1>3, <1>5, <2>1, <2>2
  <1>7. <<u, k>> \in user_roles' => u \in UsersOf(RoleProject[k])
    BY <1>2
  <1>8. QED
    BY <1>1, <1>2, <1>4, <1>6, <1>7, RolesChange

LEMMA ArriveKeeps ==
    ASSUME Inv, NEW r \in Request, Arrive(r)
    PROVE  Inv'
  <1>1. CASE \E p \in Project, email \in Name, username \in Name \union {None} :
                Signup(r, p, email, username)
    BY <1>1, SignupKeeps
  <1>2. CASE \E p \in Project, name \in Name, passwordMatches \in BOOLEAN :
                Login(r, p, name, passwordMatches)
    BY <1>2, LoginKeeps
  <1>3. CASE \E u \in User : Refresh(r, u)
    BY <1>3, RefreshKeeps
  <1>4. CASE \E t \in Token, p \in Project : Me(r, t, p)
    BY <1>4, MeKeeps
  <1>5. QED
    BY <1>1, <1>2, <1>3, <1>4 DEF Arrive

LEMMA ProceedKeeps ==
    ASSUME Inv, NEW r \in Request, Proceed(r)
    PROVE  Inv'
  <1>1. CASE CreateUser(r)
    BY <1>1, CreateUserKeeps
  <1>2. CASE AttachDefaultRole(r)
    BY <1>2, AttachDefaultRoleKeeps
  <1>3. CASE RefreshUser(r)
    BY <1>3, AnswerStep, NextStatement DEF RefreshUser, At
  <1>4. CASE GetUserByID(r)
    BY <1>4, AnswerStep, NextStatement DEF GetUserByID, At
  <1>5. CASE ReadRoles(r)
    BY <1>5, ReadRolesKeeps
  <1>6. CASE \E t \in Token : MintCommit(r, t)
    BY <1>6, MintCommitKeeps
  <1>7. CASE \E u \in User, t \in Token : SignupCommit(r, u, t)
    BY <1>7, SignupCommitKeeps
  <1>8. CASE MeAnswer(r)
    BY <1>8, AnswerStep DEF MeAnswer
  <1>9. QED
    BY <1>1, <1>2, <1>3, <1>4, <1>5, <1>6, <1>7, <1>8 DEF Proceed

LEMMA EnvironmentKeeps ==
    ASSUME Inv, Environment
    PROVE  Inv'
  <1>1. CASE \E r \in Request : Fail(r)
    BY <1>1, AnswerStep DEF Fail
  <1>2. CASE \E t \in Token : TokenExpires(t)
    BY <1>2, TokenExpiresKeeps
  <1>3. CASE \E u \in User, p \in Project, email \in Name \union {None} :
                RegisterElsewhere(u, p, email)
    BY <1>3, RegisterElsewhereKeeps
  <1>4. CASE \E u \in User, k \in Role : AssignRoleToUser(u, k) \/ RemoveRoleFromUser(u, k)
    BY <1>4, AssignRoleKeeps, RemoveRoleKeeps
  <1>5. QED
    BY <1>1, <1>2, <1>3, <1>4 DEF Environment

LEMMA StutterKeeps == Inv /\ UNCHANGED vars => Inv'
  <1> SUFFICES ASSUME Inv, UNCHANGED vars PROVE Inv'
    OBVIOUS
  <1>1. users' = users /\ user_roles' = user_roles /\ tokens' = tokens /\ req' = req
    BY DEF vars, tables
  <1>2. TypeOK' /\ OneUserPerIdentifier' /\ TenantIsolation'
    BY <1>1 DEF Inv, TypeOK, OneUserPerIdentifier, TenantIsolation, UsersOf, UserExists
  <1>3. RequestsSound'
    BY <1>1 DEF Inv, RequestsSound, Sound, SignupSound, UserSound, UsersOf, UserExists, RolesOf
  <1>4. IdentifiersReserved'
    BY <1>1 DEF Inv, IdentifiersReserved, Pending, Reserved, EmailTaken, UsernameTaken,
                UsersOf, UserExists, Inserts
  <1>5. QED
    BY <1>2, <1>3, <1>4 DEF Inv

\* The invariant holds in every reachable state, whatever the numbers of
\* projects, users, names, roles, tokens and requests.
THEOREM Invariance == Spec => []Inv
  <1>1. Inv /\ [Next]_vars => Inv'
    BY ArriveKeeps, ProceedKeeps, EnvironmentKeeps, StutterKeeps DEF Next
  <1>2. QED
    BY InitInv, <1>1, PTL DEF Spec

-----------------------------------------------------------------------------
\* What a step commits.

\* The transaction of a signup, or of the other ways in, inserts the user and
\* its default role together.
LEMMA StepBears ==
    ASSUME Inv, Next, NEW u \in User, ~ UserExists(u), users'[u] # None,
           NEW k \in GetDefaultRole(users'[u].project)
    PROVE  <<u, k>> \in user_roles'
  <1>1. users' # users
    BY DEF UserExists
  <1>2. CASE \E r \in Request, w \in User, t \in Token : SignupCommit(r, w, t)
    <2> PICK r \in Request, w \in User, t \in Token : SignupCommit(r, w, t)
      BY <1>2
    <2> DEFINE row == [project |-> req[r].project, email |-> req[r].email,
                       username |-> req[r].username, password |-> TRUE]
    <2>1. /\ users' = [users EXCEPT ![w] = row] /\ row.project = req[r].project
          /\ user_roles' = user_roles \union ({w} \X req[r].roles)
      BY DEF SignupCommit
    <2> HIDE DEF row
    <2>2. u = w /\ users'[u] = row
      BY <2>1 DEF Inv, TypeOK, UserExists
    <2>3. req[r].roles = GetDefaultRole(req[r].project)
      BY DEF SignupCommit, At, Inv, RequestsSound, Sound, SignupSound
    <2>4. QED
      BY <2>1, <2>2, <2>3
  <1>3. CASE \E w \in User, p \in Project, email \in Name \union {None} :
                RegisterElsewhere(w, p, email)
    <2> PICK w \in User, p \in Project, email \in Name \union {None} :
                RegisterElsewhere(w, p, email)
      BY <1>3
    <2> DEFINE row == [project |-> p, email |-> email, username |-> None,
                       password |-> FALSE]
    <2>1. /\ users' = [users EXCEPT ![w] = row] /\ row.project = p
          /\ user_roles' = user_roles \union ({w} \X GetDefaultRole(p))
      BY DEF RegisterElsewhere
    <2> HIDE DEF row
    <2>2. u = w /\ users'[u] = row
      BY <2>1 DEF Inv, TypeOK, UserExists
    <2>3. QED
      BY <2>1, <2>2
  <1>4. QED
    BY <1>1, <1>2, <1>3
       DEF Next, Arrive, Proceed, Environment, Signup, CreateUser, AttachDefaultRole,
           Login, Refresh, RefreshUser, ReadRoles, MintCommit, Me, GetUserByID, MeAnswer,
           Fail, TokenExpires, AssignRoleToUser, RemoveRoleFromUser, tables

\* A token that a step issues carries the roles that its request read, and the
\* permissions of the same user as they are now.
LEMMA StepIssues ==
    ASSUME Inv, Next, NEW r \in Request, At(r, "permissions"), req'[r].pc = "idle",
           NEW t \in Token, tokens[t] = None, tokens'[t] # None
    PROVE  /\ tokens'[t].roles = req[r].roles
           /\ req[r].kept \subseteq tokens'[t].permissions
           /\ tokens'[t].permissions \subseteq req[r].held
  <1>1. tokens' # tokens
    OBVIOUS
  <1>2. req[r].pc = "permissions" /\ Sound(req[r])
    BY DEF At, Inv, RequestsSound
  <1>3. ASSUME NEW q \in Request, NEW s \in Token, NEW c,
               tokens' = [tokens EXCEPT ![s] = c], req' = [req EXCEPT ![q] = Slot("idle")]
        PROVE  q = r /\ tokens'[t] = c
    BY <1>2, <1>3 DEF Inv, TypeOK
  <1>4. CASE \E q \in Request, s \in Token : MintCommit(q, s)
    <2> PICK q \in Request, s \in Token : MintCommit(q, s)
      BY <1>4
    <2> DEFINE permissions == GetUserPermissionNames(req[q].user)
               c == IssueAccess(q, req[q].user, permissions)
    <2>1. tokens' = [tokens EXCEPT ![s] = c] /\ req' = [req EXCEPT ![q] = Slot("idle")]
      BY DEF MintCommit, Answer
    <2>2. c.roles = req[q].roles /\ c.permissions = RolesOf(req[q].user)
      BY DEF IssueAccess, GetUserPermissionNames
    <2> HIDE DEF c
    <2>3. q = r /\ tokens'[t] = c
      BY <1>3, <2>1
    <2>4. req[q].kind # "signup"
      BY DEF MintCommit
    <2>5. req[r].kept \subseteq RolesOf(req[r].user) /\ RolesOf(req[r].user) \subseteq req[r].held
      BY <1>2, <2>3, <2>4 DEF Sound, UserSound, Waiting
    <2>6. QED
      BY <2>2, <2>3, <2>5
  <1>5. CASE \E q \in Request, w \in User, s \in Token : SignupCommit(q, w, s)
    <2> PICK q \in Request, w \in User, s \in Token : SignupCommit(q, w, s)
      BY <1>5
    <2> DEFINE c == IssueAccess(q, w, req[q].roles)
    <2>1. tokens' = [tokens EXCEPT ![s] = c] /\ req' = [req EXCEPT ![q] = Slot("idle")]
      BY DEF SignupCommit, Answer
    <2>2. c.roles = req[q].roles /\ c.permissions = req[q].roles
      BY DEF IssueAccess
    <2> HIDE DEF c
    <2>3. q = r /\ tokens'[t] = c
      BY <1>3, <2>1
    <2>4. req[q].kind = "signup"
      BY DEF SignupCommit
    <2>5. req[r].held = req[r].roles /\ req[r].kept = req[r].roles
      BY <1>2, <2>3, <2>4 DEF Sound, SignupSound
    <2>6. QED
      BY <2>2, <2>3, <2>5
  <1>6. CASE \E s \in Token : TokenExpires(s)
    BY <1>6 DEF TokenExpires, Inv, TypeOK
  <1>7. QED
    BY <1>1, <1>4, <1>5, <1>6
       DEF Next, Arrive, Proceed, Environment, Signup, CreateUser, AttachDefaultRole,
           Login, Refresh, RefreshUser, ReadRoles, Me, GetUserByID, MeAnswer,
           Fail, RegisterElsewhere, AssignRoleToUser, RemoveRoleFromUser

-----------------------------------------------------------------------------
\* The properties that TLC checks on a small instance.

\* Every variable has its type, in every reachable state.
THEOREM TypeCorrectness == Spec => []TypeOK
  BY Invariance, PTL DEF Inv

\* However signups overlap with each other and with the other ways in, a project
\* has one user per address and one per username: the insert that waits for
\* another one of its key finds the row.
THEOREM UniqueIdentifiers == Spec => []OneUserPerIdentifier
  BY Invariance, PTL DEF Inv

\* No access token and no row of user_roles crosses projects.
THEOREM TenantsIsolated == Spec => []TenantIsolation
  BY Invariance, PTL DEF Inv

\* A user is never seen without the default role it was to be born with.
THEOREM BornWithDefault == Spec => BornWithDefaultRole
  <1>1. Inv /\ [Next]_vars =>
          [\A u \in User : ~ UserExists(u) /\ users'[u] # None =>
             \A k \in GetDefaultRole(users'[u].project) : <<u, k>> \in user_roles']_vars
    BY StepBears
  <1>2. QED
    BY <1>1, Invariance, PTL DEF Spec, BornWithDefaultRole

\* The claims of a token, and the answers of Me, lie between the roles that the
\* user had throughout the request and those it had at some time of it.
THEOREM ClaimsAreFresh == Spec => ClaimsOfThisRequest
  <1>1. Inv /\ [Next]_vars =>
          [\A r \in Request :
            At(r, "permissions") /\ req'[r].pc = "idle" =>
              LET fresh == {t \in Token : tokens[t] = None /\ tokens'[t] # None}
              IN  /\ req[r].kept \subseteq req[r].roles
                  /\ req[r].roles \subseteq req[r].held
                  /\ \A t \in fresh :
                       /\ tokens'[t].roles = req[r].roles
                       /\ req[r].kept \subseteq tokens'[t].permissions
                       /\ tokens'[t].permissions \subseteq req[r].held]_vars
    <2> SUFFICES ASSUME Inv, Next, NEW r \in Request,
                        At(r, "permissions"), req'[r].pc = "idle"
                 PROVE  /\ req[r].kept \subseteq req[r].roles
                        /\ req[r].roles \subseteq req[r].held
                        /\ \A t \in Token : tokens[t] = None /\ tokens'[t] # None =>
                             /\ tokens'[t].roles = req[r].roles
                             /\ req[r].kept \subseteq tokens'[t].permissions
                             /\ tokens'[t].permissions \subseteq req[r].held
      OBVIOUS
    <2>1. Sound(req[r]) /\ req[r].pc = "permissions"
      BY DEF Inv, RequestsSound, At
    <2>2. /\ req[r].kept \subseteq req[r].roles
          /\ req[r].roles \subseteq req[r].held
      BY <2>1 DEF Sound, SignupSound, UserSound, Waiting
    <2>3. QED
      BY <2>2, StepIssues
  <1>2. QED
    BY <1>1, Invariance, PTL DEF Spec, ClaimsOfThisRequest
=============================================================================
