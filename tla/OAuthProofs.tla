---------------------------- MODULE OAuthProofs ----------------------------
(***************************************************************************)
(* Theorems about OAuth for every number of projects, addresses,           *)
(* identities, users, states, codes and concurrent requests.               *)
(***************************************************************************)
EXTENDS OAuth, FiniteSetTheorems, TLAPS

-----------------------------------------------------------------------------
\* The inductive invariant.  A request is judged as a record, so that what it
\* becomes can be judged before it is in the table.

\* A request in the middle of a callback.
Callback(x) == x.pc \in Waiting \ {"user", "issue"}

\* It took its state, whose project is the one it serves; no code came of the
\* state yet.
FlowSound(x) ==
    IF Callback(x)
      THEN /\ x.state \in State
           /\ x.project \in Project
           /\ flows[x.state] = x.project
           /\ oauth_states[x.state] = None
           /\ CodesOf(x.state) = {}
      ELSE x.state = None

\* What it inserts is not there, and what it found is.
ResolutionSound(x) ==
    /\ Callback(x) /\ x.pc # "google" => x.sub \in Subject /\ x.email \in Email
    /\ x.inserts # "nothing" => x.pc \in {"link_new", "mint"}
    /\ x.pc = "link_new" => x.inserts = "user"
    /\ x.pc = "link" \/ x.inserts = "link" =>
          x.user \in UsersWithEmail(x.project, x.email) /\ x.vouched
    /\ x.inserts = "user" => UsersWithEmail(x.project, x.email) = {}
    /\ x.pc = "mint" =>
          IF x.inserts = "nothing"
            THEN /\ x.user \in User
                 /\ [provider_user_id |-> x.sub, user_id |-> x.user] \in oauth_accounts
                 /\ users[x.user].project = x.project
            ELSE AccountsOf(x.sub) = {}

\* An exchange holds a code that it took and that opened nothing, and serves the
\* user of the code; it has asked whether that user is banned.
ExchangeSound(x) ==
    /\ x.shunned \subseteq banned
    /\ IF x.pc \in {"user", "issue"}
         THEN /\ x.code \in AuthCode
              /\ auth_exchange_codes[x.code] # None
              /\ auth_exchange_codes[x.code].consumed
              /\ auth_exchange_codes[x.code].project = x.project
              /\ auth_exchange_codes[x.code].user_id = x.user
              /\ opened[x.code] = 0
         ELSE x.code = None
    /\ x.pc = "issue" => x.user \notin x.shunned

Sound(x) == FlowSound(x) /\ ResolutionSound(x) /\ ExchangeSound(x)

RequestsSound == \A r \in Request : Sound(req[r])

\* Two requests share no state, no code, and nothing that they insert.
Apart(x, y) ==
    /\ x.state # None => x.state # y.state
    /\ x.code # None => x.code # y.code
    /\ x.inserts = "user" /\ y.inserts = "user" =>
          x.project # y.project \/ x.email # y.email
    /\ x.inserts # "nothing" /\ x.pc = "mint" /\ y.inserts # "nothing" /\ y.pc = "mint" =>
          x.sub # y.sub

RequestsApart == \A r, q \in Request : r # q => Apart(req[r], req[q])

\* A state that waits to be taken led to no code; a code has its grant, and two
\* of them have different states.
GrantsSound ==
    /\ \A s \in State : oauth_states[s] # None =>
          flows[s] = oauth_states[s].project /\ CodesOf(s) = {}
    /\ \A c \in AuthCode :
          IF auth_exchange_codes[c] = None
            THEN grants[c] = None /\ opened[c] = 0
            ELSE /\ grants[c] # None
                 /\ UserExists(auth_exchange_codes[c].user_id)
                 /\ opened[c] \in {0, 1}
                 /\ opened[c] = 1 => auth_exchange_codes[c].consumed
    /\ \A c, d \in AuthCode :
          grants[c] # None /\ grants[d] # None /\ c # d => grants[c].state # grants[d].state

\* An identity has one account, and an account has a user.
AccountsSound ==
    /\ \A a \in oauth_accounts : UserExists(a.user_id)
    /\ \A a, b \in oauth_accounts : a.provider_user_id = b.provider_user_id => a = b

Inv ==
    /\ TypeOK
    /\ GrantsSound
    /\ AccountsSound
    /\ CodesFollowTheFlow
    /\ OneUserPerEmail
    /\ GoogleUsersAreLinked
    /\ RequestsSound
    /\ RequestsApart

-----------------------------------------------------------------------------
\* Types.

LEMMA SlotTyped ==
    /\ Slot("idle") \in RequestState
    /\ Slot("google") \in RequestState
    /\ Slot("user") \in RequestState
  BY DEF Slot, RequestState, Waiting

LEMMA RequestTyped ==
    ASSUME TypeOK, NEW r \in Request
    PROVE  /\ req[r] \in RequestState
           /\ req[r].pc \in {"idle"} \union Waiting
           /\ req[r].project \in Project \union {None}
           /\ req[r].state \in State \union {None}
           /\ req[r].sub \in Subject \union {None}
           /\ req[r].email \in Email \union {None}
           /\ req[r].vouched \in BOOLEAN
           /\ req[r].user \in User \union {None}
           /\ req[r].inserts \in {"nothing", "link", "user"}
           /\ req[r].code \in AuthCode \union {None}
           /\ req[r].shunned \in SUBSET User
  BY DEF TypeOK, RequestState

LEMMA UserTyped ==
    ASSUME TypeOK, NEW u \in User, UserExists(u)
    PROVE  /\ users[u] \in UserRow
           /\ users[u].project \in Project
           /\ users[u].email \in Email
           /\ users[u].email_verified \in BOOLEAN
           /\ users[u].origin \in {"google", "elsewhere"}
  BY DEF TypeOK, UserExists, UserRow

LEMMA CodeTyped ==
    ASSUME TypeOK, NEW c \in AuthCode, auth_exchange_codes[c] # None
    PROVE  /\ auth_exchange_codes[c] \in CodeRow
           /\ auth_exchange_codes[c].user_id \in User
           /\ auth_exchange_codes[c].project \in Project
           /\ auth_exchange_codes[c].consumed \in BOOLEAN
           /\ auth_exchange_codes[c].expired \in BOOLEAN
  BY DEF TypeOK, CodeRow

LEMMA StateTyped ==
    ASSUME TypeOK, NEW s \in State, oauth_states[s] # None
    PROVE  /\ oauth_states[s] \in StateRow
           /\ oauth_states[s].project \in Project
           /\ oauth_states[s].expired \in BOOLEAN
  BY DEF TypeOK, StateRow

LEMMA GrantTyped ==
    ASSUME TypeOK, NEW c \in AuthCode, grants[c] # None
    PROVE  grants[c].state \in State /\ grants[c].sub \in Subject
  BY DEF TypeOK, Grant

-----------------------------------------------------------------------------
\* Steps of one request that touch no table.

LEMMA IdleSound ==
    Sound(Slot("idle")) /\ \A x : Apart(Slot("idle"), x) /\ (Apart(x, Slot("idle")))
  <1>1. /\ Slot("idle").pc = "idle" /\ Slot("idle").state = None
        /\ Slot("idle").inserts = "nothing" /\ Slot("idle").code = None
        /\ Slot("idle").shunned = {}
    BY DEF Slot
  <1>2. Sound(Slot("idle"))
    BY <1>1 DEF Sound, FlowSound, ResolutionSound, ExchangeSound, Callback, Waiting
  <1>3. \A x : Apart(Slot("idle"), x) /\ Apart(x, Slot("idle"))
    BY <1>1 DEF Apart
  <1>4. QED
    BY <1>2, <1>3

LEMMA InitInv == Init => Inv
  <1> SUFFICES ASSUME Init PROVE Inv
    OBVIOUS
  <1>1. TypeOK
    BY SlotTyped DEF Init, TypeOK
  <1>2. \A s \in State : oauth_states[s] = None
    BY DEF Init
  <1>3. \A c \in AuthCode : auth_exchange_codes[c] = None /\ grants[c] = None /\ opened[c] = 0
    BY DEF Init
  <1>4. \A u \in User : ~ UserExists(u)
    BY DEF Init, UserExists
  <1>5. oauth_accounts = {} /\ \A r \in Request : req[r] = Slot("idle")
    BY DEF Init
  <1>6. GrantsSound /\ AccountsSound
    BY <1>2, <1>3, <1>4, <1>5 DEF GrantsSound, AccountsSound
  <1>7. CodesFollowTheFlow /\ OneUserPerEmail /\ GoogleUsersAreLinked
    BY <1>3, <1>4 DEF CodesFollowTheFlow, OneUserPerEmail, GoogleUsersAreLinked
  <1>8. RequestsSound /\ RequestsApart
    BY <1>5, IdleSound DEF RequestsSound, RequestsApart
  <1>9. QED
    BY <1>1, <1>6, <1>7, <1>8 DEF Inv

\* A slot that changes to a record apart from the others keeps all apart.
LEMMA StaysApart ==
    ASSUME TypeOK, RequestsApart, NEW r \in Request, NEW x,
           req' = [req EXCEPT ![r] = x],
           \A q \in Request \ {r} : Apart(x, req[q]) /\ Apart(req[q], x)
    PROVE  RequestsApart'
  <1>1. req'[r] = x /\ \A q \in Request \ {r} : req'[q] = req[q]
    BY DEF TypeOK
  <1>2. SUFFICES ASSUME NEW p \in Request, NEW q \in Request, p # q
                 PROVE  Apart(req'[p], req'[q])
    BY DEF RequestsApart, Apart
  <1>3. CASE p = r
    <2>1. req'[p] = x /\ req'[q] = req[q] /\ Apart(x, req[q])
      BY <1>1, <1>2, <1>3
    <2>2. QED
      BY <2>1
  <1>4. CASE q = r
    <2>1. req'[q] = x /\ req'[p] = req[p] /\ Apart(req[p], x)
      BY <1>1, <1>2, <1>4
    <2>2. QED
      BY <2>1
  <1>5. CASE p # r /\ q # r
    <2>1. req'[p] = req[p] /\ req'[q] = req[q] /\ Apart(req[p], req[q])
      BY <1>1, <1>2, <1>5 DEF RequestsApart
    <2>2. QED
      BY <2>1
  <1>6. QED
    BY <1>3, <1>4, <1>5

LEMMA LocalStep ==
    ASSUME Inv, NEW r \in Request, NEW x \in RequestState, Sound(x),
           req' = [req EXCEPT ![r] = x],
           UNCHANGED <<tables, history>>,
           \A q \in Request \ {r} : Apart(x, req[q]) /\ Apart(req[q], x)
    PROVE  Inv'
  <1>u. /\ UNCHANGED <<oauth_states, users, banned, oauth_accounts>>
        /\ UNCHANGED <<auth_exchange_codes, flows, grants, opened>>
    BY DEF tables, history
  <1>1. TypeOK'
    BY <1>u DEF Inv, TypeOK
  <1>2. GrantsSound' /\ AccountsSound'
    BY <1>u DEF Inv, GrantsSound, AccountsSound, CodesOf, UserExists
  <1>3. CodesFollowTheFlow' /\ OneUserPerEmail' /\ GoogleUsersAreLinked'
    BY <1>u DEF Inv, CodesFollowTheFlow, OneUserPerEmail, GoogleUsersAreLinked,
                AccountsOf, UserExists
  <1>4. RequestsSound'
    <2> SUFFICES ASSUME NEW q \in Request PROVE Sound(req[q])'
      BY DEF RequestsSound
    <2>1. Sound(req'[q])
      BY DEF Inv, TypeOK, RequestsSound
    <2>2. QED
      BY <1>u, <2>1 DEF Sound, FlowSound, ResolutionSound, ExchangeSound, Callback,
                        CodesOf, UsersWithEmail, UserExists, AccountsOf
  <1>5. RequestsApart'
    BY StaysApart DEF Inv
  <1>6. QED
    BY <1>1, <1>2, <1>3, <1>4, <1>5 DEF Inv

LEMMA AnswerStep ==
    ASSUME Inv, NEW r \in Request, NEW verdict, Answer(r, verdict),
           UNCHANGED <<tables, history>>
    PROVE  Inv'
  BY IdleSound, SlotTyped, LocalStep DEF Answer

\* A request that inserts nothing and keeps its state and its code goes on.
LEMMA GoesOn ==
    ASSUME Inv, NEW r \in Request, NEW x \in RequestState, Sound(x),
           req' = [req EXCEPT ![r] = x],
           UNCHANGED <<tables, history>>,
           x.state = req[r].state, x.code = req[r].code,
           x.inserts = "nothing"
    PROVE  Inv'
  <1>1. \A q \in Request \ {r} : Apart(req[r], req[q]) /\ Apart(req[q], req[r])
    BY DEF Inv, RequestsApart
  <1>2. \A q \in Request \ {r} : Apart(x, req[q]) /\ Apart(req[q], x)
    BY <1>1 DEF Apart
  <1>3. QED
    BY <1>2, LocalStep

-----------------------------------------------------------------------------
\* One lemma per action: first the ones that touch no table.

LEMMA GoogleExchangeKeeps ==
    ASSUME Inv, NEW r \in Request, GoogleExchange(r)
    PROVE  Inv'
  <1> PICK id \in Exchange :
        IF id = None
          THEN Answer(r, "exchange_failed")
          ELSE req' = [req EXCEPT ![r].pc = "account", ![r].sub = id.sub,
                            ![r].email = id.email, ![r].vouched = id.vouched]
    BY DEF GoogleExchange
  <1> DEFINE x == [req[r] EXCEPT !.pc = "account", !.sub = id.sub,
                                 !.email = id.email, !.vouched = id.vouched]
  <1>1. CASE id = None
    BY <1>1, AnswerStep DEF GoogleExchange
  <1>2. CASE id # None
    <2>1. id.sub \in Subject /\ id.email \in Email /\ id.vouched \in BOOLEAN
      BY <1>2 DEF Exchange
    <2>2. req[r] \in RequestState /\ req[r].pc = "google" /\ Sound(req[r])
      BY RequestTyped DEF GoogleExchange, At, Inv, RequestsSound
    <2>3. x \in RequestState
      BY <2>1, <2>2 DEF RequestState, Waiting
    <2>4. /\ x.pc = "account" /\ x.sub = id.sub /\ x.email = id.email
          /\ x.state = req[r].state /\ x.code = req[r].code
          /\ x.project = req[r].project /\ x.inserts = req[r].inserts
          /\ x.shunned = req[r].shunned
      BY <2>2 DEF RequestState
    <2>5. x.inserts = "nothing"
      BY <2>2, <2>4, RequestTyped DEF Inv, Sound, ResolutionSound
    <2>6. Sound(x)
      BY <2>1, <2>2, <2>4, <2>5
         DEF Sound, FlowSound, ResolutionSound, ExchangeSound, Callback, Waiting
    <2>7. req' = [req EXCEPT ![r] = x] /\ UNCHANGED <<tables, history>>
      BY <1>2 DEF GoogleExchange
    <2> HIDE DEF x
    <2>8. QED
      BY <2>3, <2>4, <2>5, <2>6, <2>7, GoesOn
  <1>3. QED
    BY <1>1, <1>2

LEMMA FindAccountKeeps ==
    ASSUME Inv, NEW r \in Request, FindAccount(r)
    PROVE  Inv'
  <1>1. req[r] \in RequestState /\ req[r].pc = "account" /\ Sound(req[r])
    BY RequestTyped DEF FindAccount, At, Inv, RequestsSound
  <1>2. req[r].inserts = "nothing"
    BY <1>1, RequestTyped DEF Inv, Sound, ResolutionSound
  <1>3. UNCHANGED <<tables, history>>
    BY DEF FindAccount
  <1>4. ASSUME NEW verdict, Answer(r, verdict)
        PROVE  Inv'
    BY <1>3, <1>4, AnswerStep
  <1>5. ASSUME Goto(r, "email")
        PROVE  Inv'
    <2> DEFINE x == [req[r] EXCEPT !.pc = "email"]
    <2>1. x \in RequestState
      BY <1>1 DEF RequestState, Waiting
    <2>2. /\ x.pc = "email" /\ x.sub = req[r].sub /\ x.email = req[r].email
          /\ x.state = req[r].state /\ x.code = req[r].code
          /\ x.project = req[r].project /\ x.inserts = "nothing"
          /\ x.shunned = req[r].shunned
      BY <1>1, <1>2 DEF RequestState
    <2>3. Sound(x)
      BY <1>1, <2>2
         DEF Sound, FlowSound, ResolutionSound, ExchangeSound, Callback, Waiting
    <2>4. req' = [req EXCEPT ![r] = x]
      BY <1>5 DEF Goto
    <2> HIDE DEF x
    <2>5. QED
      BY <1>3, <2>1, <2>2, <2>3, <2>4, GoesOn
  <1>6. ASSUME NEW a \in AccountsOf(req[r].sub), ~ LinkedElsewhere(r, a.user_id),
               req' = [req EXCEPT ![r].pc = "mint", ![r].user = a.user_id]
        PROVE  Inv'
    <2> DEFINE x == [req[r] EXCEPT !.pc = "mint", !.user = a.user_id]
    <2>1. /\ a \in oauth_accounts /\ a.provider_user_id = req[r].sub /\ a.user_id \in User
          /\ a = [provider_user_id |-> req[r].sub, user_id |-> a.user_id]
      BY DEF AccountsOf, AccountRow, Inv, TypeOK
    <2>2. x \in RequestState
      BY <1>1, <2>1 DEF RequestState, Waiting
    <2>3. /\ x.pc = "mint" /\ x.sub = req[r].sub /\ x.email = req[r].email
          /\ x.state = req[r].state /\ x.code = req[r].code
          /\ x.project = req[r].project /\ x.inserts = "nothing"
          /\ x.user = a.user_id /\ x.shunned = req[r].shunned
      BY <1>1, <1>2 DEF RequestState
    <2>4. users[a.user_id].project = req[r].project
      BY <1>6 DEF LinkedElsewhere
    <2>5. Sound(x)
      BY <1>1, <2>1, <2>3, <2>4
         DEF Sound, FlowSound, ResolutionSound, ExchangeSound, Callback, Waiting
    <2>6. req' = [req EXCEPT ![r] = x]
      BY <1>6
    <2> HIDE DEF x
    <2>7. QED
      BY <1>3, <2>2, <2>3, <2>5, <2>6, GoesOn
  <1>7. QED
    BY <1>4, <1>5, <1>6 DEF FindAccount

LEMMA FindEmailKeeps ==
    ASSUME Inv, NEW r \in Request, FindEmail(r)
    PROVE  Inv'
  <1>1. req[r] \in RequestState /\ req[r].pc = "email" /\ Sound(req[r])
    BY RequestTyped DEF FindEmail, At, Inv, RequestsSound
  <1>2. req[r].inserts = "nothing"
    BY <1>1, RequestTyped DEF Inv, Sound, ResolutionSound
  <1>3. UNCHANGED <<tables, history>>
    BY DEF FindEmail
  <1>4. ASSUME NEW verdict, Answer(r, verdict)
        PROVE  Inv'
    BY <1>3, <1>4, AnswerStep
  <1>5. ASSUME Goto(r, "create")
        PROVE  Inv'
    <2> DEFINE x == [req[r] EXCEPT !.pc = "create"]
    <2>1. x \in RequestState
      BY <1>1 DEF RequestState, Waiting
    <2>2. /\ x.pc = "create" /\ x.sub = req[r].sub /\ x.email = req[r].email
          /\ x.state = req[r].state /\ x.code = req[r].code
          /\ x.project = req[r].project /\ x.inserts = "nothing"
          /\ x.shunned = req[r].shunned
      BY <1>1, <1>2 DEF RequestState
    <2>3. Sound(x)
      BY <1>1, <2>2
         DEF Sound, FlowSound, ResolutionSound, ExchangeSound, Callback, Waiting
    <2>4. req' = [req EXCEPT ![r] = x]
      BY <1>5 DEF Goto
    <2> HIDE DEF x
    <2>5. QED
      BY <1>3, <2>1, <2>2, <2>3, <2>4, GoesOn
  <1>6. ASSUME NEW u \in UsersWithEmail(req[r].project, req[r].email), Vouched(r),
               req' = [req EXCEPT ![r].pc = "link", ![r].user = u]
        PROVE  Inv'
    <2> DEFINE x == [req[r] EXCEPT !.pc = "link", !.user = u]
    <2>1. u \in User
      BY DEF UsersWithEmail
    <2>2. x \in RequestState
      BY <1>1, <2>1 DEF RequestState, Waiting
    <2>3. /\ x.pc = "link" /\ x.sub = req[r].sub /\ x.email = req[r].email
          /\ x.state = req[r].state /\ x.code = req[r].code
          /\ x.project = req[r].project /\ x.inserts = "nothing"
          /\ x.user = u /\ x.vouched = req[r].vouched /\ x.shunned = req[r].shunned
      BY <1>1, <1>2 DEF RequestState
    <2>4. req[r].vouched
      BY <1>6 DEF Vouched
    <2>5. x.user \in UsersWithEmail(x.project, x.email)
      BY <1>6, <2>3
    <2>6. Sound(x)
      BY <1>1, <2>3, <2>4, <2>5
         DEF Sound, FlowSound, ResolutionSound, ExchangeSound, Callback, Waiting
    <2>7. req' = [req EXCEPT ![r] = x]
      BY <1>6
    <2> HIDE DEF x
    <2>8. QED
      BY <1>3, <2>2, <2>3, <2>6, <2>7, GoesOn
  <1>7. QED
    BY <1>4, <1>5, <1>6 DEF FindEmail

\* The insert of a link finds the identity free, among the accounts and the other
\* inserts.
LEMMA CreateOAuthAccountKeeps ==
    ASSUME Inv, NEW r \in Request, CreateOAuthAccount(r)
    PROVE  Inv'
  <1>1. /\ req[r] \in RequestState /\ req[r].pc \in {"link", "link_new"} /\ Sound(req[r])
        /\ UNCHANGED <<tables, history>>
    BY RequestTyped DEF CreateOAuthAccount, Inv, RequestsSound
  <1>2. CASE AccountsOf(req[r].sub) # {}
    BY <1>1, <1>2, AnswerStep DEF CreateOAuthAccount
  <1>3. CASE AccountsOf(req[r].sub) = {}
    <2> DEFINE kind == IF req[r].inserts = "user" THEN "user" ELSE "link"
               x == [req[r] EXCEPT !.pc = "mint", !.inserts = kind]
    <2>1. x \in RequestState
      BY <1>1 DEF RequestState, Waiting
    <2>2. /\ x.pc = "mint" /\ x.sub = req[r].sub /\ x.email = req[r].email
          /\ x.state = req[r].state /\ x.code = req[r].code
          /\ x.project = req[r].project /\ x.inserts = kind
          /\ x.user = req[r].user /\ x.vouched = req[r].vouched
          /\ x.shunned = req[r].shunned
      BY <1>1 DEF RequestState
    <2>3. /\ kind = "user" => req[r].inserts = "user"
          /\ kind = "link" => req[r].pc = "link"
      BY <1>1 DEF Sound, ResolutionSound
    <2>4. Sound(x)
      BY <1>1, <1>3, <2>2, <2>3
         DEF Sound, FlowSound, ResolutionSound, ExchangeSound, Callback, Waiting
    <2>5. req' = [req EXCEPT ![r] = x]
      BY <1>3 DEF CreateOAuthAccount
    <2>6. ASSUME NEW q \in Request \ {r}
          PROVE  Apart(x, req[q]) /\ Apart(req[q], x)
      <3>1. Apart(req[r], req[q]) /\ Apart(req[q], req[r])
        BY DEF Inv, RequestsApart
      <3>2. req[q].inserts # "nothing" /\ req[q].pc = "mint" => req[q].sub # x.sub
        BY <2>2 DEF CreateOAuthAccount, Blockers, InsertsLink, At
      <3>3. QED
        BY <2>2, <2>3, <3>1, <3>2 DEF Apart
    <2> HIDE DEF x, kind
    <2>7. QED
      BY <1>1, <2>1, <2>4, <2>5, <2>6, LocalStep
  <1>4. QED
    BY <1>2, <1>3

\* The insert of a user finds the address free, among the rows and the other
\* inserts.
LEMMA CreateUserKeeps ==
    ASSUME Inv, NEW r \in Request, CreateUser(r)
    PROVE  Inv'
  <1>1. /\ req[r] \in RequestState /\ req[r].pc = "create" /\ Sound(req[r])
        /\ UNCHANGED <<tables, history>>
    BY RequestTyped DEF CreateUser, At, Inv, RequestsSound
  <1>2. CASE UsersWithEmail(req[r].project, req[r].email) # {}
    BY <1>1, <1>2, AnswerStep DEF CreateUser
  <1>3. CASE UsersWithEmail(req[r].project, req[r].email) = {}
    <2> DEFINE x == [req[r] EXCEPT !.pc = "link_new", !.inserts = "user"]
    <2>1. x \in RequestState
      BY <1>1 DEF RequestState, Waiting
    <2>2. /\ x.pc = "link_new" /\ x.sub = req[r].sub /\ x.email = req[r].email
          /\ x.state = req[r].state /\ x.code = req[r].code
          /\ x.project = req[r].project /\ x.inserts = "user"
          /\ x.user = req[r].user /\ x.shunned = req[r].shunned
      BY <1>1 DEF RequestState
    <2>4. Sound(x)
      BY <1>1, <1>3, <2>2
         DEF Sound, FlowSound, ResolutionSound, ExchangeSound, Callback, Waiting
    <2>5. req' = [req EXCEPT ![r] = x]
      BY <1>3 DEF CreateUser
    <2>6. ASSUME NEW q \in Request \ {r}
          PROVE  Apart(x, req[q]) /\ Apart(req[q], x)
      <3>1. Apart(req[r], req[q]) /\ Apart(req[q], req[r])
        BY DEF Inv, RequestsApart
      <3>2. req[q].inserts = "user" =>
              req[q].project # x.project \/ req[q].email # x.email
        BY <2>2 DEF CreateUser, Blockers, InsertsUser, At
      <3>3. QED
        BY <2>2, <3>1, <3>2 DEF Apart
    <2> HIDE DEF x
    <2>7. QED
      BY <1>1, <2>1, <2>4, <2>5, <2>6, LocalStep
  <1>4. QED
    BY <1>2, <1>3

LEMMA ExchangeUserKeeps ==
    ASSUME Inv, NEW r \in Request, ExchangeUser(r)
    PROVE  Inv'
  <1>1. /\ req[r] \in RequestState /\ req[r].pc = "user" /\ Sound(req[r])
        /\ UNCHANGED <<tables, history>>
    BY RequestTyped DEF ExchangeUser, At, Inv, RequestsSound
  <1>2. CASE req[r].user \in banned
    BY <1>1, <1>2, AnswerStep DEF ExchangeUser
  <1>3. CASE req[r].user \notin banned
    <2> DEFINE x == [req[r] EXCEPT !.pc = "issue"]
    <2>1. x \in RequestState
      BY <1>1 DEF RequestState, Waiting
    <2>2. /\ x.pc = "issue" /\ x.state = req[r].state /\ x.code = req[r].code
          /\ x.project = req[r].project /\ x.inserts = req[r].inserts
          /\ x.user = req[r].user /\ x.shunned = req[r].shunned
      BY <1>1 DEF RequestState
    <2>3. req[r].inserts = "nothing"
      BY <1>1, RequestTyped DEF Inv, Sound, ResolutionSound
    <2>4. Sound(x)
      BY <1>1, <1>3, <2>2, <2>3
         DEF Sound, FlowSound, ResolutionSound, ExchangeSound, Callback, Waiting
    <2>5. req' = [req EXCEPT ![r] = x]
      BY <1>3 DEF ExchangeUser, Goto
    <2> HIDE DEF x
    <2>6. QED
      BY <1>1, <2>1, <2>2, <2>3, <2>4, <2>5, GoesOn
  <1>4. QED
    BY <1>2, <1>3

-----------------------------------------------------------------------------
\* Actions that write a table.

\* A request that stays as it is stays sound, if what it took and what it found
\* stays, and what it inserts is still not there.
LEMMA SoundFrame ==
    ASSUME Inv, NEW q \in Request, req'[q] = req[q],
           req[q].state # None =>
              /\ flows'[req[q].state] = flows[req[q].state]
              /\ oauth_states'[req[q].state] = None
              /\ \A c \in AuthCode :
                    grants'[c] = grants[c] \/ grants'[c].state # req[q].state,
           \A u \in User : UserExists(u) =>
              /\ users'[u] # None
              /\ users'[u].project = users[u].project
              /\ users'[u].email = users[u].email,
           req[q].inserts = "user" =>
              UsersWithEmail(req[q].project, req[q].email)' = {},
           oauth_accounts \subseteq oauth_accounts',
           req[q].pc = "mint" /\ req[q].inserts # "nothing" => AccountsOf(req[q].sub)' = {},
           req[q].code # None =>
              /\ auth_exchange_codes'[req[q].code] = auth_exchange_codes[req[q].code]
              /\ opened'[req[q].code] = opened[req[q].code],
           banned' = banned
    PROVE  Sound(req[q])'
  <1>1. Sound(req[q]) /\ req[q] \in RequestState
    BY RequestTyped DEF Inv, RequestsSound
  <1>2. None \notin State /\ None \notin AuthCode
    BY NoneIsNothing
  <1>3. FlowSound(req[q])'
    BY <1>1, <1>2 DEF Sound, FlowSound, Callback, CodesOf
  <1>4. ResolutionSound(req[q])'
    <2>1. req[q].pc = "link" \/ req[q].inserts = "link" =>
             req[q].user \in UsersWithEmail(req[q].project, req[q].email)'
      BY <1>1 DEF Sound, ResolutionSound, UsersWithEmail, UserExists
    <2>2. req[q].pc = "mint" /\ req[q].inserts = "nothing" =>
             users'[req[q].user].project = req[q].project
      BY <1>1 DEF Sound, ResolutionSound, Inv, AccountsSound
    <2>3. QED
      BY <1>1, <2>1, <2>2 DEF Sound, ResolutionSound, Callback
  <1>5. ExchangeSound(req[q])'
    BY <1>1, <1>2 DEF Sound, ExchangeSound
  <1>6. QED
    BY <1>3, <1>4, <1>5 DEF Sound

LEMMA StartGoogleOAuthKeeps ==
    ASSUME Inv, NEW p \in Project, NEW s \in State, StartGoogleOAuth(p, s)
    PROVE  Inv'
  <1> DEFINE row == [project |-> p, expired |-> FALSE]
  <1>1. row \in StateRow /\ row.project = p /\ row # None
    <2>1. row \in StateRow /\ row.project = p
      BY DEF StateRow
    <2>2. QED
      BY <2>1, NoneIsNothing
  <1>2. /\ flows[s] = None
        /\ oauth_states' = [oauth_states EXCEPT ![s] = row]
        /\ flows' = [flows EXCEPT ![s] = p]
        /\ UNCHANGED <<users, banned, oauth_accounts, auth_exchange_codes, grants,
                       opened, req>>
    BY DEF StartGoogleOAuth
  <1> HIDE DEF row
  <1>3. TypeOK'
    BY <1>1, <1>2 DEF Inv, TypeOK
  <1>n. None \notin State /\ None \notin Project
    BY NoneIsNothing
  <1>4. /\ oauth_states'[s] = row /\ flows'[s] = p
        /\ \A t \in State \ {s} : oauth_states'[t] = oauth_states[t] /\ flows'[t] = flows[t]
    BY <1>2 DEF Inv, TypeOK
  <1>5. CodesOf(s) = {}
    <2>1. \A c \in AuthCode : grants[c] # None => flows[grants[c].state] \in Project
      BY CodeTyped DEF Inv, GrantsSound, CodesFollowTheFlow
    <2>2. QED
      BY <1>2, <1>n, <2>1 DEF CodesOf
  <1>6. GrantsSound'
    BY <1>1, <1>2, <1>4, <1>5 DEF Inv, GrantsSound, CodesOf, UserExists
  <1>7. AccountsSound' /\ OneUserPerEmail' /\ GoogleUsersAreLinked'
    BY <1>2 DEF Inv, AccountsSound, OneUserPerEmail, GoogleUsersAreLinked, UserExists
  <1>8. CodesFollowTheFlow'
    <2>1. \A c \in AuthCode : auth_exchange_codes[c] # None => grants[c].state \in State \ {s}
      BY <1>5, GrantTyped DEF Inv, GrantsSound, CodesOf
    <2>2. QED
      BY <1>2, <1>4, <2>1 DEF Inv, CodesFollowTheFlow, AccountsOf
  <1>9. RequestsSound'
    <2> SUFFICES ASSUME NEW q \in Request PROVE Sound(req[q])'
      BY DEF RequestsSound
    <2>1. Sound(req[q]) /\ req[q] \in RequestState
      BY RequestTyped DEF Inv, RequestsSound
    <2>2. req[q].state # None =>
             /\ req[q].state \in State \ {s} /\ oauth_states[req[q].state] = None
      BY <1>2, <1>n, <2>1 DEF Sound, FlowSound
    <2>3. req[q].state # None =>
             /\ flows'[req[q].state] = flows[req[q].state]
             /\ oauth_states'[req[q].state] = oauth_states[req[q].state]
             /\ CodesOf(req[q].state)' = CodesOf(req[q].state)
      BY <1>2, <1>4, <2>2 DEF CodesOf
    <2>4. FlowSound(req[q])'
      BY <1>2, <1>n, <2>1, <2>3 DEF Sound, FlowSound, Callback
    <2>5. ResolutionSound(req[q])' /\ ExchangeSound(req[q])'
      BY <1>2, <2>1 DEF Sound, ResolutionSound, ExchangeSound, Callback,
                        UsersWithEmail, UserExists, AccountsOf
    <2>6. QED
      BY <2>4, <2>5 DEF Sound
  <1>10. RequestsApart'
    BY <1>2 DEF Inv, RequestsApart, Apart
  <1>11. QED
    BY <1>3, <1>6, <1>7, <1>8, <1>9, <1>10 DEF Inv

\* The state is deleted as it is read: nobody else has it, and no code came of it.
LEMMA TakeOAuthStateKeeps ==
    ASSUME Inv, NEW r \in Request, NEW s \in State, TakeOAuthState(r, s)
    PROVE  Inv'
  <1> DEFINE x == [Slot("google") EXCEPT !.state = s, !.project = oauth_states[s].project]
  <1>1. /\ oauth_states' = [oauth_states EXCEPT ![s] = None]
        /\ UNCHANGED <<users, banned, oauth_accounts, auth_exchange_codes,
                       flows, grants, opened>>
    BY DEF TakeOAuthState, Taken, history
  <1>n. None \notin State /\ None \notin Project
    BY NoneIsNothing
  <1>2. /\ oauth_states'[s] = None
        /\ \A t \in State \ {s} : oauth_states'[t] = oauth_states[t]
    BY <1>1 DEF Inv, TypeOK
  <1>3. PICK y : /\ req' = [req EXCEPT ![r] = y]
                 /\ \/ y = Slot("idle")
                    \/ y = x /\ oauth_states[s] # None
    BY DEF TakeOAuthState, Answer
  <1>4. oauth_states[s] # None =>
           /\ x \in RequestState
           /\ x.pc = "google" /\ x.state = s /\ x.project = oauth_states[s].project
           /\ x.inserts = "nothing" /\ x.code = None /\ x.shunned = {}
    BY StateTyped, SlotTyped DEF Inv, Slot, RequestState
  <1>5. y \in RequestState
    BY <1>3, <1>4, SlotTyped
  <1>6. TypeOK'
    BY <1>1, <1>3, <1>5 DEF Inv, TypeOK
  <1>7. GrantsSound' /\ AccountsSound' /\ CodesFollowTheFlow' /\ OneUserPerEmail'
        /\ GoogleUsersAreLinked'
    BY <1>1, <1>2 DEF Inv, GrantsSound, AccountsSound, CodesFollowTheFlow,
              OneUserPerEmail, GoogleUsersAreLinked, CodesOf, UserExists, AccountsOf
  <1>8. req'[r] = y /\ \A q \in Request \ {r} : req'[q] = req[q]
    BY <1>3 DEF Inv, TypeOK
  <1>9. RequestsSound'
    <2> SUFFICES ASSUME NEW q \in Request PROVE Sound(req[q])'
      BY DEF RequestsSound
    <2>1. CASE q # r
      <3>1. Sound(req[q]) /\ req'[q] = req[q]
        BY <1>8, <2>1 DEF Inv, RequestsSound
      <3>2. req[q].state # None => req[q].state \in State /\ oauth_states[req[q].state] = None
        BY <3>1 DEF Sound, FlowSound
      <3>3. QED
        BY <1>1, <1>2, <3>1, <3>2
           DEF Sound, FlowSound, ResolutionSound, ExchangeSound, Callback,
               CodesOf, UsersWithEmail, UserExists, AccountsOf
    <2>2. CASE q = r /\ y = Slot("idle")
      BY <1>8, <2>2 DEF Sound, FlowSound, ResolutionSound, ExchangeSound, Callback,
                        Slot, Waiting
    <2>3. CASE q = r /\ y = x /\ oauth_states[s] # None
      <3>1. flows[s] = oauth_states[s].project /\ CodesOf(s) = {}
            /\ oauth_states[s].project \in Project
        BY <2>3, StateTyped DEF Inv, GrantsSound
      <3>2. CodesOf(s)' = {}
        BY <1>1, <3>1 DEF CodesOf
      <3> HIDE DEF x
      <3>3. FlowSound(req[q])'
        BY <1>1, <1>2, <1>4, <1>8, <2>3, <3>1, <3>2
           DEF FlowSound, Callback, Waiting, CodesOf
      <3>4. ResolutionSound(req[q])' /\ ExchangeSound(req[q])'
        BY <1>4, <1>8, <2>3 DEF ResolutionSound, ExchangeSound, Callback, Waiting
      <3>5. QED
        BY <3>3, <3>4 DEF Sound
    <2>4. QED
      BY <1>3, <2>1, <2>2, <2>3
  <1>10. RequestsApart'
    <2>1. ASSUME NEW q \in Request \ {r}
          PROVE  Apart(y, req[q]) /\ Apart(req[q], y)
      <3>1. CASE y = Slot("idle")
        BY <3>1, IdleSound
      <3>2. CASE y = x /\ oauth_states[s] # None
        <4>1. req[q].state # s
          BY <3>2, <1>n DEF Inv, RequestsSound, Sound, FlowSound
        <4> HIDE DEF x
        <4>2. QED
          BY <1>4, <3>2, <4>1 DEF Apart
      <3>3. QED
        BY <1>3, <3>1, <3>2
    <2>2. QED
      BY <1>3, <2>1, StaysApart DEF Inv
  <1>11. QED
    BY <1>6, <1>7, <1>9, <1>10 DEF Inv

\* What a callback writes when it commits.
LEMMA CommitFacts ==
    ASSUME Inv, NEW r \in Request, NEW c \in AuthCode, NEW u \in User,
           CallbackCommit(r, c, u)
    PROVE  /\ req[r].pc = "mint" /\ Sound(req[r]) /\ req[r] \in RequestState
           /\ auth_exchange_codes[c] = None /\ grants[c] = None
           /\ req'[r] = Slot("idle") /\ \A q \in Request \ {r} : req'[q] = req[q]
           /\ users'[u] \in UserRow /\ users'[u].project = req[r].project
           /\ \A v \in User \ {u} : users'[v] = users[v]
           /\ IF req[r].inserts = "user"
                THEN ~ UserExists(u) /\ users'[u].email = req[r].email
                ELSE /\ u = req[r].user /\ UserExists(u)
                     /\ users[u].project = req[r].project
                     /\ users'[u].email = users[u].email
                     /\ users'[u].origin = users[u].origin
           /\ auth_exchange_codes'[c] \in CodeRow
           /\ auth_exchange_codes'[c].project = req[r].project
           /\ auth_exchange_codes'[c].user_id = u
           /\ \A d \in AuthCode \ {c} :
                 auth_exchange_codes'[d] = auth_exchange_codes[d] /\ grants'[d] = grants[d]
           /\ grants'[c] \in Grant
           /\ grants'[c].state = req[r].state /\ grants'[c].sub = req[r].sub
           /\ \E a \in AccountRow :
                 /\ a.provider_user_id = req[r].sub /\ a.user_id = u
                 /\ oauth_accounts' = oauth_accounts \union {a}
                 /\ IF req[r].inserts = "nothing" THEN a \in oauth_accounts
                                                  ELSE AccountsOf(req[r].sub) = {}
           /\ UNCHANGED <<oauth_states, banned, flows, opened>>
  <1> DEFINE x == req[r]
             a == [provider_user_id |-> x.sub, user_id |-> u]
  <1>1. /\ x.pc = "mint" /\ Sound(x) /\ x \in RequestState
        /\ x.project \in Project /\ x.state \in State /\ x.sub \in Subject /\ x.email \in Email
    BY RequestTyped
       DEF CallbackCommit, At, Inv, RequestsSound, Sound, FlowSound, ResolutionSound,
           Callback, Waiting
  <1>2. auth_exchange_codes[c] = None /\ grants[c] = None
    BY DEF CallbackCommit, Inv, GrantsSound
  <1>3. req'[r] = Slot("idle") /\ \A q \in Request \ {r} : req'[q] = req[q]
    BY DEF CallbackCommit, Answer, Inv, TypeOK
  <1>4. users' = [users EXCEPT ![u] = Resolved(r, u)]
    BY DEF CallbackCommit
  <1>5. users'[u] = Resolved(r, u) /\ \A v \in User \ {u} : users'[v] = users[v]
    BY <1>4 DEF Inv, TypeOK
  <1>9. /\ NewCode(r, u) \in CodeRow /\ NewCode(r, u).project = x.project
        /\ NewCode(r, u).user_id = u
    BY <1>1 DEF NewCode, CodeRow
  <1>10. /\ auth_exchange_codes'[c] = NewCode(r, u)
         /\ grants'[c] = [state |-> x.state, sub |-> x.sub]
         /\ \A d \in AuthCode \ {c} :
               auth_exchange_codes'[d] = auth_exchange_codes[d] /\ grants'[d] = grants[d]
    BY DEF CallbackCommit, Inv, TypeOK
  <1>11. grants'[c] \in Grant /\ grants'[c].state = x.state /\ grants'[c].sub = x.sub
    BY <1>1, <1>10 DEF Grant
  <1>12. \E b \in AccountRow :
            /\ b.provider_user_id = x.sub /\ b.user_id = u
            /\ oauth_accounts' = oauth_accounts \union {b}
            /\ IF x.inserts = "nothing" THEN b \in oauth_accounts ELSE AccountsOf(x.sub) = {}
    <2>1. a \in AccountRow /\ a.provider_user_id = x.sub /\ a.user_id = u
      BY <1>1 DEF AccountRow
    <2>2. CASE x.inserts = "nothing"
      <3>1. a \in oauth_accounts /\ oauth_accounts' = oauth_accounts
        BY <1>1, <2>2 DEF CallbackCommit, Sound, ResolutionSound
      <3>2. QED
        BY <2>1, <2>2, <3>1
    <2>3. CASE x.inserts # "nothing"
      <3>1. AccountsOf(x.sub) = {} /\ oauth_accounts' = oauth_accounts \union {a}
        BY <1>1, <2>3 DEF CallbackCommit, Sound, ResolutionSound
      <3>2. QED
        BY <2>1, <2>3, <3>1
    <2>4. QED
      BY <2>2, <2>3
  <1>13. UNCHANGED <<oauth_states, banned, flows, opened>>
    BY DEF CallbackCommit
  <1>14. x.inserts \in {"nothing", "link", "user"}
    BY RequestTyped DEF Inv
  <1>15. /\ users'[u] \in UserRow /\ users'[u].project = x.project
         /\ IF x.inserts = "user"
                THEN ~ UserExists(u) /\ users'[u].email = x.email
                ELSE /\ u = x.user /\ UserExists(u)
                     /\ users[u].project = x.project
                     /\ users'[u].email = users[u].email
                     /\ users'[u].origin = users[u].origin
    <2>1. CASE x.inserts = "user"
      <3> DEFINE row == [project |-> x.project, email |-> x.email,
                         email_verified |-> x.vouched, origin |-> "google"]
      <3>1. Resolved(r, u) = row
        BY <2>1 DEF Resolved
      <3>2. row \in UserRow /\ row.project = x.project /\ row.email = x.email
        BY <1>1, RequestTyped DEF UserRow, Inv
      <3>3. ~ UserExists(u)
        BY <2>1 DEF CallbackCommit
      <3>4. QED
        BY <1>5, <2>1, <3>1, <3>2, <3>3
    <2>2. CASE x.inserts = "link"
      <3>1. u = x.user /\ u \in UsersWithEmail(x.project, x.email)
        BY <1>1, <2>2 DEF CallbackCommit, Sound, ResolutionSound
      <3>2. UserExists(u) /\ users[u].project = x.project /\ users[u] \in UserRow
        BY <3>1, UserTyped DEF UsersWithEmail, Inv
      <3>3. Resolved(r, u) = [users[u] EXCEPT !.email_verified = TRUE]
        BY <2>2 DEF Resolved
      <3>4. /\ users'[u] \in UserRow /\ users'[u].project = users[u].project
            /\ users'[u].email = users[u].email /\ users'[u].origin = users[u].origin
        BY <1>5, <3>2, <3>3 DEF UserRow
      <3>5. QED
        BY <2>2, <3>1, <3>2, <3>4
    <2>3. CASE x.inserts = "nothing"
      <3>1. /\ u = x.user /\ [provider_user_id |-> x.sub, user_id |-> x.user] \in oauth_accounts
            /\ users[x.user].project = x.project
        BY <1>1, <2>3 DEF CallbackCommit, Sound, ResolutionSound
      <3>2. UserExists(u)
        BY <3>1 DEF Inv, AccountsSound
      <3>3. Resolved(r, u) = users[u]
        BY <2>3 DEF Resolved
      <3>4. QED
        BY <1>5, <2>3, <3>1, <3>2, <3>3, UserTyped DEF Inv
    <2>4. QED
      BY <1>14, <2>1, <2>2, <2>3
  <1>16. QED
    BY <1>1, <1>2, <1>3, <1>5, <1>9, <1>10, <1>11, <1>12, <1>13, <1>15

LEMMA CallbackCommitKeeps ==
    ASSUME Inv, NEW r \in Request, NEW c \in AuthCode, NEW u \in User,
           CallbackCommit(r, c, u)
    PROVE  Inv'
  <1> DEFINE x == req[r]
  <1>1. /\ x.pc = "mint" /\ Sound(x) /\ x \in RequestState
        /\ auth_exchange_codes[c] = None /\ grants[c] = None
        /\ req'[r] = Slot("idle") /\ \A q \in Request \ {r} : req'[q] = req[q]
    BY CommitFacts
  <1>2. /\ users'[u] \in UserRow /\ users'[u].project = x.project
        /\ \A v \in User \ {u} : users'[v] = users[v]
        /\ IF x.inserts = "user"
                THEN ~ UserExists(u) /\ users'[u].email = x.email
                ELSE /\ u = x.user /\ UserExists(u)
                     /\ users[u].project = x.project
                     /\ users'[u].email = users[u].email
                     /\ users'[u].origin = users[u].origin
    BY CommitFacts
  <1>3. /\ auth_exchange_codes'[c] \in CodeRow
        /\ auth_exchange_codes'[c].project = x.project
        /\ auth_exchange_codes'[c].user_id = u
        /\ grants'[c] \in Grant /\ grants'[c].state = x.state /\ grants'[c].sub = x.sub
        /\ \A d \in AuthCode \ {c} :
              auth_exchange_codes'[d] = auth_exchange_codes[d] /\ grants'[d] = grants[d]
    BY CommitFacts
  <1>4. PICK a \in AccountRow :
            /\ a.provider_user_id = x.sub /\ a.user_id = u
            /\ oauth_accounts' = oauth_accounts \union {a}
            /\ IF x.inserts = "nothing" THEN a \in oauth_accounts ELSE AccountsOf(x.sub) = {}
    BY CommitFacts
  <1>5. UNCHANGED <<oauth_states, banned, flows, opened>>
    BY DEF CallbackCommit
  <1>6. /\ x.state \in State /\ flows[x.state] = x.project
        /\ oauth_states[x.state] = None /\ CodesOf(x.state) = {}
    BY <1>1 DEF Sound, FlowSound, Callback, Waiting
  <1>n. None \notin UserRow \union CodeRow \union Grant /\ None \notin State
    BY NoneIsNothing
  <1>7. \A v \in User : UserExists(v) =>
           /\ users'[v] # None /\ users'[v].project = users[v].project
           /\ users'[v].email = users[v].email /\ users'[v].origin = users[v].origin
    BY <1>2, <1>n DEF UserExists
  <1>8. TypeOK'
    <2>1. users' = [users EXCEPT ![u] = users'[u]]
      BY DEF CallbackCommit, Inv, TypeOK
    <2>2. auth_exchange_codes' = [auth_exchange_codes EXCEPT ![c] = auth_exchange_codes'[c]]
          /\ grants' = [grants EXCEPT ![c] = grants'[c]]
      BY DEF CallbackCommit, Inv, TypeOK
    <2>3. req' \in [Request -> RequestState]
      BY SlotTyped DEF CallbackCommit, Answer, Inv, TypeOK
    <2>4. users' \in [User -> UserRow \union {None}]
      BY <1>2, <2>1 DEF Inv, TypeOK
    <2>5. /\ auth_exchange_codes' \in [AuthCode -> CodeRow \union {None}]
          /\ grants' \in [AuthCode -> Grant \union {None}]
      BY <1>3, <2>2 DEF Inv, TypeOK
    <2>6. QED
      BY <1>4, <1>5, <2>3, <2>4, <2>5 DEF Inv, TypeOK
  <1>9. GrantsSound'
    <2>1. \A s \in State : oauth_states'[s] # None =>
            flows'[s] = oauth_states'[s].project /\ CodesOf(s)' = {}
      <3> SUFFICES ASSUME NEW s \in State, oauth_states'[s] # None
                   PROVE  flows'[s] = oauth_states'[s].project /\ CodesOf(s)' = {}
        OBVIOUS
      <3>1. s # x.state /\ CodesOf(s) = {} /\ flows[s] = oauth_states[s].project
        BY <1>5, <1>6 DEF Inv, GrantsSound
      <3>2. CodesOf(s)' = {}
        BY <1>3, <3>1 DEF CodesOf
      <3>3. QED
        BY <1>5, <3>1, <3>2
    <2>2. \A d \in AuthCode :
            IF auth_exchange_codes'[d] = None
              THEN grants'[d] = None /\ opened'[d] = 0
              ELSE /\ grants'[d] # None
                   /\ users'[auth_exchange_codes'[d].user_id] # None
                   /\ opened'[d] \in {0, 1}
                   /\ opened'[d] = 1 => auth_exchange_codes'[d].consumed
      <3> SUFFICES ASSUME NEW d \in AuthCode
                   PROVE  IF auth_exchange_codes'[d] = None
                            THEN grants'[d] = None /\ opened'[d] = 0
                            ELSE /\ grants'[d] # None
                                 /\ users'[auth_exchange_codes'[d].user_id] # None
                                 /\ opened'[d] \in {0, 1}
                                 /\ opened'[d] = 1 => auth_exchange_codes'[d].consumed
        OBVIOUS
      <3>1. CASE d = c
        BY <1>1, <1>2, <1>3, <1>5, <1>n, <3>1 DEF Inv, GrantsSound
      <3>2. CASE d # c
        BY <1>3, <1>5, <1>7, <3>2, CodeTyped DEF Inv, GrantsSound
      <3>3. QED
        BY <3>1, <3>2
    <2>3. \A d, e \in AuthCode :
             grants'[d] # None /\ grants'[e] # None /\ d # e => grants'[d].state # grants'[e].state
      BY <1>3, <1>6 DEF Inv, GrantsSound, CodesOf
    <2>4. QED
      BY <2>1, <2>2, <2>3 DEF GrantsSound, UserExists
  <1>10. AccountsSound'
    <2>1. \A b \in oauth_accounts' : users'[b.user_id] # None
      BY <1>2, <1>4, <1>7, <1>n DEF Inv, TypeOK, AccountRow, AccountsSound
    <2>2. \A b, d \in oauth_accounts' : b.provider_user_id = d.provider_user_id => b = d
      BY <1>4 DEF Inv, AccountsSound, AccountsOf
    <2>3. QED
      BY <2>1, <2>2 DEF AccountsSound, UserExists
  <1>11. CodesFollowTheFlow'
    <2> SUFFICES ASSUME NEW d \in AuthCode, auth_exchange_codes'[d] # None
                 PROVE  /\ flows'[grants'[d].state] = auth_exchange_codes'[d].project
                        /\ users'[auth_exchange_codes'[d].user_id].project
                              = auth_exchange_codes'[d].project
                        /\ \A b \in oauth_accounts' : b.provider_user_id = grants'[d].sub =>
                              b.user_id = auth_exchange_codes'[d].user_id
                        /\ \E b \in oauth_accounts' : b.provider_user_id = grants'[d].sub
      BY DEF CodesFollowTheFlow, AccountsOf
    <2>1. CASE d = c
      <3>1. \A b \in oauth_accounts' : b.provider_user_id = x.sub => b.user_id = u
        BY <1>4 DEF Inv, AccountsSound, AccountsOf
      <3>2. QED
        BY <1>2, <1>3, <1>4, <1>5, <1>6, <2>1, <3>1
    <2>2. CASE d # c
      <3>1. /\ flows[grants[d].state] = auth_exchange_codes[d].project
            /\ users[auth_exchange_codes[d].user_id].project = auth_exchange_codes[d].project
            /\ \A b \in oauth_accounts : b.provider_user_id = grants[d].sub =>
                  b.user_id = auth_exchange_codes[d].user_id
            /\ \E b \in oauth_accounts : b.provider_user_id = grants[d].sub
            /\ UserExists(auth_exchange_codes[d].user_id)
            /\ auth_exchange_codes[d].user_id \in User
        BY <1>3, <2>2, CodeTyped DEF Inv, CodesFollowTheFlow, AccountsOf, GrantsSound
      <3>2. \A b \in oauth_accounts' : b.provider_user_id = grants[d].sub =>
                  b.user_id = auth_exchange_codes[d].user_id
        BY <1>4, <3>1 DEF AccountsOf
      <3>3. QED
        BY <1>3, <1>4, <1>5, <1>7, <2>2, <3>1, <3>2
    <2>3. QED
      BY <2>1, <2>2
  <1>12. OneUserPerEmail'
    <2> SUFFICES ASSUME NEW v \in User, NEW w \in User, v # w,
                        users'[v] # None, users'[w] # None,
                        users'[v].project = users'[w].project,
                        users'[v].email = users'[w].email
                 PROVE  FALSE
      BY DEF OneUserPerEmail, UserExists
    <2>1. CASE x.inserts # "user"
      <3>1. \A y \in User : users'[y] # None => UserExists(y)
        BY <1>2, <2>1 DEF UserExists
      <3>2. QED
        BY <1>7, <3>1 DEF Inv, OneUserPerEmail
    <2>2. CASE x.inserts = "user"
      <3>1. UsersWithEmail(x.project, x.email) = {}
        BY <1>1, <2>2 DEF Sound, ResolutionSound
      <3>2. \A y \in User \ {u} : users'[y] # None =>
              ~ (users'[y].project = x.project /\ users'[y].email = x.email)
        BY <1>2, <3>1 DEF UsersWithEmail, UserExists
      <3>3. QED
        BY <1>2, <2>2, <3>2 DEF Inv, OneUserPerEmail, UserExists
    <2>3. QED
      BY <2>1, <2>2
  <1>13. GoogleUsersAreLinked'
    <2> SUFFICES ASSUME NEW v \in User, users'[v] # None, users'[v].origin = "google"
                 PROVE  \E b \in oauth_accounts' : b.user_id = v
      BY DEF GoogleUsersAreLinked, UserExists
    <2>1. CASE v = u
      BY <1>4, <2>1
    <2>2. CASE v # u
      BY <1>2, <1>4, <2>2 DEF Inv, GoogleUsersAreLinked, UserExists
    <2>3. QED
      BY <2>1, <2>2
  <1>14. RequestsSound'
    <2> SUFFICES ASSUME NEW q \in Request PROVE Sound(req[q])'
      BY DEF RequestsSound
    <2>1. CASE q = r
      BY <1>1, <2>1 DEF Sound, FlowSound, ResolutionSound, ExchangeSound, Callback,
                        Slot, Waiting
    <2>2. CASE q # r
      <3>1. /\ req'[q] = req[q] /\ Sound(req[q]) /\ Apart(x, req[q]) /\ Apart(req[q], x)
        BY <1>1, <2>2 DEF Inv, RequestsSound, RequestsApart
      <3>2. req[q].state # None =>
              /\ flows'[req[q].state] = flows[req[q].state]
              /\ oauth_states'[req[q].state] = None
              /\ \A d \in AuthCode :
                    grants'[d] = grants[d] \/ grants'[d].state # req[q].state
        BY <1>3, <1>5, <3>1 DEF Sound, FlowSound, Apart
      <3>3. req[q].inserts = "user" => UsersWithEmail(req[q].project, req[q].email)' = {}
        <4> SUFFICES ASSUME req[q].inserts = "user", NEW v \in User, users'[v] # None,
                            users'[v].project = req[q].project,
                            users'[v].email = req[q].email
                     PROVE  FALSE
          BY <3>1 DEF UsersWithEmail, UserExists
        <4>1. UsersWithEmail(req[q].project, req[q].email) = {}
          BY <3>1 DEF Sound, ResolutionSound
        <4>2. ~ UserExists(v)
          BY <1>7, <4>1 DEF UsersWithEmail
        <4>3. v = u /\ x.inserts = "user"
          BY <1>2, <4>2 DEF UserExists
        <4>4. QED
          BY <1>2, <3>1, <4>3 DEF Apart
      <3>4. req[q].pc = "mint" /\ req[q].inserts # "nothing" => AccountsOf(req[q].sub)' = {}
        <4> SUFFICES ASSUME req[q].pc = "mint", req[q].inserts # "nothing",
                            NEW b \in oauth_accounts',
                            b.provider_user_id = req[q].sub
                     PROVE  FALSE
          BY <3>1 DEF AccountsOf
        <4>1. AccountsOf(req[q].sub) = {}
          BY <3>1 DEF Sound, ResolutionSound
        <4>2. b = a /\ b \notin oauth_accounts
          BY <1>4, <4>1 DEF AccountsOf
        <4>3. QED
          BY <1>1, <1>4, <3>1, <4>2 DEF Apart
      <3>5. req[q].code # None =>
              /\ auth_exchange_codes'[req[q].code] = auth_exchange_codes[req[q].code]
              /\ opened'[req[q].code] = opened[req[q].code]
        BY <1>1, <1>3, <1>5, <3>1 DEF Sound, ExchangeSound
      <3>6. QED
        BY <1>4, <1>5, <1>7, <3>1, <3>2, <3>3, <3>4, <3>5, SoundFrame
    <2>3. QED
      BY <2>1, <2>2
  <1>15. RequestsApart'
    <2>1. req' = [req EXCEPT ![r] = Slot("idle")]
      BY DEF CallbackCommit, Answer
    <2>2. QED
      BY <2>1, IdleSound, StaysApart DEF Inv
  <1>16. QED
    BY <1>8, <1>9, <1>10, <1>11, <1>12, <1>13, <1>14, <1>15 DEF Inv

\* A code that is consumed, or expires, is the same grant as before.
LEMMA CodeRowStep ==
    ASSUME Inv, NEW c \in AuthCode, auth_exchange_codes[c] # None, NEW row \in CodeRow,
           row.user_id = auth_exchange_codes[c].user_id,
           row.project = auth_exchange_codes[c].project,
           auth_exchange_codes[c].consumed => row.consumed,
           auth_exchange_codes' = [auth_exchange_codes EXCEPT ![c] = row],
           UNCHANGED <<oauth_states, users, banned, oauth_accounts, history>>
    PROVE  /\ auth_exchange_codes' \in [AuthCode -> CodeRow \union {None}]
           /\ auth_exchange_codes'[c] = row
           /\ \A d \in AuthCode \ {c} : auth_exchange_codes'[d] = auth_exchange_codes[d]
           /\ GrantsSound' /\ AccountsSound' /\ CodesFollowTheFlow'
           /\ OneUserPerEmail' /\ GoogleUsersAreLinked'
           /\ \A q \in Request : req'[q] = req[q] => Sound(req[q])'
  <1>u. UNCHANGED <<oauth_states, users, banned, oauth_accounts, flows, grants, opened>>
    BY DEF history
  <1>n. row # None
    BY NoneIsNothing
  <1>1. auth_exchange_codes' \in [AuthCode -> CodeRow \union {None}]
    BY DEF Inv, TypeOK
  <1>2. /\ auth_exchange_codes'[c] = row
        /\ \A d \in AuthCode \ {c} : auth_exchange_codes'[d] = auth_exchange_codes[d]
    BY DEF Inv, TypeOK
  <1>3. GrantsSound'
    BY <1>u, <1>n, <1>2 DEF Inv, GrantsSound, CodesOf, UserExists
  <1>4. AccountsSound' /\ OneUserPerEmail' /\ GoogleUsersAreLinked'
    BY <1>u DEF Inv, AccountsSound, OneUserPerEmail, GoogleUsersAreLinked, UserExists
  <1>5. CodesFollowTheFlow'
    BY <1>u, <1>n, <1>2 DEF Inv, CodesFollowTheFlow, AccountsOf
  <1>6. ASSUME NEW q \in Request, req'[q] = req[q]
        PROVE  Sound(req[q])'
    <2>1. Sound(req[q])
      BY DEF Inv, RequestsSound
    <2>2. FlowSound(req[q])' /\ ResolutionSound(req[q])'
      BY <1>u, <1>6, <2>1 DEF Sound, FlowSound, ResolutionSound, Callback, CodesOf,
                              UsersWithEmail, UserExists, AccountsOf
    <2>3. ExchangeSound(req[q])'
      BY <1>u, <1>n, <1>2, <1>6, <2>1 DEF Sound, ExchangeSound
    <2>4. QED
      BY <2>2, <2>3 DEF Sound
  <1>7. QED
    BY <1>1, <1>2, <1>3, <1>4, <1>5, <1>6

\* The code is consumed as it is judged: nobody else has it, and it opened nothing.
LEMMA TakeAuthExchangeCodeKeeps ==
    ASSUME Inv, NEW r \in Request, NEW c \in AuthCode, NEW p \in Project,
           TakeAuthExchangeCode(r, c, p)
    PROVE  Inv'
  <1> DEFINE old == auth_exchange_codes[c]
             row == [old EXCEPT !.consumed = TRUE]
             x == [Slot("user") EXCEPT !.code = c, !.project = p, !.shunned = banned,
                                       !.user = old.user_id]
  <1>1. old # None /\ UNCHANGED <<oauth_states, users, banned, oauth_accounts, history>>
    BY DEF TakeAuthExchangeCode
  <1>2. CASE ~ Takable(old, p)
    <2>1. Answer(r, "auth_code_invalid") /\ UNCHANGED <<tables, history>>
      BY <1>1, <1>2 DEF TakeAuthExchangeCode, tables
    <2>2. QED
      BY <2>1, AnswerStep
  <1>3. CASE Takable(old, p)
    <2>1. /\ old \in CodeRow /\ old.user_id \in User /\ old.project = p /\ ~ old.consumed
      BY <1>1, <1>3, CodeTyped DEF Takable, Inv
    <2>2. /\ row \in CodeRow /\ row.user_id = old.user_id /\ row.project = old.project
          /\ row.consumed
      BY <2>1 DEF CodeRow
    <2>3. auth_exchange_codes' = [auth_exchange_codes EXCEPT ![c] = row]
          /\ req' = [req EXCEPT ![r] = x]
      BY <1>3 DEF TakeAuthExchangeCode
    <2>4. /\ x \in RequestState /\ x.pc = "user" /\ x.state = None /\ x.code = c
          /\ x.project = p /\ x.inserts = "nothing" /\ x.user = old.user_id
          /\ x.shunned = banned
      BY <2>1, SlotTyped DEF Slot, RequestState, Inv, TypeOK
    <2>n. row # None /\ None \notin AuthCode
      BY <2>2, NoneIsNothing
    <2> HIDE DEF x, row
    <2>5. /\ auth_exchange_codes' \in [AuthCode -> CodeRow \union {None}]
          /\ auth_exchange_codes'[c] = row
          /\ GrantsSound' /\ AccountsSound' /\ CodesFollowTheFlow'
          /\ OneUserPerEmail' /\ GoogleUsersAreLinked'
          /\ \A q \in Request : req'[q] = req[q] => Sound(req[q])'
      BY <1>1, <2>2, <2>3, CodeRowStep
    <2>6. req'[r] = x /\ \A q \in Request \ {r} : req'[q] = req[q]
      BY <2>3 DEF Inv, TypeOK
    <2>7. TypeOK'
      BY <1>1, <2>3, <2>4, <2>5 DEF Inv, TypeOK, history
    <2>8. opened[c] = 0
      BY <1>1, <2>1 DEF Inv, GrantsSound
    <2>9. Sound(req[r])'
      <3>1. FlowSound(req[r])' /\ ResolutionSound(req[r])'
        BY <2>4, <2>6 DEF FlowSound, ResolutionSound, Callback, Waiting
      <3>2. ExchangeSound(req[r])'
        BY <1>1, <2>1, <2>2, <2>4, <2>5, <2>6, <2>8, <2>n DEF ExchangeSound, history
      <3>3. QED
        BY <3>1, <3>2 DEF Sound
    <2>10. RequestsSound'
      BY <2>5, <2>6, <2>9 DEF RequestsSound
    <2>11. RequestsApart'
      <3>1. ASSUME NEW q \in Request \ {r}
            PROVE  Apart(x, req[q]) /\ Apart(req[q], x)
        <4>1. req[q].code # c
          BY <2>1, <2>n DEF Inv, RequestsSound, Sound, ExchangeSound
        <4>2. QED
          BY <2>4, <4>1 DEF Apart
      <3>2. QED
        BY <2>3, <3>1, StaysApart DEF Inv
    <2>12. QED
      BY <2>5, <2>7, <2>10, <2>11 DEF Inv
  <1>4. QED
    BY <1>2, <1>3

LEMMA ExchangeCommitKeeps ==
    ASSUME Inv, NEW r \in Request, ExchangeCommit(r)
    PROVE  Inv'
  <1> DEFINE c == req[r].code
  <1>1. /\ opened' = [opened EXCEPT ![c] = opened[c] + 1]
        /\ req' = [req EXCEPT ![r] = Slot("idle")]
        /\ UNCHANGED <<oauth_states, users, banned, oauth_accounts,
                       auth_exchange_codes, flows, grants>>
    BY DEF ExchangeCommit, Answer, tables
  <1>2. /\ c \in AuthCode /\ auth_exchange_codes[c] # None /\ auth_exchange_codes[c].consumed
        /\ opened[c] = 0
    BY DEF ExchangeCommit, At, Inv, RequestsSound, Sound, ExchangeSound
  <1>n. None \notin AuthCode
    BY NoneIsNothing
  <1>3. opened'[c] = 1 /\ \A d \in AuthCode \ {c} : opened'[d] = opened[d]
    BY <1>1, <1>2 DEF Inv, TypeOK
  <1>4. req'[r] = Slot("idle") /\ \A q \in Request \ {r} : req'[q] = req[q]
    BY <1>1 DEF Inv, TypeOK
  <1>5. TypeOK'
    BY <1>1, <1>2, SlotTyped DEF Inv, TypeOK
  <1>6. GrantsSound'
    BY <1>1, <1>2, <1>3 DEF Inv, GrantsSound, CodesOf, UserExists
  <1>7. AccountsSound' /\ CodesFollowTheFlow' /\ OneUserPerEmail' /\ GoogleUsersAreLinked'
    BY <1>1 DEF Inv, AccountsSound, CodesFollowTheFlow, OneUserPerEmail,
                GoogleUsersAreLinked, UserExists, AccountsOf
  <1>8. RequestsSound'
    <2> SUFFICES ASSUME NEW q \in Request PROVE Sound(req[q])'
      BY DEF RequestsSound
    <2>1. CASE q = r
      BY <1>4, <2>1 DEF Sound, FlowSound, ResolutionSound, ExchangeSound, Callback,
                        Slot, Waiting
    <2>2. CASE q # r
      <3>1. req'[q] = req[q] /\ Sound(req[q]) /\ Apart(req[r], req[q])
        BY <1>4, <2>2 DEF Inv, RequestsSound, RequestsApart
      <3>2. FlowSound(req[q])' /\ ResolutionSound(req[q])'
        BY <1>1, <3>1 DEF Sound, FlowSound, ResolutionSound, Callback, CodesOf,
                          UsersWithEmail, UserExists, AccountsOf
      <3>3. ExchangeSound(req[q])'
        BY <1>1, <1>2, <1>n, <1>3, <3>1 DEF Sound, ExchangeSound, Apart
      <3>4. QED
        BY <3>2, <3>3 DEF Sound
    <2>3. QED
      BY <2>1, <2>2
  <1>9. RequestsApart'
    BY <1>1, IdleSound, StaysApart DEF Inv
  <1>10. QED
    BY <1>5, <1>6, <1>7, <1>8, <1>9 DEF Inv

LEMMA ExpireCodeKeeps ==
    ASSUME Inv, NEW c \in AuthCode, ExpireCode(c)
    PROVE  Inv'
  <1> DEFINE row == [auth_exchange_codes[c] EXCEPT !.expired = TRUE]
  <1>1. /\ auth_exchange_codes[c] # None
        /\ auth_exchange_codes' = [auth_exchange_codes EXCEPT ![c] = row]
        /\ UNCHANGED <<oauth_states, users, banned, oauth_accounts, history, req>>
    BY DEF ExpireCode
  <1>2. /\ row \in CodeRow
        /\ row.user_id = auth_exchange_codes[c].user_id
        /\ row.project = auth_exchange_codes[c].project
        /\ row.consumed = auth_exchange_codes[c].consumed
    BY <1>1, CodeTyped DEF CodeRow, Inv
  <1> HIDE DEF row
  <1>3. /\ auth_exchange_codes' \in [AuthCode -> CodeRow \union {None}]
        /\ GrantsSound' /\ AccountsSound' /\ CodesFollowTheFlow'
        /\ OneUserPerEmail' /\ GoogleUsersAreLinked'
        /\ \A q \in Request : req'[q] = req[q] => Sound(req[q])'
    BY <1>1, <1>2, CodeRowStep
  <1>4. TypeOK'
    BY <1>1, <1>3 DEF Inv, TypeOK, history
  <1>5. RequestsSound' /\ RequestsApart'
    BY <1>1, <1>3 DEF Inv, RequestsSound, RequestsApart, Apart
  <1>6. QED
    BY <1>3, <1>4, <1>5 DEF Inv

LEMMA ExpireStateKeeps ==
    ASSUME Inv, NEW s \in State, ExpireState(s)
    PROVE  Inv'
  <1> DEFINE row == [oauth_states[s] EXCEPT !.expired = TRUE]
  <1>1. /\ oauth_states[s] # None
        /\ oauth_states' = [oauth_states EXCEPT ![s] = row]
        /\ UNCHANGED <<users, banned, oauth_accounts, auth_exchange_codes,
                       flows, grants, opened, req>>
    BY DEF ExpireState, history
  <1>2. row \in StateRow /\ row.project = oauth_states[s].project
    BY <1>1, StateTyped DEF StateRow, Inv
  <1> HIDE DEF row
  <1>3. /\ oauth_states'[s] = row
        /\ \A t \in State \ {s} : oauth_states'[t] = oauth_states[t]
    BY <1>1 DEF Inv, TypeOK
  <1>4. TypeOK'
    BY <1>1, <1>2 DEF Inv, TypeOK
  <1>5. GrantsSound'
    BY <1>1, <1>2, <1>3 DEF Inv, GrantsSound, CodesOf, UserExists
  <1>6. AccountsSound' /\ CodesFollowTheFlow' /\ OneUserPerEmail' /\ GoogleUsersAreLinked'
    BY <1>1 DEF Inv, AccountsSound, CodesFollowTheFlow, OneUserPerEmail,
                GoogleUsersAreLinked, UserExists, AccountsOf
  <1>7. RequestsSound'
    <2> SUFFICES ASSUME NEW q \in Request PROVE Sound(req[q])'
      BY DEF RequestsSound
    <2>1. Sound(req[q])
      BY DEF Inv, RequestsSound
    <2>2. req[q].state # None => req[q].state \in State /\ oauth_states[req[q].state] = None
      BY <2>1 DEF Sound, FlowSound
    <2>3. req[q].state # None => oauth_states'[req[q].state] = oauth_states[req[q].state]
      BY <1>1, <1>3, <2>2
    <2>n. None \notin State
      BY NoneIsNothing
    <2>4. FlowSound(req[q])'
      BY <1>1, <2>1, <2>3, <2>n DEF Sound, FlowSound, Callback, CodesOf
    <2>5. ResolutionSound(req[q])' /\ ExchangeSound(req[q])'
      BY <1>1, <2>1 DEF Sound, ResolutionSound, ExchangeSound, Callback,
                        UsersWithEmail, UserExists, AccountsOf
    <2>6. QED
      BY <2>4, <2>5 DEF Sound
  <1>8. RequestsApart'
    BY <1>1 DEF Inv, RequestsApart, Apart
  <1>9. QED
    BY <1>4, <1>5, <1>6, <1>7, <1>8 DEF Inv

LEMMA RegisterElsewhereKeeps ==
    ASSUME Inv, NEW u \in User, NEW p \in Project, NEW e \in Email,
           NEW verified \in BOOLEAN, RegisterElsewhere(u, p, e, verified)
    PROVE  Inv'
  <1> DEFINE row == [project |-> p, email |-> e, email_verified |-> verified,
                     origin |-> "elsewhere"]
  <1>1. /\ ~ UserExists(u) /\ UsersWithEmail(p, e) = {}
        /\ \A q \in Request : ~ InsertsUser(q, p, e)
        /\ users' = [users EXCEPT ![u] = row]
        /\ UNCHANGED <<oauth_states, banned, oauth_accounts, auth_exchange_codes,
                       flows, grants, opened, req>>
    BY DEF RegisterElsewhere, history
  <1>2. row \in UserRow /\ row.project = p /\ row.email = e /\ row.origin = "elsewhere"
    BY DEF UserRow
  <1>n. row # None
    BY <1>2, NoneIsNothing
  <1> HIDE DEF row
  <1>3. users'[u] = row /\ \A v \in User \ {u} : users'[v] = users[v]
    BY <1>1 DEF Inv, TypeOK
  <1>4. TypeOK'
    BY <1>1, <1>2 DEF Inv, TypeOK
  <1>5. \A v \in User : UserExists(v) => users'[v] = users[v]
    BY <1>1, <1>3
  <1>6. GrantsSound'
    BY <1>1, <1>5, CodeTyped DEF Inv, GrantsSound, CodesOf, UserExists
  <1>7. AccountsSound'
    BY <1>1, <1>5 DEF Inv, TypeOK, AccountRow, AccountsSound, UserExists
  <1>8. CodesFollowTheFlow'
    <2>1. \A c \in AuthCode : auth_exchange_codes[c] # None =>
            users'[auth_exchange_codes[c].user_id] = users[auth_exchange_codes[c].user_id]
      BY <1>5, CodeTyped DEF Inv, GrantsSound
    <2>2. QED
      BY <1>1, <2>1 DEF Inv, CodesFollowTheFlow, AccountsOf
  <1>9. OneUserPerEmail'
    BY <1>1, <1>2, <1>3 DEF Inv, OneUserPerEmail, UsersWithEmail, UserExists
  <1>10. GoogleUsersAreLinked'
    BY <1>1, <1>2, <1>3 DEF Inv, GoogleUsersAreLinked, UserExists
  <1>11. RequestsSound'
    <2> SUFFICES ASSUME NEW q \in Request PROVE Sound(req[q])'
      BY DEF RequestsSound
    <2>1. Sound(req[q]) /\ req'[q] = req[q]
      BY <1>1 DEF Inv, RequestsSound
    <2>2. req[q].state # None =>
             /\ flows'[req[q].state] = flows[req[q].state]
             /\ oauth_states'[req[q].state] = None
             /\ \A c \in AuthCode :
                   grants'[c] = grants[c] \/ grants'[c].state # req[q].state
      BY <1>1, <2>1 DEF Sound, FlowSound
    <2>3. req[q].inserts = "user" => UsersWithEmail(req[q].project, req[q].email)' = {}
      BY <1>1, <1>2, <1>3, <2>1
         DEF Sound, ResolutionSound, UsersWithEmail, UserExists, InsertsUser
    <2>4. req[q].pc = "mint" /\ req[q].inserts # "nothing" => AccountsOf(req[q].sub)' = {}
      BY <1>1, <2>1 DEF Sound, ResolutionSound, AccountsOf
    <2>5. \A v \in User : UserExists(v) =>
              /\ users'[v] # None
              /\ users'[v].project = users[v].project
              /\ users'[v].email = users[v].email
      BY <1>5 DEF UserExists
    <2>6. QED
      BY <1>1, <2>1, <2>2, <2>3, <2>4, <2>5, SoundFrame
  <1>12. RequestsApart'
    BY <1>1 DEF Inv, RequestsApart, Apart
  <1>13. QED
    BY <1>4, <1>6, <1>7, <1>8, <1>9, <1>10, <1>11, <1>12 DEF Inv

LEMMA SetUserBannedKeeps ==
    ASSUME Inv, NEW u \in User, NEW flag \in BOOLEAN, SetUserBanned(u, flag)
    PROVE  Inv'
  <1>1. /\ banned' = IF flag THEN banned \union {u} ELSE banned \ {u}
        /\ UNCHANGED <<oauth_states, users, oauth_accounts, auth_exchange_codes,
                       flows, grants, opened>>
    BY DEF SetUserBanned, history
  <1>2. ASSUME NEW q \in Request
        PROVE  /\ req'[q] \in RequestState
               /\ req'[q].pc = req[q].pc /\ req'[q].project = req[q].project
               /\ req'[q].state = req[q].state /\ req'[q].sub = req[q].sub
               /\ req'[q].email = req[q].email /\ req'[q].vouched = req[q].vouched
               /\ req'[q].user = req[q].user /\ req'[q].inserts = req[q].inserts
               /\ req'[q].code = req[q].code
               /\ req'[q].shunned = IF flag THEN req[q].shunned ELSE req[q].shunned \ {u}
    <2>1. req'[q] = [req[q] EXCEPT !.shunned = IF flag THEN @ ELSE @ \ {u}]
      BY DEF SetUserBanned
    <2>2. req[q] \in RequestState
      BY RequestTyped DEF Inv
    <2>3. QED
      BY <2>1, <2>2 DEF RequestState
  <1>3. req' \in [Request -> RequestState]
    <2>1. req' = [q \in Request |-> req'[q]]
      BY DEF SetUserBanned
    <2>2. QED
      BY <1>2, <2>1
  <1>4. TypeOK'
    BY <1>1, <1>3 DEF Inv, TypeOK
  <1>5. GrantsSound' /\ AccountsSound' /\ CodesFollowTheFlow' /\ OneUserPerEmail'
        /\ GoogleUsersAreLinked'
    BY <1>1 DEF Inv, GrantsSound, AccountsSound, CodesFollowTheFlow, OneUserPerEmail,
                GoogleUsersAreLinked, CodesOf, UserExists, AccountsOf
  <1>6. RequestsSound'
    <2> SUFFICES ASSUME NEW q \in Request PROVE Sound(req[q])'
      BY DEF RequestsSound
    <2>1. Sound(req[q])
      BY DEF Inv, RequestsSound
    <2>e. /\ req'[q].pc = req[q].pc /\ req'[q].project = req[q].project
          /\ req'[q].state = req[q].state /\ req'[q].sub = req[q].sub
          /\ req'[q].email = req[q].email /\ req'[q].vouched = req[q].vouched
          /\ req'[q].user = req[q].user /\ req'[q].inserts = req[q].inserts
      BY <1>2
    <2>2. FlowSound(req[q])'
      BY <1>1, <2>e, <2>1 DEF Sound, FlowSound, Callback, CodesOf
    <2>3. ResolutionSound(req[q])'
      BY <1>1, <2>e, <2>1 DEF Sound, ResolutionSound, Callback, UsersWithEmail,
                              UserExists, AccountsOf
    <2>4. ExchangeSound(req[q])'
      BY <1>1, <1>2, <2>1 DEF Sound, ExchangeSound
    <2>5. QED
      BY <2>2, <2>3, <2>4 DEF Sound
  <1>7. RequestsApart'
    <2> SUFFICES ASSUME NEW q \in Request, NEW p \in Request, q # p
                 PROVE  Apart(req[q], req[p])'
      BY DEF RequestsApart
    <2>1. Apart(req[q], req[p])
      BY DEF Inv, RequestsApart
    <2>2. /\ req'[q].pc = req[q].pc /\ req'[q].project = req[q].project
          /\ req'[q].state = req[q].state /\ req'[q].sub = req[q].sub
          /\ req'[q].email = req[q].email /\ req'[q].code = req[q].code
          /\ req'[q].inserts = req[q].inserts
      BY <1>2
    <2>3. /\ req'[p].pc = req[p].pc /\ req'[p].project = req[p].project
          /\ req'[p].state = req[p].state /\ req'[p].sub = req[p].sub
          /\ req'[p].email = req[p].email /\ req'[p].code = req[p].code
          /\ req'[p].inserts = req[p].inserts
      BY <1>2
    <2>4. QED
      BY <2>1, <2>2, <2>3 DEF Apart
  <1>8. QED
    BY <1>4, <1>5, <1>6, <1>7 DEF Inv

LEMMA ArriveKeeps ==
    ASSUME Inv, NEW r \in Request, Arrive(r)
    PROVE  Inv'
  BY TakeOAuthStateKeeps, TakeAuthExchangeCodeKeeps DEF Arrive

LEMMA ProceedKeeps ==
    ASSUME Inv, NEW r \in Request, Proceed(r)
    PROVE  Inv'
  BY GoogleExchangeKeeps, FindAccountKeeps, FindEmailKeeps, CreateOAuthAccountKeeps,
     CreateUserKeeps, CallbackCommitKeeps, ExchangeUserKeeps, ExchangeCommitKeeps
     DEF Proceed

LEMMA FailKeeps ==
    ASSUME Inv, NEW r \in Request, Fail(r)
    PROVE  Inv'
  BY AnswerStep DEF Fail

LEMMA EnvironmentKeeps ==
    ASSUME Inv, Environment
    PROVE  Inv'
  BY FailKeeps, StartGoogleOAuthKeeps, ExpireStateKeeps, ExpireCodeKeeps,
     RegisterElsewhereKeeps, SetUserBannedKeeps DEF Environment

LEMMA StutterKeeps == Inv /\ UNCHANGED vars => Inv'
  <1> SUFFICES ASSUME Inv, UNCHANGED vars PROVE Inv'
    OBVIOUS
  <1>1. /\ UNCHANGED <<oauth_states, users, banned, oauth_accounts>>
        /\ UNCHANGED <<auth_exchange_codes, flows, grants, opened, req>>
    BY DEF vars, tables, history
  <1>2. TypeOK' /\ GrantsSound' /\ AccountsSound' /\ CodesFollowTheFlow'
        /\ OneUserPerEmail' /\ GoogleUsersAreLinked'
    BY <1>1 DEF Inv, TypeOK, GrantsSound, AccountsSound, CodesFollowTheFlow,
                OneUserPerEmail, GoogleUsersAreLinked, CodesOf, UserExists, AccountsOf
  <1>3. RequestsSound'
    BY <1>1 DEF Inv, RequestsSound, Sound, FlowSound, ResolutionSound, ExchangeSound,
                Callback, CodesOf, UsersWithEmail, UserExists, AccountsOf
  <1>4. RequestsApart'
    BY <1>1 DEF Inv, RequestsApart, Apart
  <1>5. QED
    BY <1>2, <1>3, <1>4 DEF Inv

LEMMA StepKeeps == Inv /\ [Next]_vars => Inv'
  BY ArriveKeeps, ProceedKeeps, EnvironmentKeeps, StutterKeeps DEF Next

\* The invariant holds in every reachable state, whatever the numbers of
\* projects, users, identities, states, codes and requests.
THEOREM Invariance == Spec => []Inv
  BY InitInv, StepKeeps, PTL DEF Spec

-----------------------------------------------------------------------------
\* The properties that TLC checks on a small instance.

\* Every variable has its type, in every reachable state.
THEOREM TypeCorrectness == Spec => []TypeOK
  BY Invariance, PTL DEF Inv

\* A code belongs to one flow from its start to the user behind the identity.
THEOREM FlowsAreWhole == Spec => []CodesFollowTheFlow
  BY Invariance, PTL DEF Inv

\* A project has one user per address, although sign-ins create users while
\* signups do.
THEOREM UniqueEmails == Spec => []OneUserPerEmail
  BY Invariance, PTL DEF Inv

\* A user that Google sign-in made has its account, whatever fails.
THEOREM GoogleUsersHaveAccounts == Spec => []GoogleUsersAreLinked
  BY Invariance, PTL DEF Inv

\* Users before links before the commit: the first of a circle to have inserted
\* a link would wait for nobody, and so would the first to have inserted a user.
THEOREM NoCircularWait == Spec => []NobodyWaitsInACircle
  <1>1. ASSUME Inv, NEW D \in SUBSET Request, D # {}
        PROVE  \E r \in D : Blockers(r) \cap D = {}
    <2>1. \A r \in D : req[r].inserts # "nothing" => req[r].pc \in {"link_new", "mint"}
      BY <1>1 DEF Inv, RequestsSound, Sound, ResolutionSound
    <2>2. CASE \E r \in D : At(r, "mint")
      BY <2>2 DEF At, Blockers
    <2>3. CASE /\ \A q \in D : ~ At(q, "mint")
               /\ \E r \in D : req[r].pc \in {"link", "link_new"}
      BY <2>3 DEF At, Blockers, InsertsLink
    <2>4. CASE \A r \in D : req[r].pc \notin {"link", "link_new", "mint"}
      <3>1. ASSUME NEW q \in D, NEW p, NEW e
            PROVE  ~ InsertsUser(q, p, e)
        BY <2>1, <2>4 DEF InsertsUser
      <3>2. \A r \in D : Blockers(r) \cap D = {}
        BY <2>4, <3>1 DEF Blockers
      <3>3. QED
        BY <1>1, <3>2
    <2>5. QED
      BY <2>2, <2>3, <2>4 DEF At
  <1>2. Inv => NobodyWaitsInACircle
    BY <1>1 DEF NobodyWaitsInACircle
  <1>3. QED
    BY <1>2, Invariance, PTL

\* An identity is linked to a user that was there before by a callback that found
\* the user under an address that Google vouches for.
THEOREM LinksAreVouchedFor == Spec => LinkNeedsVouchedEmail
  <1> DEFINE Links ==
        \A a \in oauth_accounts' \ oauth_accounts :
          UserExists(a.user_id) =>
            \E r \in Request :
                /\ At(r, "mint") /\ req'[r].pc = "idle"
                /\ req[r].sub = a.provider_user_id
                /\ req[r].vouched
                /\ users[a.user_id].email = req[r].email
                /\ users[a.user_id].project = req[r].project
  <1>1. Inv /\ [Next]_vars => [Links]_vars
    <2> SUFFICES ASSUME Inv, Next, NEW a \in oauth_accounts' \ oauth_accounts,
                        UserExists(a.user_id)
                 PROVE  \E r \in Request :
                          /\ At(r, "mint") /\ req'[r].pc = "idle"
                          /\ req[r].sub = a.provider_user_id
                          /\ req[r].vouched
                          /\ users[a.user_id].email = req[r].email
                          /\ users[a.user_id].project = req[r].project
      OBVIOUS
    <2>1. oauth_accounts' # oauth_accounts
      OBVIOUS
    <2>2. PICK r \in Request, c \in AuthCode, u \in User : CallbackCommit(r, c, u)
      BY <2>1 DEF Next, Arrive, Proceed, Environment, TakeOAuthState, TakeAuthExchangeCode,
                  GoogleExchange, FindAccount, FindEmail, CreateOAuthAccount, CreateUser,
                  ExchangeUser, ExchangeCommit, Fail, StartGoogleOAuth, ExpireState,
                  ExpireCode, RegisterElsewhere, SetUserBanned, tables
    <2>3. /\ req[r].pc = "mint" /\ Sound(req[r]) /\ req'[r] = Slot("idle")
          /\ a.provider_user_id = req[r].sub /\ a.user_id = u
          /\ req[r].inserts # "nothing"
          /\ IF req[r].inserts = "user" THEN ~ UserExists(u) ELSE u = req[r].user
      BY <2>2, CommitFacts
    <2>4. req[r].inserts = "link"
      BY <2>3, RequestTyped DEF Inv
    <2>5. req[r].user \in UsersWithEmail(req[r].project, req[r].email) /\ req[r].vouched
      BY <2>3, <2>4 DEF Sound, ResolutionSound
    <2>6. req'[r].pc = "idle"
      BY <2>3 DEF Slot
    <2>7. QED
      BY <2>3, <2>4, <2>5, <2>6 DEF At, UsersWithEmail
  <1>2. QED
    BY <1>1, Invariance, PTL DEF Spec, LinkNeedsVouchedEmail

\* An exchange that succeeds is for a user of the project that asks, who was not
\* banned all the while.
THEOREM ExchangesAreJudged == Spec => ExchangeJudgesAgain
  <1> DEFINE Judged ==
        \A r \in Request :
          ExchangeCommit(r) =>
            /\ users[req[r].user].project = req[r].project
            /\ req[r].user \notin req[r].shunned
  <1>1. Inv => Judged
    <2> SUFFICES ASSUME Inv, NEW r \in Request, ExchangeCommit(r)
                 PROVE  /\ users[req[r].user].project = req[r].project
                        /\ req[r].user \notin req[r].shunned
      OBVIOUS
    <2>1. req[r].pc = "issue" /\ Sound(req[r])
      BY DEF ExchangeCommit, At, Inv, RequestsSound
    <2>2. QED
      BY <2>1 DEF Sound, ExchangeSound, Inv, CodesFollowTheFlow
  <1>2. Inv /\ [Next]_vars => [Judged]_vars
    BY <1>1
  <1>3. QED
    BY <1>2, Invariance, PTL DEF Spec, ExchangeJudgesAgain

-----------------------------------------------------------------------------
\* States and codes are grants for one use.  Under the invariant no two cases of
\* a status overlap, and each is told by what the tables and requests hold.

InHand(s) == \E r \in Request : req[r].state = s

HasCode(s) == \E c \in AuthCode : grants[c] # None /\ grants[c].state = s

StateTold ==
    \A s \in State :
      StateStatus[s] =
        IF flows[s] = None THEN "unissued"
        ELSE IF HasCode(s) THEN "used"
        ELSE IF oauth_states[s] # None
               THEN IF oauth_states[s].expired THEN "lost" ELSE "live"
        ELSE IF InHand(s) THEN "taken" ELSE "lost"

LEMMA StatusOfState == Inv => StateTold
  <1> SUFFICES ASSUME Inv, NEW s \in State
               PROVE  StateStatus[s] =
                        IF flows[s] = None THEN "unissued"
                        ELSE IF HasCode(s) THEN "used"
                        ELSE IF oauth_states[s] # None
                               THEN IF oauth_states[s].expired THEN "lost" ELSE "live"
                        ELSE IF InHand(s) THEN "taken" ELSE "lost"
    BY DEF StateTold
  <1>1. StateStatus[s] =
          CASE flows[s] = None -> "unissued"
            [] Cardinality(CodesOf(s)) = 1 -> "used"
            [] Cardinality(CodesOf(s)) > 1 -> "overused"
            [] oauth_states[s] # None /\ ~ oauth_states[s].expired -> "live"
            [] oauth_states[s] = None /\ (\E r \in Request : req[r].state = s) -> "taken"
            [] OTHER -> "lost"
    BY DEF StateStatus
  <1>2. HasCode(s) =>
          /\ Cardinality(CodesOf(s)) = 1
          /\ oauth_states[s] = None /\ ~ InHand(s)
    <2> SUFFICES ASSUME HasCode(s)
                 PROVE  /\ Cardinality(CodesOf(s)) = 1
                        /\ oauth_states[s] = None /\ ~ InHand(s)
      OBVIOUS
    <2>1. PICK c \in AuthCode : grants[c] # None /\ grants[c].state = s
      BY DEF HasCode
    <2>2. CodesOf(s) = {c}
      BY <2>1 DEF CodesOf, Inv, GrantsSound
    <2>3. Cardinality(CodesOf(s)) = 1
      BY <2>2, FS_Singleton
    <2>4. oauth_states[s] = None
      BY <2>2 DEF Inv, GrantsSound
    <2>5. ~ InHand(s)
      BY <2>2, NoneIsNothing DEF InHand, Inv, RequestsSound, Sound, FlowSound
    <2>6. QED
      BY <2>3, <2>4, <2>5
  <1>3. ~ HasCode(s) => Cardinality(CodesOf(s)) = 0
    <2>1. ~ HasCode(s) => CodesOf(s) = {}
      BY DEF HasCode, CodesOf
    <2>2. QED
      BY <2>1, FS_EmptySet
  <1>4. flows[s] = None => ~ HasCode(s) /\ oauth_states[s] = None /\ ~ InHand(s)
    <2>1. flows[s] = None => ~ HasCode(s)
      BY CodeTyped, NoneIsNothing DEF HasCode, Inv, GrantsSound, CodesFollowTheFlow
    <2>2. flows[s] = None => oauth_states[s] = None
      BY StateTyped, NoneIsNothing DEF Inv, GrantsSound
    <2>3. flows[s] = None => ~ InHand(s)
      BY NoneIsNothing DEF InHand, Inv, RequestsSound, Sound, FlowSound
    <2>4. QED
      BY <2>1, <2>2, <2>3
  <1>5. CASE flows[s] = None
    <2>1. Cardinality(CodesOf(s)) = 0 /\ oauth_states[s] = None
          /\ ~ (\E r \in Request : req[r].state = s)
      BY <1>3, <1>4, <1>5 DEF InHand
    <2>2. QED
      BY <1>1, <1>5, <2>1
  <1>6. CASE flows[s] # None /\ HasCode(s)
    <2>1. Cardinality(CodesOf(s)) = 1 /\ oauth_states[s] = None
          /\ ~ (\E r \in Request : req[r].state = s)
      BY <1>2, <1>6 DEF InHand
    <2>2. QED
      BY <1>1, <1>6, <2>1
  <1>7. CASE flows[s] # None /\ ~ HasCode(s)
    <2>1. Cardinality(CodesOf(s)) = 0
      BY <1>3, <1>7
    <2>2. QED
      BY <1>1, <1>7, <2>1 DEF InHand
  <1>8. QED
    BY <1>5, <1>6, <1>7

LEMMA StatusOfStateNext == Inv' => StateTold'
  BY StatusOfState, PTL

\* A step that changes the status of one state, or of none.
LEMMA StateMoves ==
    ASSUME NEW s \in State, \A t \in State \ {s} : StateStatus'[t] = StateStatus[t]
    PROVE  StateStatus' = [StateStatus EXCEPT ![s] = StateStatus'[s]]
  <1>1. StateStatus = [t \in State |-> StateStatus[t]]
    BY DEF StateStatus
  <1>2. StateStatus' = [t \in State |-> StateStatus'[t]]
    BY DEF StateStatus
  <1>3. QED
    BY <1>1, <1>2

LEMMA StatesStutter ==
    ASSUME \A t \in State : StateStatus'[t] = StateStatus[t]
    PROVE  StateStatus' = StateStatus
  <1>1. StateStatus = [t \in State |-> StateStatus[t]]
    BY DEF StateStatus
  <1>2. StateStatus' = [t \in State |-> StateStatus'[t]]
    BY DEF StateStatus
  <1>3. QED
    BY <1>1, <1>2

\* A state whose rows and holder stay has the status it had.
LEMMA StatusStays ==
    ASSUME Inv, Inv', NEW s \in State,
           flows'[s] = flows[s], HasCode(s)' = HasCode(s),
           oauth_states'[s] = oauth_states[s], InHand(s)' = InHand(s)
    PROVE  StateStatus'[s] = StateStatus[s]
  <1>1. StateTold /\ StateTold'
    BY StatusOfState, StatusOfStateNext
  <1>2. QED
    BY <1>1 DEF StateTold

\* The actions of one request keep its state and its code, or let go of them.
LEMMA KeepsOrLetsGo ==
    ASSUME Inv, NEW r \in Request,
           \/ GoogleExchange(r) \/ FindAccount(r) \/ FindEmail(r) \/ CreateOAuthAccount(r)
           \/ CreateUser(r) \/ ExchangeUser(r) \/ ExchangeCommit(r) \/ Fail(r)
    PROVE  /\ \A q \in Request \ {r} : req'[q] = req[q]
           /\ \/ req'[r].state = None /\ req'[r].code = None
              \/ req'[r].state = req[r].state /\ req'[r].code = req[r].code
           /\ UNCHANGED <<oauth_states, auth_exchange_codes, flows, grants>>
           /\ ExchangeCommit(r) \/ UNCHANGED opened
  <1>1. ASSUME NEW verdict, Answer(r, verdict)
        PROVE  /\ \A q \in Request \ {r} : req'[q] = req[q]
               /\ req'[r].state = None /\ req'[r].code = None
    BY <1>1 DEF Answer, Slot, Inv, TypeOK
  <1>2. ASSUME NEW label, Goto(r, label)
        PROVE  /\ \A q \in Request \ {r} : req'[q] = req[q]
               /\ req'[r].state = req[r].state /\ req'[r].code = req[r].code
    BY <1>2 DEF Goto, Inv, TypeOK, RequestState
  <1>3. CASE GoogleExchange(r)
    <2>1. ASSUME NEW i, NEW e, NEW v,
                 req' = [req EXCEPT ![r].pc = "account", ![r].sub = i,
                                    ![r].email = e, ![r].vouched = v]
          PROVE  /\ \A q \in Request \ {r} : req'[q] = req[q]
                 /\ req'[r].state = req[r].state /\ req'[r].code = req[r].code
      BY <2>1 DEF Inv, TypeOK, RequestState
    <2>2. QED
      BY <1>1, <1>3, <2>1 DEF GoogleExchange, tables, history
  <1>4. CASE FindAccount(r)
    <2>1. ASSUME NEW u, req' = [req EXCEPT ![r].pc = "mint", ![r].user = u]
          PROVE  /\ \A q \in Request \ {r} : req'[q] = req[q]
                 /\ req'[r].state = req[r].state /\ req'[r].code = req[r].code
      BY <2>1 DEF Inv, TypeOK, RequestState
    <2>2. QED
      BY <1>1, <1>2, <1>4, <2>1 DEF FindAccount, tables, history
  <1>5. CASE FindEmail(r)
    <2>1. ASSUME NEW u, req' = [req EXCEPT ![r].pc = "link", ![r].user = u]
          PROVE  /\ \A q \in Request \ {r} : req'[q] = req[q]
                 /\ req'[r].state = req[r].state /\ req'[r].code = req[r].code
      BY <2>1 DEF Inv, TypeOK, RequestState
    <2>2. QED
      BY <1>1, <1>2, <1>5, <2>1 DEF FindEmail, tables, history
  <1>6. CASE CreateOAuthAccount(r)
    BY <1>1, <1>6 DEF CreateOAuthAccount, tables, history, Inv, TypeOK, RequestState
  <1>7. CASE CreateUser(r)
    BY <1>1, <1>7 DEF CreateUser, tables, history, Inv, TypeOK, RequestState
  <1>8. CASE ExchangeUser(r)
    BY <1>1, <1>2, <1>8 DEF ExchangeUser, tables, history
  <1>9. CASE ExchangeCommit(r)
    BY <1>1, <1>9 DEF ExchangeCommit, tables
  <1>10. CASE Fail(r)
    BY <1>1, <1>10 DEF Fail, tables, history
  <1>11. QED
    BY <1>3, <1>4, <1>5, <1>6, <1>7, <1>8, <1>9, <1>10

LEMMA CodeTaker ==
    ASSUME Inv, NEW r \in Request, NEW c \in AuthCode, NEW p \in Project,
           TakeAuthExchangeCode(r, c, p)
    PROVE  /\ \A q \in Request \ {r} : req'[q] = req[q]
           /\ req[r].state = None /\ req[r].code = None /\ req'[r].state = None
           /\ req'[r].code = IF Takable(auth_exchange_codes[c], p) THEN c ELSE None
           /\ UNCHANGED <<oauth_states, flows, grants, opened>>
  <1> DEFINE x == [Slot("user") EXCEPT !.code = c, !.project = p, !.shunned = banned,
                                       !.user = auth_exchange_codes[c].user_id]
  <1>1. /\ x.state = None /\ x.code = c
        /\ Slot("idle").state = None /\ Slot("idle").code = None
    BY DEF Slot
  <1>2. req' = [req EXCEPT ![r] = IF Takable(auth_exchange_codes[c], p) THEN x
                                                                      ELSE Slot("idle")]
    BY DEF TakeAuthExchangeCode, Answer
  <1>3. req[r].state = None /\ req[r].code = None
    BY DEF TakeAuthExchangeCode, Idle, At, Inv, RequestsSound, Sound, FlowSound,
           ExchangeSound, Callback, Waiting
  <1>4. UNCHANGED <<oauth_states, flows, grants, opened>>
    BY DEF TakeAuthExchangeCode, history
  <1> HIDE DEF x
  <1>5. QED
    BY <1>1, <1>2, <1>3, <1>4 DEF Inv, TypeOK

\* A request that lets go of its state loses it; one that keeps it changes nothing.
LEMMA Release ==
    ASSUME Inv, Inv', NEW r \in Request,
           UNCHANGED <<oauth_states, flows, grants>>,
           \A q \in Request \ {r} : req'[q].state = req[q].state,
           req'[r].state = None \/ req'[r].state = req[r].state
    PROVE  [States!Next]_StateStatus
  <1>1. \A s \in State : HasCode(s)' = HasCode(s)
    BY DEF HasCode
  <1>2. CASE req'[r].state = req[r].state
    <2>1. \A s \in State : InHand(s)' = InHand(s)
      BY <1>2 DEF InHand
    <2>2. QED
      BY <1>1, <2>1, StatusStays, StatesStutter
  <1>3. CASE req'[r].state = None /\ req[r].state # None
    <2> PICK s \in State : s = req[r].state
      BY <1>3, RequestTyped DEF Inv
    <2>1. flows[s] # None /\ ~ HasCode(s) /\ oauth_states[s] = None
      BY <1>3, NoneIsNothing DEF Inv, RequestsSound, Sound, FlowSound, HasCode, CodesOf
    <2>2. \A q \in Request \ {r} : req[q].state # s
      BY <1>3 DEF Inv, RequestsApart, Apart
    <2>3. InHand(s) /\ ~ InHand(s)'
      BY <1>3, <2>2 DEF InHand
    <2>4. \A t \in State \ {s} : InHand(t)' = InHand(t)
      BY <1>3, NoneIsNothing DEF InHand
    <2>5. \A t \in State \ {s} : StateStatus'[t] = StateStatus[t]
      BY <1>1, <2>4, StatusStays
    <2>6. StateStatus[s] = "taken" /\ StateStatus'[s] = "lost"
      <3>1. StateTold /\ StateTold'
        BY StatusOfState, StatusOfStateNext
      <3>2. flows'[s] # None /\ ~ HasCode(s)' /\ oauth_states'[s] = None
        BY <1>1, <2>1
      <3>3. QED
        BY <2>1, <2>3, <3>1, <3>2 DEF StateTold
    <2>7. States!Lose(s)
      BY <2>1, <2>5, <2>6, StateMoves DEF States!Lose, States!Moves
    <2>8. QED
      BY <2>1, <2>7 DEF States!Next
  <1>4. QED
    BY <1>2, <1>3

LEMMA StatesStep ==
    ASSUME Inv, Inv', [Next]_vars
    PROVE  [States!Next]_StateStatus
  <1>t. StateTold /\ StateTold'
    BY StatusOfState, StatusOfStateNext
  <1>n. None \notin StateRow \union Project \union State \union Grant
    BY NoneIsNothing
  <1>1. CASE \E r \in Request, s \in State : TakeOAuthState(r, s)
    <2> PICK r \in Request, s \in State : TakeOAuthState(r, s)
      BY <1>1
    <2>1. /\ UNCHANGED <<flows, grants>>
          /\ oauth_states' = [oauth_states EXCEPT ![s] = None]
          /\ req[r].pc = "idle"
      BY DEF TakeOAuthState, Taken, history, Idle, At
    <2>2. /\ oauth_states'[s] = None
          /\ \A t \in State \ {s} : oauth_states'[t] = oauth_states[t]
      BY <2>1 DEF Inv, TypeOK
    <2>3. /\ \A q \in Request \ {r} : req'[q] = req[q]
          /\ \/ req'[r].state = None /\ (oauth_states[s] = None \/ oauth_states[s].expired)
             \/ /\ req'[r].state = s
                /\ oauth_states[s] # None /\ ~ oauth_states[s].expired
      <3> DEFINE x == [Slot("google") EXCEPT !.state = s, !.project = oauth_states[s].project]
      <3>1. x.state = s /\ Slot("idle").state = None
        BY DEF Slot
      <3>2. \/ /\ req' = [req EXCEPT ![r] = Slot("idle")]
               /\ oauth_states[s] = None \/ oauth_states[s].expired
            \/ /\ req' = [req EXCEPT ![r] = x]
               /\ oauth_states[s] # None /\ ~ oauth_states[s].expired
        BY DEF TakeOAuthState, Answer
      <3> HIDE DEF x
      <3>3. QED
        BY <3>1, <3>2 DEF Inv, TypeOK
    <2>4. req[r].state = None
      BY <2>1 DEF Inv, RequestsSound, Sound, FlowSound, Callback, Waiting
    <2>5. \A t \in State : HasCode(t)' = HasCode(t)
      BY <2>1 DEF HasCode
    <2>6. \A t \in State \ {s} : InHand(t)' = InHand(t)
      BY <1>n, <2>3, <2>4 DEF InHand
    <2>7. \A t \in State \ {s} : StateStatus'[t] = StateStatus[t]
      BY <2>1, <2>2, <2>5, <2>6, StatusStays
    <2>8. CASE oauth_states[s] = None
      <3>1. InHand(s)' = InHand(s)
        BY <1>n, <2>3, <2>4, <2>8 DEF InHand
      <3>2. StateStatus'[s] = StateStatus[s]
        BY <2>1, <2>2, <2>5, <2>8, <3>1, StatusStays
      <3>3. QED
        BY <2>7, <3>2, StatesStutter
    <2>9. CASE oauth_states[s] # None
      <3>1. flows[s] # None /\ ~ HasCode(s) /\ ~ InHand(s)
        <4>1. flows[s] # None /\ ~ HasCode(s)
          BY <1>n, <2>9, StateTyped DEF Inv, GrantsSound, HasCode, CodesOf
        <4>2. ~ InHand(s)
          BY <1>n, <2>9 DEF InHand, Inv, RequestsSound, Sound, FlowSound
        <4>3. QED
          BY <4>1, <4>2
      <3>2. flows'[s] # None /\ ~ HasCode(s)'
        BY <2>1, <2>5, <3>1
      <3>3. CASE oauth_states[s].expired
        <4>1. ~ InHand(s)'
          BY <1>n, <2>3, <3>1, <3>3 DEF InHand
        <4>2. StateStatus[s] = "lost" /\ StateStatus'[s] = "lost"
          BY <1>t, <2>2, <2>9, <3>1, <3>2, <3>3, <4>1 DEF StateTold
        <4>3. QED
          BY <2>7, <4>2, StatesStutter
      <3>4. CASE ~ oauth_states[s].expired
        <4>1. InHand(s)'
          BY <2>3, <2>9, <3>4 DEF InHand
        <4>2. StateStatus[s] = "live" /\ StateStatus'[s] = "taken"
          BY <1>t, <2>2, <2>9, <3>1, <3>2, <3>4, <4>1 DEF StateTold
        <4>3. QED
          BY <2>7, <4>2, StateMoves DEF States!Next, States!Take, States!Moves
      <3>5. QED
        BY <3>3, <3>4
    <2>10. QED
      BY <2>8, <2>9
  <1>2. CASE \E r \in Request, c \in AuthCode, p \in Project : TakeAuthExchangeCode(r, c, p)
    <2> PICK r \in Request, c \in AuthCode, p \in Project : TakeAuthExchangeCode(r, c, p)
      BY <1>2
    <2>1. /\ UNCHANGED <<oauth_states, flows, grants>>
          /\ \A q \in Request \ {r} : req'[q] = req[q]
          /\ req'[r].state = None
      BY CodeTaker
    <2>2. QED
      BY <2>1, Release
  <1>3. CASE \E r \in Request :
                \/ GoogleExchange(r) \/ FindAccount(r) \/ FindEmail(r)
                \/ CreateOAuthAccount(r) \/ CreateUser(r) \/ ExchangeUser(r)
                \/ ExchangeCommit(r) \/ Fail(r)
    BY <1>3, KeepsOrLetsGo, Release
  <1>4. CASE \E r \in Request, c \in AuthCode, u \in User : CallbackCommit(r, c, u)
    <2> PICK r \in Request, c \in AuthCode, u \in User : CallbackCommit(r, c, u)
      BY <1>4
    <2> PICK s \in State : s = req[r].state
      BY CommitFacts DEF Sound, FlowSound, Callback, Waiting
    <2>1. /\ req[r].pc = "mint" /\ Sound(req[r])
          /\ grants[c] = None /\ grants'[c] \in Grant /\ grants'[c].state = s
          /\ \A d \in AuthCode \ {c} : grants'[d] = grants[d]
          /\ req'[r] = Slot("idle") /\ \A q \in Request \ {r} : req'[q] = req[q]
          /\ UNCHANGED <<oauth_states, flows>>
      BY CommitFacts
    <2>2. flows[s] # None /\ ~ HasCode(s) /\ oauth_states[s] = None
      BY <1>n, <2>1 DEF Sound, FlowSound, Callback, Waiting, HasCode, CodesOf
    <2>3. InHand(s) /\ HasCode(s)'
      <3>1. grants'[c] # None
        BY <1>n, <2>1
      <3>2. QED
        BY <2>1, <3>1 DEF InHand, HasCode
    <2>4. req'[r].state = None
      BY <2>1 DEF Slot
    <2>5. \A t \in State \ {s} : HasCode(t)' = HasCode(t) /\ InHand(t)' = InHand(t)
      <3> SUFFICES ASSUME NEW t \in State \ {s}
                   PROVE  HasCode(t)' = HasCode(t) /\ InHand(t)' = InHand(t)
        OBVIOUS
      <3>1. HasCode(t)' = HasCode(t)
        BY <2>1 DEF HasCode
      <3>2. InHand(t)' = InHand(t)
        BY <1>n, <2>1, <2>4 DEF InHand
      <3>3. QED
        BY <3>1, <3>2
    <2>6. \A t \in State \ {s} : StateStatus'[t] = StateStatus[t]
      BY <2>1, <2>5, StatusStays
    <2>7. StateStatus[s] = "taken" /\ StateStatus'[s] = "used"
      <3>1. flows'[s] # None
        BY <2>1, <2>2
      <3>2. QED
        BY <1>t, <2>2, <2>3, <3>1 DEF StateTold
    <2>8. QED
      BY <2>2, <2>6, <2>7, StateMoves DEF States!Next, States!Use, States!Moves
  <1>5. CASE \E p \in Project, s \in State : StartGoogleOAuth(p, s)
    <2> PICK p \in Project, s \in State : StartGoogleOAuth(p, s)
      BY <1>5
    <2> DEFINE row == [project |-> p, expired |-> FALSE]
    <2>1. /\ flows[s] = None /\ UNCHANGED <<grants, req>>
          /\ oauth_states' = [oauth_states EXCEPT ![s] = row]
          /\ flows' = [flows EXCEPT ![s] = p]
      BY DEF StartGoogleOAuth
    <2>2. row \in StateRow /\ ~ row.expired
      BY DEF StateRow
    <2> HIDE DEF row
    <2>3. /\ oauth_states'[s] = row /\ flows'[s] = p
          /\ \A t \in State \ {s} : oauth_states'[t] = oauth_states[t] /\ flows'[t] = flows[t]
      BY <2>1 DEF Inv, TypeOK
    <2>4. \A t \in State : HasCode(t)' = HasCode(t) /\ InHand(t)' = InHand(t)
      BY <2>1 DEF HasCode, InHand
    <2>5. \A t \in State \ {s} : StateStatus'[t] = StateStatus[t]
      BY <2>3, <2>4, StatusStays
    <2>6. StateStatus[s] = "unissued"
      BY <1>t, <2>1 DEF StateTold
    <2>7. ~ HasCode(s)
      BY <1>n, <2>1, CodeTyped DEF HasCode, Inv, GrantsSound, CodesFollowTheFlow
    <2>8. StateStatus'[s] = "live"
      <3>1. flows'[s] # None /\ oauth_states'[s] # None /\ ~ oauth_states'[s].expired
            /\ ~ HasCode(s)'
        BY <1>n, <2>2, <2>3, <2>4, <2>7
      <3>2. QED
        BY <1>t, <3>1 DEF StateTold
    <2>9. QED
      BY <2>5, <2>6, <2>8, StateMoves DEF States!Next, States!Issue, States!Moves
  <1>6. CASE \E s \in State : ExpireState(s)
    <2> PICK s \in State : ExpireState(s)
      BY <1>6
    <2> DEFINE row == [oauth_states[s] EXCEPT !.expired = TRUE]
    <2>1. /\ oauth_states[s] # None /\ ~ oauth_states[s].expired
          /\ UNCHANGED <<flows, grants, req>>
          /\ oauth_states' = [oauth_states EXCEPT ![s] = row]
      BY DEF ExpireState, history
    <2>2. row \in StateRow /\ row.expired
      BY <2>1, StateTyped DEF StateRow, Inv
    <2> HIDE DEF row
    <2>3. /\ oauth_states'[s] = row
          /\ \A t \in State \ {s} : oauth_states'[t] = oauth_states[t]
      BY <2>1 DEF Inv, TypeOK
    <2>4. \A t \in State : HasCode(t)' = HasCode(t) /\ InHand(t)' = InHand(t)
      BY <2>1 DEF HasCode, InHand
    <2>5. \A t \in State \ {s} : StateStatus'[t] = StateStatus[t]
      BY <2>1, <2>3, <2>4, StatusStays
    <2>6. flows[s] # None /\ ~ HasCode(s)
      BY <1>n, <2>1, StateTyped DEF Inv, GrantsSound, HasCode, CodesOf
    <2>7. StateStatus[s] = "live"
      BY <1>t, <2>1, <2>6 DEF StateTold
    <2>8. StateStatus'[s] = "lost"
      <3>1. flows'[s] # None /\ oauth_states'[s] # None /\ oauth_states'[s].expired
            /\ ~ HasCode(s)'
        BY <1>n, <2>1, <2>2, <2>3, <2>4, <2>6
      <3>2. QED
        BY <1>t, <3>1 DEF StateTold
    <2>9. QED
      BY <2>5, <2>7, <2>8, StateMoves DEF States!Next, States!Lose, States!Moves
  <1>7. CASE \/ \E c \in AuthCode : ExpireCode(c)
             \/ \E u \in User, p \in Project, e \in Email, verified \in BOOLEAN :
                  RegisterElsewhere(u, p, e, verified)
             \/ \E u \in User, flag \in BOOLEAN : SetUserBanned(u, flag)
             \/ UNCHANGED vars
    <2>1. /\ UNCHANGED <<oauth_states, flows, grants>>
          /\ \A q \in Request : req'[q].state = req[q].state
      BY <1>7 DEF ExpireCode, RegisterElsewhere, SetUserBanned, vars, tables, history,
                  Inv, TypeOK, RequestState
    <2>2. \A t \in State : HasCode(t)' = HasCode(t) /\ InHand(t)' = InHand(t)
      BY <2>1 DEF HasCode, InHand
    <2>3. QED
      BY <2>1, <2>2, StatusStays, StatesStutter
  <1>8. QED
    BY <1>1, <1>2, <1>3, <1>4, <1>5, <1>6, <1>7 DEF Next, Arrive, Proceed, Environment

\* A state of StartGoogleOAuth is a grant for one use: one callback takes it, and
\* at most one code comes of it.
THEOREM StatesImplementOneTimeGrants == Spec => StatesAreOneTimeGrants
  <1>1. Init => States!Init
    <2> SUFFICES ASSUME Init PROVE States!Init
      OBVIOUS
    <2>1. \A s \in State : flows[s] = None
      BY DEF Init
    <2>2. StateTold
      BY InitInv, StatusOfState
    <2>3. \A s \in State : StateStatus[s] = "unissued"
      BY <2>1, <2>2 DEF StateTold
    <2>4. StateStatus = [s \in State |-> StateStatus[s]]
      BY DEF StateStatus
    <2>5. QED
      BY <2>3, <2>4 DEF States!Init
  <1>2. Inv /\ Inv' /\ [Next]_vars => [States!Next]_StateStatus
    BY StatesStep
  <1>3. QED
    BY <1>1, <1>2, Invariance, PTL DEF Spec, States!Spec, StatesAreOneTimeGrants

-----------------------------------------------------------------------------
\* The same of auth codes.

InExchange(c) == \E r \in Request : req[r].code = c

CodeTold ==
    \A c \in AuthCode :
      CodeStatus[c] =
        IF auth_exchange_codes[c] = None THEN "unissued"
        ELSE IF opened[c] = 1 THEN "used"
        ELSE IF ~ auth_exchange_codes[c].consumed
               THEN IF auth_exchange_codes[c].expired THEN "lost" ELSE "live"
        ELSE IF InExchange(c) THEN "taken" ELSE "lost"

LEMMA StatusOfCode == Inv => CodeTold
  <1> SUFFICES ASSUME Inv, NEW c \in AuthCode
               PROVE  CodeStatus[c] =
                        IF auth_exchange_codes[c] = None THEN "unissued"
                        ELSE IF opened[c] = 1 THEN "used"
                        ELSE IF ~ auth_exchange_codes[c].consumed
                               THEN IF auth_exchange_codes[c].expired THEN "lost" ELSE "live"
                        ELSE IF InExchange(c) THEN "taken" ELSE "lost"
    BY DEF CodeTold
  <1>1. CodeStatus[c] =
          CASE auth_exchange_codes[c] = None -> "unissued"
            [] opened[c] = 1 -> "used"
            [] opened[c] > 1 -> "overused"
            [] /\ auth_exchange_codes[c] # None
               /\ ~ auth_exchange_codes[c].consumed
               /\ ~ auth_exchange_codes[c].expired -> "live"
            [] auth_exchange_codes[c].consumed /\ (\E r \in Request : req[r].code = c) -> "taken"
            [] OTHER -> "lost"
    BY DEF CodeStatus
  <1>2. IF auth_exchange_codes[c] = None
          THEN opened[c] = 0
          ELSE /\ opened[c] \in {0, 1}
               /\ opened[c] = 1 => auth_exchange_codes[c].consumed
    BY DEF Inv, GrantsSound
  <1>3. opened[c] = 1 => ~ InExchange(c)
    BY NoneIsNothing DEF InExchange, Inv, RequestsSound, Sound, ExchangeSound
  <1>4. CASE auth_exchange_codes[c] = None
    <2>1. opened[c] = 0 /\ ~ InExchange(c)
      BY <1>2, <1>4, NoneIsNothing DEF InExchange, Inv, RequestsSound, Sound, ExchangeSound
    <2>2. QED
      BY <1>1, <1>4, <2>1 DEF InExchange
  <1>5. CASE auth_exchange_codes[c] # None /\ opened[c] = 1
    BY <1>1, <1>2, <1>3, <1>5 DEF InExchange
  <1>6. CASE auth_exchange_codes[c] # None /\ opened[c] = 0
    BY <1>1, <1>6 DEF InExchange
  <1>7. QED
    BY <1>2, <1>4, <1>5, <1>6

LEMMA StatusOfCodeNext == Inv' => CodeTold'
  BY StatusOfCode, PTL

LEMMA CodeMoves ==
    ASSUME NEW c \in AuthCode, \A d \in AuthCode \ {c} : CodeStatus'[d] = CodeStatus[d]
    PROVE  CodeStatus' = [CodeStatus EXCEPT ![c] = CodeStatus'[c]]
  <1>1. CodeStatus = [d \in AuthCode |-> CodeStatus[d]]
    BY DEF CodeStatus
  <1>2. CodeStatus' = [d \in AuthCode |-> CodeStatus'[d]]
    BY DEF CodeStatus
  <1>3. QED
    BY <1>1, <1>2

LEMMA CodesStutter ==
    ASSUME \A d \in AuthCode : CodeStatus'[d] = CodeStatus[d]
    PROVE  CodeStatus' = CodeStatus
  <1>1. CodeStatus = [d \in AuthCode |-> CodeStatus[d]]
    BY DEF CodeStatus
  <1>2. CodeStatus' = [d \in AuthCode |-> CodeStatus'[d]]
    BY DEF CodeStatus
  <1>3. QED
    BY <1>1, <1>2

\* A code whose row, count and holder stay has the status it had.
LEMMA CodeStays ==
    ASSUME Inv, Inv', NEW c \in AuthCode,
           auth_exchange_codes'[c] = auth_exchange_codes[c], opened'[c] = opened[c],
           InExchange(c)' = InExchange(c)
    PROVE  CodeStatus'[c] = CodeStatus[c]
  <1>1. CodeTold /\ CodeTold'
    BY StatusOfCode, StatusOfCodeNext
  <1>2. QED
    BY <1>1 DEF CodeTold

LEMMA CodesStep ==
    ASSUME Inv, Inv', [Next]_vars
    PROVE  [Codes!Next]_CodeStatus
  <1>t. CodeTold /\ CodeTold'
    BY StatusOfCode, StatusOfCodeNext
  <1>n. None \notin AuthCode \union CodeRow
    BY NoneIsNothing
  <1>1. CASE \E r \in Request, s \in State : TakeOAuthState(r, s)
    <2> PICK r \in Request, s \in State : TakeOAuthState(r, s)
      BY <1>1
    <2>1. req[r].code = None /\ UNCHANGED <<auth_exchange_codes, opened>>
      BY DEF TakeOAuthState, Idle, At, Inv, RequestsSound, Sound, ExchangeSound, history
    <2>2. req'[r].code = None /\ \A q \in Request \ {r} : req'[q] = req[q]
      <3> DEFINE x == [Slot("google") EXCEPT !.state = s, !.project = oauth_states[s].project]
      <3>1. x.code = None /\ Slot("idle").code = None
        BY DEF Slot
      <3>2. req' = [req EXCEPT ![r] = Slot("idle")] \/ req' = [req EXCEPT ![r] = x]
        BY DEF TakeOAuthState, Answer
      <3> HIDE DEF x
      <3>3. QED
        BY <3>1, <3>2 DEF Inv, TypeOK
    <2>3. \A c \in AuthCode : InExchange(c)' = InExchange(c)
      BY <2>1, <2>2 DEF InExchange
    <2>4. QED
      BY <2>1, <2>3, CodeStays, CodesStutter
  <1>2. CASE \E r \in Request, c \in AuthCode, p \in Project : TakeAuthExchangeCode(r, c, p)
    <2> PICK r \in Request, c \in AuthCode, p \in Project : TakeAuthExchangeCode(r, c, p)
      BY <1>2
    <2> DEFINE old == auth_exchange_codes[c]
    <2>1. /\ \A q \in Request \ {r} : req'[q] = req[q]
          /\ req[r].code = None
          /\ req'[r].code = IF Takable(old, p) THEN c ELSE None
          /\ opened' = opened /\ old # None
      BY CodeTaker DEF TakeAuthExchangeCode
    <2>2. \A d \in AuthCode \ {c} : InExchange(d)' = InExchange(d)
      BY <1>n, <2>1 DEF InExchange
    <2>3. CASE ~ Takable(old, p)
      <3>1. auth_exchange_codes' = auth_exchange_codes
        BY <2>3 DEF TakeAuthExchangeCode
      <3>2. InExchange(c)' = InExchange(c)
        BY <2>1, <2>3 DEF InExchange
      <3>3. QED
        BY <2>1, <2>2, <3>1, <3>2, CodeStays, CodesStutter
    <2>4. CASE Takable(old, p)
      <3>1. /\ ~ old.consumed /\ ~ old.expired
            /\ auth_exchange_codes' = [auth_exchange_codes EXCEPT ![c].consumed = TRUE]
        BY <2>4 DEF TakeAuthExchangeCode, Takable
      <3>2. old \in CodeRow
        BY <2>1, CodeTyped DEF Inv
      <3>3. /\ auth_exchange_codes'[c] # None /\ auth_exchange_codes'[c].consumed
            /\ \A d \in AuthCode \ {c} : auth_exchange_codes'[d] = auth_exchange_codes[d]
        <4> DEFINE row == [old EXCEPT !.consumed = TRUE]
        <4>1. row \in CodeRow /\ row.consumed
          BY <3>2 DEF CodeRow
        <4>2. auth_exchange_codes' = [auth_exchange_codes EXCEPT ![c] = row]
          BY <3>1
        <4> HIDE DEF row
        <4>3. QED
          BY <1>n, <4>1, <4>2 DEF Inv, TypeOK
      <3>4. InExchange(c)'
        BY <2>1, <2>4 DEF InExchange
      <3>5. opened[c] = 0 /\ opened'[c] # 1
        BY <2>1, <3>1 DEF Inv, GrantsSound
      <3>6. CodeStatus[c] = "live" /\ CodeStatus'[c] = "taken"
        BY <1>t, <2>1, <3>1, <3>3, <3>4, <3>5 DEF CodeTold
      <3>7. \A d \in AuthCode \ {c} : CodeStatus'[d] = CodeStatus[d]
        BY <2>1, <2>2, <3>3, CodeStays
      <3>8. QED
        BY <3>6, <3>7, CodeMoves DEF Codes!Next, Codes!Take, Codes!Moves
    <2>5. QED
      BY <2>3, <2>4
  <1>3. CASE \E r \in Request :
                \/ GoogleExchange(r) \/ FindAccount(r) \/ FindEmail(r)
                \/ CreateOAuthAccount(r) \/ CreateUser(r) \/ ExchangeUser(r)
                \/ ExchangeCommit(r) \/ Fail(r)
    <2> PICK r \in Request :
                \/ GoogleExchange(r) \/ FindAccount(r) \/ FindEmail(r)
                \/ CreateOAuthAccount(r) \/ CreateUser(r) \/ ExchangeUser(r)
                \/ ExchangeCommit(r) \/ Fail(r)
      BY <1>3
    <2>1. /\ \A q \in Request \ {r} : req'[q] = req[q]
          /\ req'[r].code = None \/ req'[r].code = req[r].code
          /\ auth_exchange_codes' = auth_exchange_codes
          /\ ExchangeCommit(r) \/ opened' = opened
      BY KeepsOrLetsGo
    <2>2. CASE ~ ExchangeCommit(r) /\ req'[r].code = req[r].code
      <3>1. \A c \in AuthCode : InExchange(c)' = InExchange(c)
        BY <2>1, <2>2 DEF InExchange
      <3>2. QED
        BY <2>1, <2>2, <3>1, CodeStays, CodesStutter
    <2>3. CASE req[r].code # None /\ (ExchangeCommit(r) \/ req'[r].code = None)
      <3> PICK c \in AuthCode : c = req[r].code
        BY <2>3, RequestTyped DEF Inv
      <3>1. /\ auth_exchange_codes[c] # None /\ auth_exchange_codes[c].consumed
            /\ opened[c] = 0
        BY <2>3 DEF Inv, RequestsSound, Sound, ExchangeSound
      <3>2. req'[r].code = None
        BY <2>3 DEF ExchangeCommit, Answer, Slot, Inv, TypeOK
      <3>3. \A q \in Request \ {r} : req[q].code # c
        BY <2>3 DEF Inv, RequestsApart, Apart
      <3>4. InExchange(c) /\ ~ InExchange(c)'
        BY <1>n, <2>1, <3>2, <3>3 DEF InExchange
      <3>5. \A d \in AuthCode \ {c} : InExchange(d)' = InExchange(d)
        BY <1>n, <2>1, <3>2 DEF InExchange
      <3>6. CodeStatus[c] = "taken"
        BY <1>t, <3>1, <3>4 DEF CodeTold
      <3>7. CASE ExchangeCommit(r)
        <4>1. opened' = [opened EXCEPT ![c] = opened[c] + 1]
          BY <3>7 DEF ExchangeCommit
        <4>2. opened'[c] = 1 /\ \A d \in AuthCode \ {c} : opened'[d] = opened[d]
          BY <3>1, <4>1 DEF Inv, TypeOK
        <4>3. CodeStatus'[c] = "used"
          <5>1. auth_exchange_codes'[c] # None
            BY <2>1, <3>1
          <5>2. QED
            BY <1>t, <4>2, <5>1 DEF CodeTold
        <4>4. \A d \in AuthCode \ {c} : CodeStatus'[d] = CodeStatus[d]
          BY <2>1, <3>5, <4>2, CodeStays
        <4>5. QED
          BY <3>6, <4>3, <4>4, CodeMoves DEF Codes!Next, Codes!Use, Codes!Moves
      <3>8. CASE ~ ExchangeCommit(r)
        <4>1. CodeStatus'[c] = "lost"
          <5>1. auth_exchange_codes'[c] # None /\ auth_exchange_codes'[c].consumed
                /\ opened'[c] # 1
            BY <2>1, <3>1, <3>8
          <5>2. QED
            BY <1>t, <3>4, <5>1 DEF CodeTold
        <4>2. \A d \in AuthCode \ {c} : CodeStatus'[d] = CodeStatus[d]
          BY <2>1, <3>5, <3>8, CodeStays
        <4>3. QED
          BY <3>6, <4>1, <4>2, CodeMoves DEF Codes!Next, Codes!Lose, Codes!Moves
      <3>9. QED
        BY <3>7, <3>8
    <2>4. CASE req[r].code = None
      <3>1. ~ ExchangeCommit(r)
        BY <1>n, <2>4 DEF ExchangeCommit, At, Inv, RequestsSound, Sound, ExchangeSound
      <3>2. QED
        BY <2>1, <2>2, <2>4, <3>1
    <2>5. QED
      BY <2>1, <2>2, <2>3, <2>4
  <1>4. CASE \E r \in Request, c \in AuthCode, u \in User : CallbackCommit(r, c, u)
    <2> PICK r \in Request, c \in AuthCode, u \in User : CallbackCommit(r, c, u)
      BY <1>4
    <2>1. /\ req[r].pc = "mint" /\ Sound(req[r])
          /\ auth_exchange_codes[c] = None
          /\ auth_exchange_codes'[c] \in CodeRow
          /\ \A d \in AuthCode \ {c} : auth_exchange_codes'[d] = auth_exchange_codes[d]
          /\ req'[r] = Slot("idle") /\ \A q \in Request \ {r} : req'[q] = req[q]
          /\ opened' = opened
      BY CommitFacts
    <2>2. auth_exchange_codes'[c] = NewCode(r, u)
      BY DEF CallbackCommit, Inv, TypeOK
    <2>3. ~ auth_exchange_codes'[c].consumed /\ ~ auth_exchange_codes'[c].expired
      BY <2>2 DEF NewCode
    <2>4. req[r].code = None /\ req'[r].code = None
      BY <2>1 DEF Sound, ExchangeSound, Slot
    <2>5. \A d \in AuthCode : InExchange(d)' = InExchange(d)
      BY <2>1, <2>4 DEF InExchange
    <2>6. \A d \in AuthCode \ {c} : CodeStatus'[d] = CodeStatus[d]
      BY <2>1, <2>5, CodeStays
    <2>7. opened[c] = 0
      BY <2>1 DEF Inv, GrantsSound
    <2>8. CodeStatus[c] = "unissued" /\ CodeStatus'[c] = "live"
      <3>1. auth_exchange_codes'[c] # None /\ opened'[c] # 1
        BY <1>n, <2>1, <2>7
      <3>2. QED
        BY <1>t, <2>1, <2>3, <3>1 DEF CodeTold
    <2>9. QED
      BY <2>6, <2>8, CodeMoves DEF Codes!Next, Codes!Issue, Codes!Moves
  <1>5. CASE \E c \in AuthCode : ExpireCode(c)
    <2> PICK c \in AuthCode : ExpireCode(c)
      BY <1>5
    <2> DEFINE old == auth_exchange_codes[c]
               row == [old EXCEPT !.expired = TRUE]
    <2>1. /\ old # None /\ ~ old.expired /\ UNCHANGED <<opened, req>>
          /\ auth_exchange_codes' = [auth_exchange_codes EXCEPT ![c] = row]
      BY DEF ExpireCode, history
    <2>2. row \in CodeRow /\ row.expired /\ row.consumed = old.consumed
      BY <2>1, CodeTyped DEF CodeRow, Inv
    <2> HIDE DEF row
    <2>3. /\ auth_exchange_codes'[c] = row /\ row # None
          /\ \A d \in AuthCode \ {c} : auth_exchange_codes'[d] = auth_exchange_codes[d]
      BY <1>n, <2>1, <2>2 DEF Inv, TypeOK
    <2>4. \A d \in AuthCode : InExchange(d)' = InExchange(d)
      BY <2>1 DEF InExchange
    <2>5. \A d \in AuthCode \ {c} : CodeStatus'[d] = CodeStatus[d]
      BY <2>1, <2>3, <2>4, CodeStays
    <2>6. CASE old.consumed
      <3>1. CodeStatus'[c] = CodeStatus[c]
        BY <1>t, <2>1, <2>2, <2>3, <2>4, <2>6 DEF CodeTold
      <3>2. QED
        BY <2>5, <3>1, CodesStutter
    <2>7. CASE ~ old.consumed
      <3>1. opened[c] # 1
        BY <2>1, <2>7 DEF Inv, GrantsSound
      <3>2. CodeStatus[c] = "live" /\ CodeStatus'[c] = "lost"
        BY <1>t, <2>1, <2>2, <2>3, <2>7, <3>1 DEF CodeTold
      <3>3. QED
        BY <2>5, <3>2, CodeMoves DEF Codes!Next, Codes!Lose, Codes!Moves
    <2>8. QED
      BY <2>6, <2>7
  <1>6. CASE \/ \E p \in Project, s \in State : StartGoogleOAuth(p, s)
             \/ \E s \in State : ExpireState(s)
             \/ \E u \in User, p \in Project, e \in Email, verified \in BOOLEAN :
                  RegisterElsewhere(u, p, e, verified)
             \/ \E u \in User, flag \in BOOLEAN : SetUserBanned(u, flag)
             \/ UNCHANGED vars
    <2>1. /\ UNCHANGED <<auth_exchange_codes, opened>>
          /\ \A q \in Request : req'[q].code = req[q].code
      BY <1>6 DEF StartGoogleOAuth, ExpireState, RegisterElsewhere, SetUserBanned, vars,
                  tables, history, Inv, TypeOK, RequestState
    <2>2. \A c \in AuthCode : InExchange(c)' = InExchange(c)
      BY <2>1 DEF InExchange
    <2>3. QED
      BY <2>1, <2>2, CodeStays, CodesStutter
  <1>7. QED
    BY <1>1, <1>2, <1>3, <1>4, <1>5, <1>6 DEF Next, Arrive, Proceed, Environment

\* An auth code is a grant for one use: one exchange takes it, and it opens at most
\* one session.
THEOREM CodesImplementOneTimeGrants == Spec => CodesAreOneTimeGrants
  <1>1. Init => Codes!Init
    <2> SUFFICES ASSUME Init PROVE Codes!Init
      OBVIOUS
    <2>1. \A c \in AuthCode : auth_exchange_codes[c] = None
      BY DEF Init
    <2>2. CodeTold
      BY InitInv, StatusOfCode
    <2>3. \A c \in AuthCode : CodeStatus[c] = "unissued"
      BY <2>1, <2>2 DEF CodeTold
    <2>4. CodeStatus = [c \in AuthCode |-> CodeStatus[c]]
      BY DEF CodeStatus
    <2>5. QED
      BY <2>3, <2>4 DEF Codes!Init
  <1>2. Inv /\ Inv' /\ [Next]_vars => [Codes!Next]_CodeStatus
    BY CodesStep
  <1>3. QED
    BY <1>1, <1>2, Invariance, PTL DEF Spec, Codes!Spec, CodesAreOneTimeGrants
=============================================================================
