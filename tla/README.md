# SAuth: verification project

TLA+ modules, TLC configurations and TLAPS proofs for the authentication
service in `src/backend`.  SAuth is a Go HTTP service over PostgreSQL: each
request runs in a goroutine of its own, keeps nothing in memory, and does its
work in a handful of SQL statements under READ COMMITTED.  What can go wrong
therefore goes wrong between two statements, of one request or of several, and
the modules model the program at that grain.

## 1. Inventory

All paths are under `src/backend/`.

| Component | State | Operations | Correct when |
|---|---|---|---|
| Session store, `internal/auth/service.go`, `internal/db/sessions.sql.go` | tables `sessions`, `refresh_token_history` | `Login`, `Refresh`, `Logout` | a refresh token is exchanged once; the history holds exactly the exchanged tokens; revocation is final; a replay closes all sessions of its owner and nobody else's; a banned user gets nothing |
| One-time codes, `internal/auth/otp.go`, `internal/db/otp.sql.go` | table `otp_codes`, accounts in `users` | `RequestOTP`, `VerifyOTP` | one active code per destination and purpose; one session per code; guesses are bounded; one account per destination; an exhausted code is burned |
| Google sign-in, `internal/auth/oauth.go`, `internal/db/oauth.sql.go` | tables `oauth_states`, `oauth_accounts`, `auth_exchange_codes`, `users` | `StartGoogleOAuth`, `HandleGoogleCallback` (with `resolveOAuthUser`), `ExchangeAuthCode` | a state gives one code and a code one session; a code leads to the linked user of the project that started the flow; users are linked by a vouched address only |
| Accounts, `Signup` in `service.go`, `internal/db/users.sql.go` | table `users`, `user_roles` | `Signup`, lookups by address, phone, username | one user per identifier; a user and its default role appear together |
| Access tokens, `internal/token`, `Me`, `httpapi/middleware_auth.go` | none (signed claims) | `IssueAccess`, `ParseAccess`, `Me` | a token opens its own project until it expires; its claims are no older than the request that minted it |
| RBAC, `internal/db/rbac.sql.go` | `roles`, `permissions` and their joins | read by `mintAccess`, default role at signup | roles stay in their project (composite foreign keys) |
| HTTP layer, `internal/httpapi`, `internal/apierror` | none | decoding, error mapping, 30 s deadline | the verdict sent is the verdict reached |
| Pool and lifecycle, `internal/database`, `cmd/server` | 10 connections | connect, acquire, shutdown in 10 s | requests make progress when all connections are taken; shutdown drains |
| Pure functions, `internal/otp`, `internal/password`, `internal/secretbox` | none | hash, compare, seal | – |
| Outside, `internal/googleoauth`, `internal/notify` | none | exchange with Google, send a code | – |
| `internal/config`, `cmd/seed`, `internal/db` plumbing | environment | run once | – |

Interactions.  Every route but the Google callback passes `requireProject`,
which resolves the API key to a project.  `Login`, `VerifyOTP`,
`ExchangeAuthCode` and `Signup` all end in `issue`, which inserts a session.
`VerifyOTP`, `HandleGoogleCallback` and `Signup` all create users and meet in the
unique constraints of `users`.  All of them hold connections of one pool while they
wait for each other's row locks.  Components share state through the database
only; there are no messages, queues or background jobs.  The purge queries
(`DeleteExpired...`), `SetUserBanned` and the console's tables have no caller in
this repository; `SetUserBanned` is modelled as the act of an administrator,
because four handlers read the flag, and the purges are not modelled.

Hard behaviours.  READ COMMITTED lets every statement see what others committed
a moment ago, so each read-then-write is a race unless a row lock or a
constraint decides it.  Errors of a few statements are dropped on purpose.  A
response may be lost after its commit.  Rows expire between two statements.
`PROJECT.json` lists the hazards one by one, each at the line where it bites.

## 2. Modules

| Module | Role |
|---|---|
| `Sessions`, `MCSessions` | `Login`, `Refresh`, `Logout` over `sessions` and `refresh_token_history`, and its instances |
| `TokenFamilies` | abstract specification: families of refresh tokens, opened, exchanged, closed |
| `SessionsProofs`, `FamiliesProofs`, `DeadlockProofs` | proofs about `Sessions`; the second about replays, single requests, overlapping exchanges and the refinement, the third about who can wait for whom in a cycle |
| `Otp`, `MCOtp`, `OtpProofs` | `RequestOTP` and `VerifyOTP`, its instances, its proofs |
| `OAuth`, `MCOAuth`, `OAuthProofs` | Google sign-in, its instance, its proofs |
| `OneTimeGrants` | abstract specification: a grant is issued, taken once, and used once or lost |
| `Accounts`, `MCAccounts`, `AccountsProofs` | signup, roles, access tokens and `Me`, its instance, its proofs |
| `Server`, `MCServer`, `ServerProofs` | routes and handlers as users of the connection pool, start and shutdown, its instance, its proofs |

Each of the first four modules follows its own tables statement by statement and
meets the others where they meet in the code: an account made by another way in
is `RegisterElsewhere` (in `Otp`, `OAuth`, `Accounts`), the flag `banned` is set by
`SetUserBanned` (in `Sessions`, `Otp`, `OAuth`), and `Accounts!Refresh` is a refresh
whose token `Sessions` found good.  `Server` composes all operations, reduced to
what they do with connections and locks.

### How the code becomes actions

A request is a record in `req`, with a program counter named after the statement
that comes next.  An action is one statement, together with the Go code up to
the next one.  A commit is the action that changes the tables.

*Uncommitted writes are not stored.*  Under READ COMMITTED nobody reads them, so
all they do to others is to hold locks.  Which locks those are follows from the
program counter: in `Sessions`, `HoldsRotate`, `HoldsRevoke` and `HoldsKeyShare`
say so for FOR UPDATE, FOR NO KEY UPDATE and the key lock of the foreign key;
`Blockers` and `RowBlockers` say for whom a request waits.  An insert under way
holds its key against others (`Inserted`, `Inserts`, `InsertsUser`, `InsertsLink`).
The commit action then writes everything the transaction did.  A rollback writes
nothing.

*A condition in a WHERE clause is judged when the lock is granted*, on the row as
it is then (`RefreshRotate`, `RevokeAllRow`, `InvalidateRow`), while the
set of rows to visit is fixed when the statement starts (`RefreshFindUsed`,
`InvalidateSnapshot`).

*Fresh keys and tokens* are drawn where they are committed.  Hashes are injective:
`HashRefreshToken` wraps its token.  A guess at a code is right or wrong; an
identity at Google is any choice of subject, address and vouched flag; a
signature holds.

*Failure.*  `Fail` ends a request at any statement: an SQL error, the deadline of
30 s, a broken connection and a crash of the process are the same for the
database, which rolls back.  What the client is told then depends on the place,
because the code drops some errors (`VerdictOnError`).  A crash answers nothing
at all, which is an answer nobody reads.  A lost response is one whose token is
never presented again, or presented again as the old one.

*Ghosts.*  `issued` (each token with the token it replaced), `redeemed`, `alone`
(codes whose request met no other), `guessed` and `lost` (wrong guesses let in, and
those whose count failed), `flows`, `grants`, `opened` and `cut` are histories that
only properties read.  So are the fields `before` and `shunned` (the sessions and
the banned users at a request's arrival), `met`, `late` (the code had been redeemed
when the verification began), and `held` and `kept` (roles held at some time of a
request, and all the time).

### Sessions

| Code | Actions |
|---|---|
| `Login` | `LoginLookup` (reads and judges the user row outside the transaction), `Issue` |
| `Refresh`, current token | `RefreshSelect`, `RefreshRecord`, `RefreshRotate`, `RefreshUser`, `RefreshCommit` |
| `Refresh`, other token | `RefreshFindUsed`, `RevokeAllRow` (once per row), `RefreshReuseCommit` |
| `Logout` | `LogoutSelect`, `LogoutRevoke` (no transaction) |
| PostgreSQL | `DeadlockVictim`: a minimal cycle of waits loses one member |

`DeadlocksAreOfTwoKinds` says which cycles there are.  `RevokeAllUserSessions`
locks the sessions of a user in whatever order the plan finds them, so two replays
against one user can meet crosswise.  Two refreshes of one session can each hold
the key lock that the insert into the history takes on the session, and wait for
the other's at the rotation; this needs two tokens of one session that were each
current when they were read and are not in the history, so it follows an
overlapping exchange (`refresh_once`).  A login, a logout, or a replay against a refresh is
never in a cycle.

`TokenFamilies` says what the store promises without tables: a family belongs to
one user, tokens enter it one at a time in exchange for an earlier one of the
same open family, and a closed family is never used again.  Its constant
`Overlap` says whether the exchanged token must be the current one.
`ImplementsFamilies` is the refinement: with one request slot exchanges are of
the current token, with more they may overlap.

### Otp

| Code | Actions |
|---|---|
| `RequestOTP` | `RequestOTP` (throttle), `InvalidateSnapshot`, `InvalidateRow` (once per row), `CreateOTP` |
| `VerifyOTP`, wrong guess | `VerifyOTP` (the read and its early returns), `IncrementOTPAttempts`, `BurnOTP` |
| `VerifyOTP`, right guess | `VerifyOTP`, `ConsumeOTP`, `ResolveLogin`, or `ResolveSignup` and `CreateUser`, `VerifyCommit` |
| PostgreSQL | `DeadlockVictim`: as in `Sessions` |

`InvalidateActiveOTPs` is one UPDATE over several rows.  It locks them one by one
in no particular order and keeps them until the commit of `CreateOTP`, so two code
requests that find two active codes can wait for each other
(`DeadlocksAreOfRequests`); a verification waits for such a request, or for another
verification, and is never in a cycle.
Codes of other projects and malformed ids are rejected before any state is
touched and are left out.  `otp_codes` has a flag for the resend window and one
for the expiry in place of times; a code cannot expire within its window
(5 min against 30 s).

### OAuth

| Code | Actions |
|---|---|
| `StartGoogleOAuth` | `StartGoogleOAuth` |
| `HandleGoogleCallback` | `TakeOAuthState`, `GoogleExchange`, `CallbackCommit` |
| `resolveOAuthUser` | `FindAccount`, `FindEmail`, `CreateOAuthAccount`, `CreateUser` |
| `ExchangeAuthCode` | `TakeAuthExchangeCode` (commits on its own), `ExchangeUser`, `ExchangeCommit` |

`SetUserEmailVerified` is written by `CallbackCommit`; the default role is the
matter of `Accounts`.  The row lock on `users` delays a transaction that has only
its own inserts left to do and takes part in no cycle.  There is no deadlock
victim either: a callback inserts its user before its link, so the waits of
`Blockers` form no circle (`NobodyWaitsInACircle`, which is proved).

`OneTimeGrants` is the promise of both one-time things here.  `StateStatus` reads
off the tables whether a state is live, taken by a callback, used by a code or
lost; `CodeStatus` does so for auth codes and sessions.  A state with two codes
would have a status that the abstract specification does not know, so
`StatesAreOneTimeGrants` and `CodesAreOneTimeGrants` exclude it.

### Accounts

| Code | Actions |
|---|---|
| `Signup` | `Signup`, `CreateUser` (unique constraints), `AttachDefaultRole`, `SignupCommit` |
| `Login` | `Login` (the row as read decides), `ReadRoles`, `MintCommit` |
| `Refresh`, after the rotation | `Refresh`, `RefreshUser`, `ReadRoles`, `MintCommit` |
| `requireAccessToken`, `Me` | `Me`, `GetUserByID`, `ReadRoles`, `MeAnswer` |
| `IssueAccess`, `ParseAccess` | `IssueAccess` in the commits, `Opens`, `TokenExpires` |
| queries without a caller here | `AssignRoleToUser`, `RemoveRoleFromUser`: an administrator |

`mintAccess` reads roles and permissions in two statements, and roles may change
between them; a permission is told by the role it comes from.  An identifier that
is one user's address and another's name resolves to either (`GetUserByLogin`).

### Server

A handler is a sequence of steps, its plan: `query` and `update` each take a
connection of the pool and give it back, an `update` with the lock on one row;
`begin` takes one that `commit` returns; `google` waits for Google, holding nothing.
`handleSignup` ... `handleReady` spell out one plan per route; early returns and
errors are `GiveUp` at any point.

Between `begin` and `commit` the statements lock rows one after another
(`ReachRow`, `LockRow`) and keep them to the end.  Which rows, how many and in which
order is left open: `RevokeAllUserSessions` and `InvalidateActiveOTPs` lock several
in one statement, a refresh locks by its history entry and then by the rotation, a
signup inserts several unique keys.  Every lock excludes every other, and a key lock
that two transactions share stands for one lock of each.  This is more than any one
operation does: the transactions of `Server` wait for each other in the circles that
`Sessions` and `Otp` have, and in some that they and `OAuth` exclude.

| Code | Actions |
|---|---|
| pgx pool | `Acquire`, `Statement`, `Commit`, `PoolClosed` |
| PostgreSQL | `ReachRow`, `LockRow`, `DeadlockVictim` |
| handlers | `Arrive`, `GoogleAnswers`, `Respond`, `GiveUp` |
| `run()` in `cmd/server` | `Connect`, `ListenFails`, `Signal`, `ShutdownReturns`, `ShutdownTimesOut`, `Exit` (deferred `pool.Close` waits for every connection) |

## 3. Runs

| Run | Instance | What it shows |
|---|---|---|
| `sessions_races` | 2 users, 2 sessions, 4 tokens, 2 slots, faults | `HistoryExact`, `CurrentIsNeverUsed`, `RevokedIsFinal`, `BannedGetsNothing`, `ReuseRevokesSnapshot`, `OnlyOwnTokensRevoke`, `DeadlocksAreOfTwoKinds` and the refinement hold whatever overlaps and fails |
| `sessions_serial` | the same with 1 slot, no faults | `OutgoingHashRecorded`: of one request at a time, every issued token is current or in the history |
| `sessions_progress` | 1 user, 2 sessions, 5 tokens, 2 slots, fairness | every request is answered, also where two replays, or two refreshes of one session, wait for each other in a circle |
| `otp_races` | 1 destination, 4 codes of which 2 are followed (`TwoRows`), 2 slots, limit 2, faults | `GuessesBounded`, `RedeemedIsConsumed`, `SignupCodeOnce`, and what is left of the throttle, the one active code and the one redemption when requests overlap: `ResendsAreApart`, `LoneRequestLeavesOneCode`, `OneTimeUnlessOverlapping`; and who can deadlock: `DeadlocksAreOfRequests` |
| `otp_progress` | 1 destination, 4 codes, 2 slots, limit 1, fairness | `ExhaustedIsBurned`, and `Progress` also where two code requests wait for each other in a circle |
| `oauth_races` | 2 projects, 2 identities, 1 address, 3 users, 3 states, 2 codes, 2 slots, faults | `CodesFollowTheFlow`, `OneUserPerEmail`, `GoogleUsersAreLinked`, `LinkNeedsVouchedEmail`, `ExchangeJudgesAgain`, and both refinements of `OneTimeGrants` |
| `accounts_races` | 2 projects, 2 names, 2 roles, 2 users, 1 token, 2 slots, faults | `OneUserPerIdentifier`, `TenantIsolation`, `BornWithDefaultRole`, `ClaimsOfThisRequest` |
| `server_progress` | 3 requests, 2 connections, 2 rows, fairness | `OnlyRowsMakeCircles` and, with fairness, `Progress` without help of a deadline; `ShutdownEnds`, `ExitCutsNoTransaction`, `CleanExitCutsNobody` |

Four more runs end in a counterexample, each against one documented promise:

| Run | Promise | What happens |
|---|---|---|
| `refresh_once` | a token is rotated on every use, so a replay is detectable (`token.go:6-8`) | two overlapping refreshes of one token both succeed; `RotateSessionRefreshHash` does not ask for the hash it replaces |
| `reuse_reported` | "all sessions for this user have been revoked" (`auth_handlers.go:208`) | the revocation fails and its error is dropped |
| `logout_rotated` | logout invalidates that session (`api-contract.md:104`) | the token was rotated away meanwhile; 204, and the session lives |
| `otp_active` | "only the most recent code can ever verify" (`otp.sql.go:139`) | two overlapping requests leave two active codes |

What does hold shows that it is the concurrency or the failure and nothing else
that breaks these promises.  Of one request at a time they are theorems, for every
value of the other constants: `TokenExchangedOnce` (`ExchangedOnceInTurn`) and
`OneActiveCode` (`OneActiveCodeInTurn`) whatever fails, `ReuseRevokesAll`
(`ReportedInTurn`) without faults.  When requests overlap, a token is exchanged at
most once per slot (`ExchangesAreBounded`), because an exchange that is committed
leaves no later refresh a current token to find; and a code whose request met no
other one is the only active one of its group (`LoneRequestLeavesOneCode` in
`otp_races`).  `logout_rotated` needs no overlap: any token but the current one is
unknown to `Logout`.  One more promise fails for the same reason as the first and
has no run of its own: `OutgoingHashRecorded`
(`0002_refresh_token_history.up.sql:3-7`; the hash that the first of two
overlapping rotations wrote is overwritten and never recorded).
A login code is no one-time code either when its verifications overlap, because
`ConsumeOTP` asks for the id alone.  `OneTimeUnlessOverlapping` says what is left: a
verification that began after the code was redeemed never redeems it again, and of
those that began before, each slot redeems it once at most.

The limit of guesses is exact for one request at a time without faults.  Guesses that
overlap are judged on the row as each of them read it, and a guess whose
`IncrementOTPAttempts` fails is answered like any other but not counted.
`GuessesBounded` bounds the guesses that were let in, not the counter: fewer than the
limit, the slots and the lost counts together.

### Bounds

Keys, refresh tokens and codes are finite and are never used twice; `TokensLeft`,
`SessionsLeft`, `CodesLeft` and `KeysLeft` keep a request from starting that
could not be given one, and are the only bounds in guards.  Access tokens of
`Accounts` are a number in circulation: an expired one makes room.  Two slots are
enough for every pair of requests, and requests follow each other in a slot, so a
third party can come before, between and after.

Three runs are bounded further in their cfg.  `TwoRows` is a state constraint of
`otp_races`.  `DrawnInOrder`, in both progress runs, fixes the order in which fresh
keys are drawn: liveness is checked without symmetry, and the keys are only compared.
`ExpiresEarly` (`sessions_progress`) and `ArrivesEarly` (`otp_progress`) are
constraints on actions; they leave out arrivals and steps of the environment in
states with many keys, and never a step of a request under way, so that whatever
waits begin are followed to their end.

- *Sessions.*  Four tokens in two sessions allow three successive rotations, or an
  overlap and a replay of either of its tokens.  Two sessions of one user, or one
  each of two users, are what `RevokeAllUserSessions` must tell apart.  The races
  run shows the first kind of deadlock.  The second needs a fifth token; the progress
  run has five and reaches both kinds.
- *Otp.*  Two codes of one destination are what `InvalidateActiveOTPs` must tell
  apart; with a limit of two guesses the counter passes through every relation to
  the limit.  Two code requests that meet with two active codes before them, which
  is the deadlock, need four keys, and both runs have them.  `TwoRows` keeps the
  races run small: a state with a third row is checked and not followed further, two
  rows with a code request under way are followed only while the destination has no
  account, because to a code request an account means only that its code is
  delivered, and two lost counts of one code only while there is no second row.
  `ArrivesEarly` lets a third and a fourth code be asked for only where two are
  active, which is where requests can wait for each other.
- *OAuth.*  Three states let a flow fail, one be replayed and one succeed; two
  identities that may name one address, in two projects, are the cases of
  `resolveOAuthUser`.
- *Accounts.*  One project has a default role and the other none; a name may be
  taken as an address, as a username, or as both by different users.
- *Server.*  Two connections and three requests: all connections may be held by
  requests that wait for a row, by requests that want a second connection (there
  is none, which is the point) or by two that wait for each other while the third
  waits for the pool.  Two rows are what a circle of waits takes.

Deadlock is checked in every run but `server_progress`, whose process ends.
Symmetry is used in the safety runs only.  All its sets are model values that the
modules compare and nothing else; the projects and roles of `Accounts` differ and
are not in it.

### Fairness

`FairSpec` is strong fairness of `Proceed(r)` for each slot: a goroutine that can
take its next step takes it, PostgreSQL serves the waiters of a row in order and
pgx those of the pool, so a lock or a connection that is free again and again is
granted.  In `Server` the lifecycle is weakly fair: `Shutdown` has a timer of its
own and `pool.Close` returns when the connections are back.  Nothing obliges
arrivals, faults, bans, the passing of time, Google, or the deadline of a request
(`GiveUp`): `Progress` of `Server` is about requests that do not ask Google, and
holds without a deadline that ends them.  The progress runs of `Sessions` and
`Otp` have `Faults = FALSE`: with faults the request deadline answers anyway.

## 4. Proofs

Every safety property that a passing run checks is proved for every value of the
constants.  The assumptions are the named ones of the
modules: null values are not values, `Faults` is Boolean, roles and default roles
have projects, the number of request slots is finite (`Otp` and `Sessions`, where
bounds count them).  Each module of proofs has the same plan: an invariant `Inv`, `Init => Inv`,
one lemma per action that `Inv` is kept, the theorem `Invariance`, and then
one short theorem per property; an action property or a refinement is shown
for a single step from `Inv` and lifted by temporal reasoning.  TLC checked each
invariant on the instance of the races run before it was proved (that of `Server`
on its only instance, with the sequences of plain steps bounded by the longest
route, because `Seq` is infinite).

| Module | Theorem | Property |
|---|---|---|
| `SessionsProofs` | `Invariance` | `[]Inv` |
| | `TypeCorrectness` | `[]TypeOK` |
| | `HistoryIsExact` | `[]HistoryExact` |
| | `CurrentNeverUsed` | `[]CurrentIsNeverUsed` |
| | `RevocationIsFinal` | `RevokedIsFinal` |
| | `BannedGetNothing` | `BannedGetsNothing` |
| `FamiliesProofs` | `FamilyInvariance` | `[]FamilyInv` |
| | `ReplaysCloseAll` | `ReuseRevokesSnapshot` |
| | `OnlyOwnTokensClose` | `OnlyOwnTokensRevoke` |
| | `TablesImplementFamilies` | `ImplementsFamilies` |
| | `ExchangedOnceInTurn`, one slot | `[]TokenExchangedOnce` |
| | `RecordedInTurn`, one slot | `[]OutgoingHashRecorded` |
| | `ReportedInTurn`, one slot, no faults | `ReuseRevokesAll` |
| | `ExchangesAreBounded` | `[]ExchangesBounded` |
| `DeadlockProofs` | `WaitInvariance` | `[]WaitInv` |
| | `TwoKindsOfDeadlock` | `[]DeadlocksAreOfTwoKinds` |
| `OtpProofs` | `Invariance`, `TypeCorrectness` | `[]Inv`, `[]TypeOK` |
| | `GuessInvariance` | `[]GuessCounts` |
| | `GuessesAreBounded` | `[]GuessesBounded` |
| | `RedeemedAreConsumed` | `[]RedeemedIsConsumed` |
| | `SignupCodesOnce` | `[]SignupCodeOnce` |
| | `LoneRequestsLeaveOneCode` | `[]LoneRequestLeavesOneCode` |
| | `ResendsStayApart` | `[]ResendsAreApart` |
| | `CodesOnceUnlessOverlapping` | `OneTimeUnlessOverlapping` |
| | `LockInvariance` | `[]LockInv` |
| | `DeadlocksOfRequests` | `[]DeadlocksAreOfRequests` |
| | `ExhaustedAreBurning`, no faults | `[]ExhaustedIsBurning` |
| | `OneActiveCodeInTurn`, one slot | `[]OneActiveCode` |
| `OAuthProofs` | `Invariance`, `TypeCorrectness` | `[]Inv`, `[]TypeOK` |
| | `FlowsAreWhole` | `[]CodesFollowTheFlow` |
| | `UniqueEmails` | `[]OneUserPerEmail` |
| | `GoogleUsersHaveAccounts` | `[]GoogleUsersAreLinked` |
| | `NoCircularWait` | `[]NobodyWaitsInACircle` |
| | `LinksAreVouchedFor` | `LinkNeedsVouchedEmail` |
| | `ExchangesAreJudged` | `ExchangeJudgesAgain` |
| | `StatesImplementOneTimeGrants` | `StatesAreOneTimeGrants` |
| | `CodesImplementOneTimeGrants` | `CodesAreOneTimeGrants` |
| `AccountsProofs` | `Invariance`, `TypeCorrectness` | `[]Inv`, `[]TypeOK` |
| | `UniqueIdentifiers` | `[]OneUserPerIdentifier` |
| | `TenantsIsolated` | `[]TenantIsolation` |
| | `BornWithDefault` | `BornWithDefaultRole` |
| | `ClaimsAreFresh` | `ClaimsOfThisRequest` |
| `ServerProofs` | `Invariance` | `[]Inv` |
| | `CleanExit` | `[]CleanExitCutsNobody` |
| | `SlotInvariance` | `[]SlotInv` |
| | `WholeTransactions` | `[]ExitCutsNoTransaction` |
| | `NoHiddenCircle` | `[]OnlyRowsMakeCircles` |
| | `TypeCorrect` | `[]TypeOK` |

None of the properties is inductive.  What each invariant adds:

*Sessions.*  `TokensHaveOrigin`: issued tokens are unique, an exchanged token was
itself issued in the same session, and a session's current hash is that of an
issued token of it; without it a fresh token could collide with a hash in a table.
`RequestsSound`: what a request remembers exists and belongs together at each
program counter.  `RotationExcludesRevocation`: while one request holds the row
lock of a rotation, the row is not revoked and nobody else is about to commit its
revocation; this is what makes the judgement of `revoked_at IS NULL` in
`RefreshRotate` still true at the commit, and hence `RevokedIsFinal`.
`BansRemembered`: a request past the check of the flag serves a user who was not
banned all the time since it arrived.

*Families.*  `RevocationsSound`: a request that revokes was given a token of its
session, and each session of the same user that it found on arrival is revoked,
on its list, or locked by it.  `CurrentInTurn`, for one slot: the token that a
rotation is about to replace is still the current one.  With more slots this
fails, which is `refresh_once`.  `ExchangeBudgets`, for any number of slots: the
exchanges of a token and the refreshes of it that are under way are together no
more than the slots.  A refresh starts only while its token is current, and then
nothing was exchanged for it yet (`CurrentIsUnspent`, from `HistoryExact` and
`CurrentIsNeverUsed`); its commit takes it from the one set to the other.

*Deadlocks of `Sessions`.*  `InsertsApart`: uncommitted inserts into the history
are of different tokens.  Nobody in a cycle holds a row by a rotation, because a
request that does waits for nothing more.  So a replay in a cycle waits for another
replay, which holds a session of the same user and hence has the same victim; such
replays are a cycle of their own, and a minimal one is nothing else.  In a cycle
without replays a refresh waits for a refresh that has inserted and is about to
rotate, and that one for another of its own session; these are a cycle of their
own again.  Two of them have different tokens by `InsertsApart`, neither of them
in the history, and the session has one current token: the other is lost to the
server, which is why `OutgoingHashRecorded` fails.

*Otp.*  `RequestsSound` with `Cleared`: a code request has on its list every active
code but those of requests that it met.  `RequestsApart`: two requests of one group
know that they met, and two signups of one destination are not both past their
insert.  `HistorySound`: a redeemed signup code has an account.  `Budgets`: the
attempts counted, and those about to be, are fewer than the limit and the slots
together, and redemptions done and under way are no more than the slots; these two
count sets of requests, and need their number to be finite.  `GuessCounts`: a guess
let in is counted in the row, about to be, or lost, so that `GuessesBounded` follows
from the budget of attempts.  `NoneLate`: once a code is redeemed it is consumed,
and a verification that begins then never gets beyond reading it, which gives
`OneTimeUnlessOverlapping` together with the budget of redemptions.
`LocksExclude`: a row is locked by one request.  `BurningSound`: what a code
request has locked is active and off its list.  A verification that has locked its
code waits for at most an account, whose inserter waits for nobody; so the rows
that a cycle waits for are held by code requests, those of one group are a cycle of
their own, and none of them waits for the row that it holds itself.
`ExhaustedIsBurning` then follows: the request that reaches the limit cannot be
the victim, and without faults nothing else takes it away before `BurnOTP`.

*OAuth.*  `GrantsSound`: a live state led to no code, codes have different states,
and what a code opened agrees with its row.  `AccountsSound`: an identity has one
account and the account a user.  `RequestsSound`: a callback serves the project of
its state, what it will insert is not there, and what it found is; an exchange
holds a code that it took.  `RequestsApart`: two requests hold neither one state
nor one code, nor insert one key.  `NoCircularWait` needs one part of it: an insert
is under way only at `link_new` and `mint`, so in a set of waiting callbacks one at
`mint` waits for nobody, else one at `link` or `link_new`, else all.

*Accounts.*  `IdentifiersReserved`: an insert under way owns its address and its
username.  `RequestsSound`: a signup carries exactly the default role of its project;
any other request serves a user of its project, and its roles lie between those
kept and those held since it began.

*Server.*  `Inv`: a pool closed without an error was closed with no request left.
`SlotInv`: what a request holds follows from what it has left to do.  Plans are
plain steps followed by nothing or by one whole transaction (`Outside`), or the
rest of a transaction that has begun (`Inside`); a request holds the transaction's
connection exactly in the second case, and rows only with it.  `pool.Close`
waits for connections alone, so it is this that leaves no row locked and nothing
half done.  It also says who can wait for whom: a request that holds a connection or
a row has nothing left to ask of the pool or of Google, so if it cannot go on it
waits for a row, held by another such request.  Where nobody can go on, the requests
that wait for rows therefore all wait for each other (`OnlyRowsMakeCircles`).

Six theorems state properties that no run lists.  `ExchangedOnceInTurn`,
`ReportedInTurn` and `OneActiveCodeInTurn` are about the formulas that the runs
`refresh_once`, `reuse_reported` and `otp_active` refute, under the assumption of
one slot.  `ExchangesAreBounded`, `ExhaustedAreBurning` and the `NoCircularWait` of
`OAuth` were checked with TLC before they were proved: the first and the last on
the instances of `sessions_races` and `oauth_races`, the second on the one of
`otp_races` with a limit of one and no faults (193 325 states).

Only model-checked: liveness, which needs fairness and ENABLED (`Progress`,
`ExhaustedIsBurned`, `ShutdownEnds`).  What these rest on apart from fairness is
proved.  `Progress` of `Server` needs that only row locks close a circle
(`OnlyRowsMakeCircles`); all three need that PostgreSQL ends such a circle, and the
theorems about `Sessions` and `Otp` say which ones there are; `ExhaustedIsBurned` needs
that an exhausted code that is still active has a request about to consume it
(`ExhaustedIsBurning`).

## 5. Not modelled, and the plan

Left out, because they keep no state and no property is about them: decoding of
bodies, `mapAuthErr` and the error envelope, the log; the validation of redirect
addresses; `classifyDestination` and the normalisation of addresses; password
hashing, the drawing of codes, sealing; Google's protocol and the delivery of
codes beyond their outcome; configuration and seed.  Left out, because nothing in
the repository calls them: the purges (`DeleteExpired...`), the queries of the
console and everything about `role_permissions`.

Three hazards have no property because the code accepts them: a login, a
verification or an exchange that commits after a replay revoked the sessions of
its user; a ban between the judgement of the flag and the commit; a lost
response to a refresh, whose retry is a replay.  `PROJECT.json` has the reason at
each such hazard.

Next: a composition of `Sessions` with the purge of expired sessions and codes
once something calls it; larger instances of `OAuth`, if a third way to link an
identity appears.
