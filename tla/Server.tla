------------------------------- MODULE Server -------------------------------
(***************************************************************************)
(* The server around the handlers of SAuth: the connection pool of         *)
(* internal/database, the routes and handlers of internal/httpapi as users *)
(* of it, and start and shutdown of cmd/server.  What a statement does is  *)
(* the matter of the other modules; here a request is the list of things   *)
(* it still has to do, and each may need a connection, the locks on rows,  *)
(* or an answer from Google.  Transactions lock rows one after another, in *)
(* any order, and may wait for each other in circles; Sessions and Otp say *)
(* which of these circles the operations really make.                      *)
(***************************************************************************)
EXTENDS FiniteSets, Naturals, Sequences

CONSTANTS
    Request,         \* requests served at a time
    Watched,         \* the ones whose progress is checked: all are alike
    MaxConns,        \* connections of the pool
    Row,             \* rows and unique keys that statements lock
    None             \* a slot that serves nobody, and no row

ASSUME PoolNotEmpty == MaxConns \in Nat \ {0}
ASSUME WatchedAreRequests == Watched \subseteq Request

VARIABLES
    phase,    \* where run() is
    failed,   \* run() will return an error
    req,      \* what each slot has to do and holds
    cut       \* history: requests that the end of the process cut off

vars == <<phase, failed, req, cut>>

Phase == {"connecting", "serving", "draining", "closing", "exited"}

-----------------------------------------------------------------------------
\* What the operations do, as far as connections and locks go.  A "query" or an
\* "update" of one row goes through the pool on its own; between "begin" and
\* "commit" the statements use the connection of the transaction and lock what they
\* insert, update and refer to, one row after another.

\* Seeded bug: a statement in the transaction goes through s.q.
TransactionAndQuery == <<"begin", "query", "commit">>

\* Which rows, how many and in which order is left open: an insert of a session has
\* one or two, a refresh the session of its history entry before the rotation, a
\* replay all sessions of the user, a code request all active codes.
Transaction == <<"begin", "commit">>

Signup == Transaction

Login == <<"query">> \o Transaction

Refresh == Transaction

Logout == <<"query", "update">>

Me == <<"query", "query", "query">>

RequestOTP == <<"query", "query">> \o Transaction

\* A wrong guess counts and may burn the code; a right one redeems it.
VerifyOTP == {<<"query", "update", "update">>, <<"query">> \o Transaction}

StartGoogleOAuth == <<"query", "query">>

\* Seeded bug: the transaction begins before Google is asked.
HandleGoogleCallbackEarly == <<"update", "query", "begin", "google", "commit">>

\* TakeOAuthState writes; no connection is held while Google is asked.
HandleGoogleCallback == <<"update", "query", "google">> \o Transaction

\* TakeAuthExchangeCode writes.
ExchangeAuthCode == <<"update">> \o Transaction

\* The handlers: the project of the API key, then the service.  A body that does
\* not decode and a field that is missing end the request before it does more.
requireProject == <<"query">>

handleSignup == requireProject \o Signup

handleLogin == requireProject \o Login

handleOTPRequest == requireProject \o RequestOTP

handleOTPVerify == {requireProject \o plan : plan \in VerifyOTP}

handleRefresh == requireProject \o Refresh

handleLogout == requireProject \o Logout

\* The access token is judged in memory.
handleMe == requireProject \o Me

handleGoogleStart == requireProject \o StartGoogleOAuth

\* Outside requireProject.
handleGoogleCallback == HandleGoogleCallback

handleOAuthExchange == requireProject \o ExchangeAuthCode

handleHealth == <<>>

handleReady == <<"query">>

Routes ==
    {handleHealth, handleReady, handleSignup, handleLogin, handleOTPRequest,
     handleRefresh, handleLogout, handleMe, handleGoogleStart,
     handleGoogleCallback, handleOAuthExchange} \union handleOTPVerify

\* What is left of a route on the way.
Plan == UNION {{SubSeq(route, n, Len(route)) : n \in 1 .. 7} : route \in Routes}

-----------------------------------------------------------------------------
\* Requests.

\* plan: what is left to do; stmt, tx: connections held; rows: the locks held;
\* wants: the row that the statement under way has to lock next.
Serving(plan) ==
    [plan |-> plan, stmt |-> FALSE, tx |-> FALSE, rows |-> {}, wants |-> None]

RequestState ==
    [plan : Plan, stmt : BOOLEAN, tx : BOOLEAN, rows : SUBSET Row,
     wants : Row \union {None}]

Active(r) == req[r] # None

IsNext(r, step) == Active(r) /\ req[r].plan # <<>> /\ Head(req[r].plan) = step

Step(r) == [req[r] EXCEPT !.plan = Tail(@)]

InUse ==
    Cardinality({r \in Request : Active(r) /\ req[r].stmt})
        + Cardinality({r \in Request : Active(r) /\ req[r].tx})

Wants(r) == Active(r) /\ req[r].wants # None

\* The transaction of q holds the row that the statement of r has to lock.
WaitsFor(r, q) == Wants(r) /\ Active(q) /\ q # r /\ req[r].wants \in req[q].rows

RowFree(r) == \A q \in Request : ~ WaitsFor(r, q)

Running == phase \notin {"connecting", "exited"}

\* The request is at a point where it asks the pool for a connection.
Asks(r) ==
    \/ IsNext(r, "begin")
    \/ (IsNext(r, "query") \/ IsNext(r, "update")) /\ ~ req[r].stmt

-----------------------------------------------------------------------------
Init ==
    /\ phase = "connecting"
    /\ failed = FALSE
    /\ req = [r \in Request |-> None]
    /\ cut = {}

Arrive(r) ==
    /\ phase = "serving"
    /\ ~ Active(r)
    /\ \E route \in Routes : req' = [req EXCEPT ![r] = Serving(route)]
    /\ UNCHANGED <<phase, failed, cut>>

\* A connection is free, or one more may be opened; a closed pool gives none.
Acquire(r) ==
    /\ phase \in {"serving", "draining"}
    /\ Asks(r)
    /\ InUse < MaxConns
    /\ \/ /\ IsNext(r, "begin")
          /\ req' = [req EXCEPT ![r] = [Step(r) EXCEPT !.tx = TRUE]]
       \/ /\ IsNext(r, "query")
          /\ req' = [req EXCEPT ![r] = [req[r] EXCEPT !.stmt = TRUE]]
       \/ /\ IsNext(r, "update")
          /\ \E row \in Row :
                req' = [req EXCEPT ![r] = [req[r] EXCEPT !.stmt = TRUE, !.wants = row]]
    /\ UNCHANGED <<phase, failed, cut>>

\* Seeded bug: every statement is followed by a query that reads its row back.
StatementReadBack(r) ==
    /\ Running
    /\ Active(r) /\ req[r].stmt
    /\ RowFree(r)
    /\ req' = [req EXCEPT ![r].plan = <<"query">> \o Tail(@), ![r].stmt = FALSE,
                          ![r].wants = None]
    /\ UNCHANGED <<phase, failed, cut>>

\* The statement runs, an update with the row lock, and gives its connection back.
Statement(r) ==
    /\ Running
    /\ Active(r) /\ req[r].stmt
    /\ RowFree(r)
    /\ req' = [req EXCEPT ![r] = [Step(r) EXCEPT !.stmt = FALSE, !.wants = None]]
    /\ UNCHANGED <<phase, failed, cut>>

\* A statement of the transaction comes to the next row it has to lock.
ReachRow(r) ==
    /\ Running
    /\ IsNext(r, "commit")
    /\ ~ Wants(r)
    /\ \E row \in Row \ req[r].rows :
          req' = [req EXCEPT ![r] = [req[r] EXCEPT !.wants = row]]
    /\ UNCHANGED <<phase, failed, cut>>

LockRow(r) ==
    /\ Running
    /\ IsNext(r, "commit")
    /\ Wants(r)
    /\ RowFree(r)
    /\ req' = [req EXCEPT ![r] =
          [req[r] EXCEPT !.rows = @ \union {req[r].wants}, !.wants = None]]
    /\ UNCHANGED <<phase, failed, cut>>

\* All statements have run.
Commit(r) ==
    /\ Running
    /\ IsNext(r, "commit")
    /\ ~ Wants(r)
    /\ req' = [req EXCEPT ![r] = [Step(r) EXCEPT !.tx = FALSE, !.rows = {}]]
    /\ UNCHANGED <<phase, failed, cut>>

\* Each request of D waits for another one of D.
WaitForEachOther(D) ==
    /\ D # {}
    /\ \A r \in D : \E q \in D : WaitsFor(r, q)

\* A cycle, and no one else.
Deadlock(D) ==
    /\ WaitForEachOther(D)
    /\ \A E \in SUBSET D : WaitForEachOther(E) => E = D

\* PostgreSQL finds the cycle and ends the transaction of one of its members; no
\* operation begins it again.
DeadlockVictim(r) ==
    /\ Running
    /\ \E D \in SUBSET Request : r \in D /\ Deadlock(D)
    /\ req' = [req EXCEPT ![r] = None]
    /\ UNCHANGED <<phase, failed, cut>>

GoogleAnswers(r) ==
    /\ Running
    /\ IsNext(r, "google")
    /\ req' = [req EXCEPT ![r] = Step(r)]
    /\ UNCHANGED <<phase, failed, cut>>

\* The response is written.
Respond(r) ==
    /\ Running
    /\ Active(r) /\ req[r].plan = <<>>
    /\ req' = [req EXCEPT ![r] = None]
    /\ UNCHANGED <<phase, failed, cut>>

\* The pool is closed and the request learns it.
PoolClosed(r) ==
    /\ phase = "closing"
    /\ Asks(r)
    /\ req' = [req EXCEPT ![r] = None]
    /\ UNCHANGED <<phase, failed, cut>>

\* An early return, an error, the deadline of the route or that of the ping:
\* the transaction is rolled back and the connections return to the pool.
GiveUp(r) ==
    /\ Running
    /\ Active(r)
    /\ req' = [req EXCEPT ![r] = None]
    /\ UNCHANGED <<phase, failed, cut>>

-----------------------------------------------------------------------------
\* run().

\* Connect pings the database; without an answer the pool is closed again.
Connect ==
    /\ phase = "connecting"
    /\ \/ phase' = "serving" /\ UNCHANGED failed
       \/ phase' = "exited" /\ failed' = TRUE
    /\ UNCHANGED <<req, cut>>

\* The listener fails: run() returns at once, and only the pool is closed.
ListenFails ==
    /\ phase = "serving"
    /\ phase' = "closing" /\ failed' = TRUE
    /\ UNCHANGED <<req, cut>>

\* SIGTERM or an interrupt: Shutdown closes the listener.
Signal ==
    /\ phase = "serving"
    /\ phase' = "draining"
    /\ UNCHANGED <<failed, req, cut>>

\* Seeded bug: nobody waits for Shutdown to return.
NothingActive == TRUE

Drained == \A r \in Request : ~ Active(r)

ShutdownReturns ==
    /\ phase = "draining"
    /\ Drained
    /\ phase' = "closing"
    /\ UNCHANGED <<failed, req, cut>>

\* Seeded bug: Shutdown gets a context that has no deadline.
ShutdownWaits == phase = "draining" /\ Drained /\ UNCHANGED vars

\* Shutdown waits 10 s at most, a request may take 30.
ShutdownTimesOut ==
    /\ phase = "draining"
    /\ ~ Drained
    /\ phase' = "closing" /\ failed' = TRUE
    /\ UNCHANGED <<req, cut>>

\* Seeded bug: the process exits past the deferred pool.Close.
AllReturned == TRUE

\* pool.Close has every connection back.
PoolEmpty == \A r \in Request : Active(r) => ~ req[r].stmt /\ ~ req[r].tx

Exit ==
    /\ phase = "closing"
    /\ PoolEmpty
    /\ phase' = "exited"
    /\ cut' = {r \in Request : Active(r)}
    /\ UNCHANGED <<failed, req>>

-----------------------------------------------------------------------------
\* What a request does without Google and without giving up.
Proceed(r) ==
    \/ Acquire(r) \/ Statement(r)
    \/ ReachRow(r) \/ LockRow(r) \/ Commit(r) \/ DeadlockVictim(r)
    \/ Respond(r) \/ PoolClosed(r)

Lifecycle == ShutdownReturns \/ ShutdownTimesOut \/ Exit

Next ==
    \/ \E r \in Request : Arrive(r) \/ Proceed(r) \/ GoogleAnswers(r) \/ GiveUp(r)
    \/ Connect \/ ListenFails \/ Signal \/ Lifecycle

Spec == Init /\ [][Next]_vars

\* Goroutines run; a connection or a lock that is free again and again is granted
\* (both queue).  Nothing obliges Google to answer, nor a deadline to pass, but
\* for the one of Shutdown.
FairSpec ==
    /\ Spec
    /\ \A r \in Request : SF_vars(Proceed(r))
    /\ WF_vars(Lifecycle)

-----------------------------------------------------------------------------
TypeOK ==
    /\ phase \in Phase
    /\ failed \in BOOLEAN
    /\ req \in [Request -> RequestState \union {None}]
    /\ cut \in SUBSET Request

-----------------------------------------------------------------------------
\* Properties.

\* The end of the process cuts no statement and no transaction: whoever is cut
\* off holds neither connection nor lock, because pool.Close waits (main.go:40).
ExitCutsNoTransaction ==
    phase = "exited" =>
        \A r \in Request : Active(r) => ~ req[r].stmt /\ ~ req[r].tx /\ req[r].rows = {}

\* run() returns without an error only if every request was answered.
CleanExitCutsNobody == phase = "exited" /\ ~ failed => cut = {}

\* What keeps a request from its next step: no connection is left, the row is
\* locked, or Google has not answered.
Blocked(r) ==
    \/ phase # "closing" /\ Asks(r) /\ InUse >= MaxConns
    \/ ~ RowFree(r)
    \/ IsNext(r, "google")

\* Row locks alone can close a circle: where no request can go on but those that
\* wait for Google, transactions wait in a circle for each other's rows, which
\* PostgreSQL finds and ends.  Neither the pool nor Google is part of a circle that
\* nobody would find, though the pool may be used up by requests that wait for rows.
OnlyRowsMakeCircles ==
    Running /\ (\E r \in Request : Active(r) /\ ~ IsNext(r, "google"))
        => \/ \E r \in Request : Active(r) /\ ~ Blocked(r)
           \/ \E D \in SUBSET Request : WaitForEachOther(D)

\* Requests that do not wait for Google are answered, however many wait for the
\* pool, for rows, in circles or not, or for Google, and without help of a deadline:
\* nobody holds a connection while asking for a second one, or while asking Google,
\* and whose transaction PostgreSQL ends is answered and not begun again.
Progress ==
    \A r \in Watched :
        (Active(r) /\ \A n \in DOMAIN req[r].plan : req[r].plan[n] # "google")
            ~> (~ Active(r) \/ phase = "exited")

\* A signal ends the process, whatever the requests under way wait for.
ShutdownEnds == phase \in {"draining", "closing"} ~> phase = "exited"
=============================================================================
