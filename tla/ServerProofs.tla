---------------------------- MODULE ServerProofs ----------------------------
(***************************************************************************)
(* Theorems about Server for every number of requests and connections.     *)
(***************************************************************************)
EXTENDS Server, FiniteSetTheorems, SequenceTheorems, TLAPS

-----------------------------------------------------------------------------
\* The pool is closed without an error only after Shutdown saw every request
\* answered, and from then on none arrives.  What a slot holds does not matter,
\* so that no type is asked of it.
Inv ==
    /\ phase \in Phase
    /\ failed \in BOOLEAN
    /\ req = [r \in Request |-> req[r]]
    /\ phase \in {"closing", "exited"} /\ ~ failed => \A r \in Request : ~ Active(r)
    /\ phase = "exited" /\ ~ failed => cut = {}

LEMMA InitInv == Init => Inv
  BY DEF Init, Inv, Phase, Active

\* A step of a request is taken by one that is there, or before the shutdown.
LEMMA RequestKeeps ==
    ASSUME Inv, NEW r \in Request, NEW x,
           Active(r) \/ phase = "serving",
           req' = [req EXCEPT ![r] = x],
           UNCHANGED <<phase, failed, cut>>
    PROVE  Inv'
  BY DEF Inv, Active

LEMMA ArriveKeeps ==
    ASSUME Inv, NEW r \in Request, Arrive(r)
    PROVE  Inv'
  BY RequestKeeps DEF Arrive

LEMMA ProceedKeeps ==
    ASSUME Inv, NEW r \in Request, Proceed(r) \/ GoogleAnswers(r) \/ GiveUp(r)
    PROVE  Inv'
  <1>1. \A step : IsNext(r, step) => Active(r)
    BY DEF IsNext
  <1>2. CASE Acquire(r)
    <2>1. PICK x : req' = [req EXCEPT ![r] = x]
      BY <1>2 DEF Acquire
    <2>2. Active(r)
      BY <1>1, <1>2 DEF Acquire, Asks
    <2>3. QED
      BY <1>2, <2>1, <2>2, RequestKeeps DEF Acquire
  <1>3. CASE Statement(r)
    BY <1>3, RequestKeeps DEF Statement
  <1>4. CASE ReachRow(r) \/ LockRow(r) \/ Commit(r)
    <2>1. PICK x : req' = [req EXCEPT ![r] = x]
      BY <1>4 DEF ReachRow, LockRow, Commit
    <2>2. Active(r)
      BY <1>1, <1>4 DEF ReachRow, LockRow, Commit
    <2>3. QED
      BY <1>4, <2>1, <2>2, RequestKeeps DEF ReachRow, LockRow, Commit
  <1>5. CASE DeadlockVictim(r)
    <2>1. Active(r)
      BY <1>5 DEF DeadlockVictim, Deadlock, WaitForEachOther, WaitsFor, Wants
    <2>2. QED
      BY <1>5, <2>1, RequestKeeps DEF DeadlockVictim
  <1>6. CASE Respond(r)
    BY <1>6, RequestKeeps DEF Respond
  <1>7. CASE PoolClosed(r)
    BY <1>1, <1>7, RequestKeeps DEF PoolClosed, Asks
  <1>8. CASE GoogleAnswers(r)
    BY <1>1, <1>8, RequestKeeps DEF GoogleAnswers
  <1>9. CASE GiveUp(r)
    BY <1>9, RequestKeeps DEF GiveUp
  <1>10. QED
    BY <1>2, <1>3, <1>4, <1>5, <1>6, <1>7, <1>8, <1>9 DEF Proceed

LEMMA LifecycleKeeps ==
    ASSUME Inv, Connect \/ ListenFails \/ Signal \/ Lifecycle
    PROVE  Inv'
  <1>1. CASE Connect
    BY <1>1 DEF Inv, Connect, Phase, Active
  <1>2. CASE ListenFails
    BY <1>2 DEF Inv, ListenFails, Phase, Active
  <1>3. CASE Signal
    BY <1>3 DEF Inv, Signal, Phase, Active
  <1>4. CASE ShutdownReturns
    BY <1>4 DEF Inv, ShutdownReturns, Drained, Phase, Active
  <1>5. CASE ShutdownTimesOut
    BY <1>5 DEF Inv, ShutdownTimesOut, Phase, Active
  <1>6. CASE Exit
    BY <1>6 DEF Inv, Exit, Phase, Active
  <1>7. QED
    BY <1>1, <1>2, <1>3, <1>4, <1>5, <1>6 DEF Lifecycle

LEMMA StutterKeeps == Inv /\ UNCHANGED vars => Inv'
  BY DEF Inv, vars, Active

\* The invariant holds in every reachable state, whatever the numbers of
\* requests and connections.
THEOREM Invariance == Spec => []Inv
  <1>1. Inv /\ [Next]_vars => Inv'
    BY ArriveKeeps, ProceedKeeps, LifecycleKeeps, StutterKeeps DEF Next
  <1>2. QED
    BY InitInv, <1>1, PTL DEF Spec

\* run() returns without an error only if it cut off no request: the other ways
\* out, a listener that fails and a drain that takes too long, are errors.
THEOREM CleanExit == Spec => []CleanExitCutsNobody
  <1>1. Inv => CleanExitCutsNobody
    BY DEF Inv, CleanExitCutsNobody
  <1>2. QED
    BY <1>1, Invariance, PTL

-----------------------------------------------------------------------------
\* Plans.  What is special about a plan is how its transaction lies in it: at the
\* end and in one piece, so that between "begin" and "commit" nothing is asked of
\* the pool or of Google.

Plain == {"query", "update", "google"}

\* No transaction is open.
Outside == Seq(Plain) \union {first \o Transaction : first \in Seq(Plain)}

\* One is.
Inside == {<<"commit">>}

\* Both kinds in one form: plain steps and then nothing, or a transaction.
LEMMA OutsideForm ==
    ASSUME NEW plan
    PROVE  plan \in Outside <=>
             \E first \in Seq(Plain), rest \in {<<>>, Transaction} : plan = first \o rest
  <1>1. \A first \in Seq(Plain) : first \o <<>> = first
    OBVIOUS
  <1>2. QED
    BY <1>1, Zenon DEF Outside

LEMMA RestIsSeq ==
    ASSUME NEW rest \in {<<>>, Transaction}
    PROVE  rest \in Seq({"begin", "commit"})
  <1>1. <<>> \in Seq({"begin", "commit"})
    OBVIOUS
  <1>2. <<"begin", "commit">> \in Seq({"begin", "commit"})
    OBVIOUS
  <1>3. QED
    BY <1>1, <1>2, Zenon DEF Transaction

LEMMA PlainFirst ==
    ASSUME NEW first \in Seq(Plain), NEW plan \in Outside
    PROVE  first \o plan \in Outside
  <1>1. PICK more \in Seq(Plain), rest \in {<<>>, Transaction} : plan = more \o rest
    BY OutsideForm
  <1>2. rest \in Seq({"begin", "commit"})
    BY RestIsSeq
  <1>3. first \o (more \o rest) = (first \o more) \o rest
    BY <1>2
  <1>4. first \o more \in Seq(Plain)
    OBVIOUS
  <1>5. (first \o more) \o rest \in Outside
    BY <1>4, OutsideForm
  <1>6. QED
    BY <1>1, <1>3, <1>5, Zenon

LEMMA EmptyIsPlain == <<>> \in Seq(Plain)
  OBVIOUS

LEMMA TransactionIsOutside == Transaction \in Outside
  <1>1. <<>> \o Transaction \in Outside
    BY EmptyIsPlain, Zenon DEF Outside
  <1>2. <<>> \o Transaction = Transaction
    BY DEF Transaction
  <1>3. QED
    BY <1>1, <1>2, Zenon

LEMMA PlainIsOutside ==
    ASSUME NEW plan \in Seq(Plain)
    PROVE  plan \in Outside
  BY Zenon DEF Outside

LEMMA RoutesAreOutside == Routes \subseteq Outside
  <1>1. /\ <<"query">> \in Seq(Plain)
        /\ <<"update">> \in Seq(Plain)
        /\ <<"query", "query">> \in Seq(Plain)
        /\ <<"query", "update">> \in Seq(Plain)
        /\ <<"query", "query", "query">> \in Seq(Plain)
        /\ <<"query", "update", "update">> \in Seq(Plain)
        /\ <<"update", "query", "google">> \in Seq(Plain)
        /\ <<>> \in Seq(Plain)
    BY DEF Plain
  <1>2. {Signup, Refresh} \subseteq Outside
    BY TransactionIsOutside DEF Signup, Refresh
  <1>3. {Login, RequestOTP} \subseteq Outside
    BY <1>1, TransactionIsOutside, PlainFirst DEF Login, RequestOTP
  <1>4. {Logout, Me, StartGoogleOAuth, handleHealth, handleReady} \subseteq Outside
    BY <1>1, PlainIsOutside DEF Logout, Me, StartGoogleOAuth, handleHealth, handleReady
  <1>5. {HandleGoogleCallback, ExchangeAuthCode} \subseteq Outside
    BY <1>1, TransactionIsOutside, PlainFirst DEF HandleGoogleCallback, ExchangeAuthCode
  <1>6. VerifyOTP \subseteq Outside
    <2>1. <<"query", "update", "update">> \in Outside
      BY <1>1, PlainIsOutside
    <2>2. <<"query">> \o Transaction \in Outside
      BY <1>1, TransactionIsOutside, PlainFirst
    <2>3. QED
      BY <2>1, <2>2 DEF VerifyOTP
  <1>7. \A plan \in Outside : requireProject \o plan \in Outside
    BY <1>1, PlainFirst DEF requireProject
  <1>8. {handleSignup, handleLogin, handleOTPRequest, handleRefresh, handleLogout,
         handleMe, handleGoogleStart, handleOAuthExchange, handleGoogleCallback}
            \subseteq Outside
    BY <1>2, <1>3, <1>4, <1>5, <1>7 DEF handleSignup, handleLogin, handleOTPRequest,
       handleRefresh, handleLogout, handleMe, handleGoogleStart, handleOAuthExchange,
       handleGoogleCallback
  <1>9. handleOTPVerify \subseteq Outside
    BY <1>6, <1>7 DEF handleOTPVerify
  <1>10. QED
    BY <1>4, <1>8, <1>9 DEF Routes

\* What follows the first step of a plan.
LEMMA RestOfPlan ==
    ASSUME NEW plan \in Outside, plan # <<>>
    PROVE  \/ Head(plan) \in Plain /\ Tail(plan) \in Outside
           \/ Head(plan) = "begin" /\ Tail(plan) = <<"commit">>
  <1>1. PICK first \in Seq(Plain), rest \in {<<>>, Transaction} : plan = first \o rest
    BY OutsideForm
  <1>2. CASE first = <<>>
    <2>1. plan = Transaction
      BY <1>1, <1>2 DEF Transaction
    <2>2. QED
      BY <2>1 DEF Transaction
  <1>3. CASE first # <<>>
    <2>1. rest \in Seq({"begin", "commit"})
      BY RestIsSeq
    <2>2. Head(first) \in Plain /\ Tail(first) \in Seq(Plain)
      BY <1>3
    <2>3. Head(first \o rest) = Head(first) /\ Tail(first \o rest) = Tail(first) \o rest
      BY <1>3, <2>1
    <2>4. Tail(first) \o rest \in Outside
      BY <2>2, OutsideForm
    <2>5. QED
      BY <1>1, <2>2, <2>3, <2>4
  <1>4. QED
    BY <1>2, <1>3

-----------------------------------------------------------------------------
\* What a slot holds follows from what it has left to do: the transaction's
\* connection exactly inside a transaction, row locks never without it, and whoever
\* waits for a row has a connection already.
SlotRecord ==
    [plan : Outside \union Inside, stmt : BOOLEAN, tx : BOOLEAN, rows : SUBSET Row,
     wants : Row \union {None}]

Slot(x) ==
    /\ x \in SlotRecord
    /\ x.tx => x.plan \in Inside
    /\ ~ x.tx => x.plan \in Outside
    /\ x.stmt => x.plan # <<>> /\ Head(x.plan) \in {"query", "update"}
    /\ x.rows # {} => x.tx
    /\ x.wants # None => x.tx \/ x.stmt

SlotInv ==
    /\ req = [r \in Request |-> req[r]]
    /\ phase = "connecting" => \A r \in Request : ~ Active(r)
    /\ \A r \in Request : Active(r) => Slot(req[r])
    /\ ExitCutsNoTransaction

LEMMA SlotInitInv == Init => SlotInv
  BY DEF Init, SlotInv, Active, ExitCutsNoTransaction

\* A slot of its kind, or an empty one, may take the place of another.
LEMMA SlotChange ==
    ASSUME SlotInv, phase \notin {"connecting", "exited"}, phase' = phase,
           NEW r \in Request, NEW x, Slot(x) \/ x = None,
           req' = [req EXCEPT ![r] = x]
    PROVE  SlotInv'
  <1>1. req' = [q \in Request |-> IF q = r THEN x ELSE req[q]]
    BY DEF SlotInv
  <1>2. req' = [q \in Request |-> req'[q]]
    BY <1>1
  <1>3. \A q \in Request : Active(q)' => Slot(req'[q])
    BY <1>1 DEF SlotInv, Active
  <1>4. QED
    BY <1>2, <1>3 DEF SlotInv, ExitCutsNoTransaction

\* The slots of the steps of a plan, by its first step.
LEMMA SlotSteps ==
    ASSUME NEW x, Slot(x), x.plan # <<>>
    PROVE  /\ Head(x.plan) = "begin" => Slot([x EXCEPT !.plan = Tail(@), !.tx = TRUE])
           /\ Head(x.plan) = "query" => Slot([x EXCEPT !.stmt = TRUE])
           /\ Head(x.plan) = "update" =>
                \A row \in Row : Slot([x EXCEPT !.stmt = TRUE, !.wants = row])
           /\ Head(x.plan) \in {"query", "update"} =>
                Slot([x EXCEPT !.plan = Tail(@), !.stmt = FALSE, !.wants = None])
           /\ Head(x.plan) = "google" => Slot([x EXCEPT !.plan = Tail(@)])
           /\ Head(x.plan) = "commit" =>
                /\ \A row \in Row : Slot([x EXCEPT !.wants = row])
                /\ x.wants # None =>
                     Slot([x EXCEPT !.rows = @ \union {x.wants}, !.wants = None])
                /\ x.wants = None =>
                     Slot([x EXCEPT !.plan = Tail(@), !.tx = FALSE, !.rows = {}])
  <1> DEFINE rest == Tail(x.plan)
  <1> DEFINE head == Head(x.plan)
  <1>1. /\ x \in SlotRecord
        /\ x.stmt => head \in {"query", "update"}
        /\ x.rows # {} => x.tx
        /\ x.wants # None => x.tx \/ x.stmt
    BY DEF Slot
  <1>2. x.tx => head = "commit" /\ rest = <<>>
    <2>1. Head(<<"commit">>) = "commit" /\ Tail(<<"commit">>) = <<>>
      OBVIOUS
    <2>2. QED
      BY <2>1, Zenon DEF Slot, Inside
  <1>3. ~ x.tx => \/ head \in Plain /\ rest \in Outside
                  \/ head = "begin" /\ rest = <<"commit">>
    BY RestOfPlan, Zenon DEF Slot
  <1>4. <<>> \in Outside /\ <<"commit">> \in Inside
    BY EmptyIsPlain, PlainIsOutside, Zenon DEF Inside
  <1>5. /\ x.tx => x.plan \in Inside
        /\ ~ x.tx => x.plan \in Outside
    BY DEF Slot
  <1> HIDE DEF rest, head
  <1>6. ASSUME head = "begin"
       PROVE  Slot([x EXCEPT !.plan = Tail(@), !.tx = TRUE])
    <2> DEFINE y == [x EXCEPT !.plan = Tail(@), !.tx = TRUE]
    <2>1. rest \in Outside \union Inside
      BY <1>1, <1>2, <1>3, <1>4, <1>5, <1>6 DEF Plain
    <2>2. /\ y \in SlotRecord
          /\ y.plan = rest /\ y.stmt = x.stmt /\ y.tx = TRUE
          /\ y.rows = x.rows /\ y.wants = x.wants
      BY <1>1, <1>6, <2>1 DEF SlotRecord, rest
    <2> HIDE DEF y
    <2>3. Slot(y)
      BY <1>1, <1>2, <1>3, <1>4, <1>5, <1>6, <2>2 DEF Slot, Plain
    <2>4. QED
      BY <2>3 DEF y
  <1>7. ASSUME head = "query"
       PROVE  Slot([x EXCEPT !.stmt = TRUE])
    <2> DEFINE y == [x EXCEPT !.stmt = TRUE]
    <2>1. x.plan \in Outside \union Inside
      BY <1>1, <1>2, <1>3, <1>4, <1>5, <1>7 DEF Plain, head
    <2>2. /\ y \in SlotRecord
          /\ y.plan = x.plan /\ y.stmt = TRUE /\ y.tx = x.tx
          /\ y.rows = x.rows /\ y.wants = x.wants
      BY <1>1, <1>7, <2>1 DEF SlotRecord, rest
    <2> HIDE DEF y
    <2>3. Slot(y)
      BY <1>1, <1>2, <1>3, <1>4, <1>5, <1>7, <2>2 DEF Slot, Plain, head
    <2>4. QED
      BY <2>3 DEF y
  <1>8. ASSUME head = "update", NEW row \in Row
       PROVE  Slot([x EXCEPT !.stmt = TRUE, !.wants = row])
    <2> DEFINE y == [x EXCEPT !.stmt = TRUE, !.wants = row]
    <2>1. x.plan \in Outside \union Inside
      BY <1>1, <1>2, <1>3, <1>4, <1>5, <1>8 DEF Plain, head
    <2>2. /\ y \in SlotRecord
          /\ y.plan = x.plan /\ y.stmt = TRUE /\ y.tx = x.tx
          /\ y.rows = x.rows /\ y.wants = row
      BY <1>1, <1>8, <2>1 DEF SlotRecord, rest
    <2> HIDE DEF y
    <2>3. Slot(y)
      BY <1>1, <1>2, <1>3, <1>4, <1>5, <1>8, <2>2 DEF Slot, Plain, head
    <2>4. QED
      BY <2>3 DEF y
  <1>9. ASSUME head \in {"query", "update"}
       PROVE  Slot([x EXCEPT !.plan = Tail(@), !.stmt = FALSE, !.wants = None])
    <2> DEFINE y == [x EXCEPT !.plan = Tail(@), !.stmt = FALSE, !.wants = None]
    <2>1. rest \in Outside \union Inside
      BY <1>1, <1>2, <1>3, <1>4, <1>5, <1>9 DEF Plain
    <2>2. /\ y \in SlotRecord
          /\ y.plan = rest /\ y.stmt = FALSE /\ y.tx = x.tx
          /\ y.rows = x.rows /\ y.wants = None
      BY <1>1, <1>9, <2>1 DEF SlotRecord, rest
    <2> HIDE DEF y
    <2>3. Slot(y)
      BY <1>1, <1>2, <1>3, <1>4, <1>5, <1>9, <2>2 DEF Slot, Plain
    <2>4. QED
      BY <2>3 DEF y
  <1>10. ASSUME head = "google"
       PROVE  Slot([x EXCEPT !.plan = Tail(@)])
    <2> DEFINE y == [x EXCEPT !.plan = Tail(@)]
    <2>1. rest \in Outside \union Inside
      BY <1>1, <1>2, <1>3, <1>4, <1>5, <1>10 DEF Plain
    <2>2. /\ y \in SlotRecord
          /\ y.plan = rest /\ y.stmt = x.stmt /\ y.tx = x.tx
          /\ y.rows = x.rows /\ y.wants = x.wants
      BY <1>1, <1>10, <2>1 DEF SlotRecord, rest
    <2> HIDE DEF y
    <2>3. Slot(y)
      BY <1>1, <1>2, <1>3, <1>4, <1>5, <1>10, <2>2 DEF Slot, Plain
    <2>4. QED
      BY <2>3 DEF y
  <1>11. ASSUME head = "commit", NEW row \in Row
       PROVE  Slot([x EXCEPT !.wants = row])
    <2> DEFINE y == [x EXCEPT !.wants = row]
    <2>1. x.plan \in Outside \union Inside
      BY <1>1, <1>2, <1>3, <1>4, <1>5, <1>11 DEF Plain, head
    <2>2. /\ y \in SlotRecord
          /\ y.plan = x.plan /\ y.stmt = x.stmt /\ y.tx = x.tx
          /\ y.rows = x.rows /\ y.wants = row
      BY <1>1, <1>11, <2>1 DEF SlotRecord, rest
    <2> HIDE DEF y
    <2>3. Slot(y)
      BY <1>1, <1>2, <1>3, <1>4, <1>5, <1>11, <2>2 DEF Slot, Plain, head
    <2>4. QED
      BY <2>3 DEF y
  <1>12. ASSUME head = "commit", x.wants # None
       PROVE  Slot([x EXCEPT !.rows = @ \union {x.wants}, !.wants = None])
    <2> DEFINE y == [x EXCEPT !.rows = @ \union {x.wants}, !.wants = None]
    <2>1. x.plan \in Outside \union Inside
      BY <1>1, <1>2, <1>3, <1>4, <1>5, <1>12 DEF Plain, head
    <2>2. /\ y \in SlotRecord
          /\ y.plan = x.plan /\ y.stmt = x.stmt /\ y.tx = x.tx
          /\ y.rows = x.rows \union {x.wants} /\ y.wants = None
      BY <1>1, <1>12, <2>1 DEF SlotRecord, rest
    <2> HIDE DEF y
    <2>3. Slot(y)
      BY <1>1, <1>2, <1>3, <1>4, <1>5, <1>12, <2>2 DEF Slot, Plain, head
    <2>4. QED
      BY <2>3 DEF y
  <1>13. ASSUME head = "commit", x.wants = None
       PROVE  Slot([x EXCEPT !.plan = Tail(@), !.tx = FALSE, !.rows = {}])
    <2> DEFINE y == [x EXCEPT !.plan = Tail(@), !.tx = FALSE, !.rows = {}]
    <2>1. rest \in Outside \union Inside
      BY <1>1, <1>2, <1>3, <1>4, <1>5, <1>13 DEF Plain
    <2>2. /\ y \in SlotRecord
          /\ y.plan = rest /\ y.stmt = x.stmt /\ y.tx = FALSE
          /\ y.rows = {} /\ y.wants = x.wants
      BY <1>1, <1>13, <2>1 DEF SlotRecord, rest
    <2> HIDE DEF y
    <2>3. Slot(y)
      BY <1>1, <1>2, <1>3, <1>4, <1>5, <1>13, <2>2 DEF Slot, Plain
    <2>4. QED
      BY <2>3 DEF y
  <1>14. QED
    BY <1>6, <1>7, <1>8, <1>9, <1>10, <1>11, <1>12, <1>13 DEF head

LEMMA ArriveKeepsSlots ==
    ASSUME SlotInv, NEW r \in Request, Arrive(r)
    PROVE  SlotInv'
  <1>1. PICK route \in Routes : req' = [req EXCEPT ![r] = Serving(route)]
    BY DEF Arrive
  <1>2. Slot(Serving(route))
    BY RoutesAreOutside DEF Slot, SlotRecord, Serving
  <1>3. QED
    BY <1>1, <1>2, SlotChange DEF Arrive

LEMMA AcquireKeepsSlots ==
    ASSUME SlotInv, NEW r \in Request, Acquire(r)
    PROVE  SlotInv'
  <1>1. Active(r) => Slot(req[r])
    BY DEF SlotInv
  <1>2. ASSUME NEW x, Slot(x), req' = [req EXCEPT ![r] = x]
        PROVE  SlotInv'
    BY <1>2, SlotChange DEF Acquire
  <1>3. CASE IsNext(r, "begin") /\ req' = [req EXCEPT ![r] = [Step(r) EXCEPT !.tx = TRUE]]
    <2>1. Slot([req[r] EXCEPT !.plan = Tail(@), !.tx = TRUE])
      BY <1>1, <1>3, SlotSteps DEF IsNext
    <2>2. QED
      BY <1>2, <1>3, <2>1 DEF Step
  <1>4. CASE IsNext(r, "query") /\ req' = [req EXCEPT ![r] = [req[r] EXCEPT !.stmt = TRUE]]
    <2>1. Slot([req[r] EXCEPT !.stmt = TRUE])
      BY <1>1, <1>4, SlotSteps DEF IsNext
    <2>2. QED
      BY <1>2, <1>4, <2>1
  <1>5. ASSUME IsNext(r, "update"), NEW row \in Row,
               req' = [req EXCEPT ![r] = [req[r] EXCEPT !.stmt = TRUE, !.wants = row]]
        PROVE  SlotInv'
    <2>1. Slot([req[r] EXCEPT !.stmt = TRUE, !.wants = row])
      BY <1>1, <1>5, SlotSteps DEF IsNext
    <2>2. QED
      BY <1>2, <1>5, <2>1
  <1>6. QED
    BY <1>3, <1>4, <1>5 DEF Acquire

LEMMA StepKeepsSlots ==
    ASSUME SlotInv, NEW r \in Request,
           \/ Statement(r) \/ ReachRow(r) \/ LockRow(r) \/ Commit(r)
           \/ GoogleAnswers(r)
    PROVE  SlotInv'
  <1>1. Active(r) => Slot(req[r])
    BY DEF SlotInv
  <1>2. ASSUME NEW x, Slot(x), req' = [req EXCEPT ![r] = x]
        PROVE  SlotInv'
    BY <1>2, SlotChange DEF Statement, ReachRow, LockRow, Commit, GoogleAnswers, Running
  <1>3. CASE Statement(r)
    <2>1. Slot([req[r] EXCEPT !.plan = Tail(@), !.stmt = FALSE, !.wants = None])
      BY <1>1, <1>3, SlotSteps DEF Statement, Slot
    <2>2. QED
      BY <1>2, <1>3, <2>1 DEF Statement, Step
  <1>4. CASE ReachRow(r)
    <2>1. PICK row \in Row : req' = [req EXCEPT ![r] = [req[r] EXCEPT !.wants = row]]
      BY <1>4 DEF ReachRow
    <2>2. Slot([req[r] EXCEPT !.wants = row])
      BY <1>1, <1>4, SlotSteps DEF ReachRow, IsNext
    <2>3. QED
      BY <1>2, <2>1, <2>2
  <1>5. CASE LockRow(r)
    <2>1. Slot([req[r] EXCEPT !.rows = @ \union {req[r].wants}, !.wants = None])
      BY <1>1, <1>5, SlotSteps DEF LockRow, IsNext, Wants
    <2>2. QED
      BY <1>2, <1>5, <2>1 DEF LockRow
  <1>6. CASE Commit(r)
    <2>1. Slot([req[r] EXCEPT !.plan = Tail(@), !.tx = FALSE, !.rows = {}])
      BY <1>1, <1>6, SlotSteps DEF Commit, IsNext, Wants
    <2>2. QED
      BY <1>2, <1>6, <2>1 DEF Commit, Step
  <1>7. CASE GoogleAnswers(r)
    <2>1. Slot([req[r] EXCEPT !.plan = Tail(@)])
      BY <1>1, <1>7, SlotSteps DEF GoogleAnswers, IsNext
    <2>2. QED
      BY <1>2, <1>7, <2>1 DEF GoogleAnswers, Step
  <1>8. QED
    BY <1>3, <1>4, <1>5, <1>6, <1>7

LEMMA EndKeepsSlots ==
    ASSUME SlotInv, NEW r \in Request,
           DeadlockVictim(r) \/ Respond(r) \/ PoolClosed(r) \/ GiveUp(r)
    PROVE  SlotInv'
  BY SlotChange DEF DeadlockVictim, Respond, PoolClosed, GiveUp, Running

LEMMA LifecycleKeepsSlots ==
    ASSUME SlotInv, Connect \/ ListenFails \/ Signal \/ Lifecycle
    PROVE  SlotInv'
  <1>1. req' = req
    BY DEF Connect, ListenFails, Signal, Lifecycle, ShutdownReturns,
       ShutdownTimesOut, Exit
  <1>2. phase' = "connecting" => phase = "connecting"
    BY DEF Connect, ListenFails, Signal, Lifecycle, ShutdownReturns,
       ShutdownTimesOut, Exit
  <1>3. ExitCutsNoTransaction'
    <2>1. CASE Connect
      BY <1>1, <2>1 DEF Connect, SlotInv, ExitCutsNoTransaction, Active
    <2>2. CASE Exit
      BY <1>1, <2>2 DEF Exit, PoolEmpty, SlotInv, Slot, ExitCutsNoTransaction, Active
    <2>3. CASE ListenFails \/ Signal \/ ShutdownReturns \/ ShutdownTimesOut
      BY <2>3 DEF ListenFails, Signal, ShutdownReturns, ShutdownTimesOut,
         ExitCutsNoTransaction
    <2>4. QED
      BY <2>1, <2>2, <2>3 DEF Lifecycle
  <1>4. QED
    BY <1>1, <1>2, <1>3 DEF SlotInv, Active

LEMMA StutterKeepsSlots == SlotInv /\ UNCHANGED vars => SlotInv'
  BY DEF SlotInv, vars, Active, ExitCutsNoTransaction

\* The slots keep this in every reachable state.
THEOREM SlotInvariance == Spec => []SlotInv
  <1>1. SlotInv /\ [Next]_vars => SlotInv'
    BY ArriveKeepsSlots, AcquireKeepsSlots, StepKeepsSlots, EndKeepsSlots, LifecycleKeepsSlots,
       StutterKeepsSlots DEF Next, Proceed
  <1>2. QED
    BY SlotInitInv, <1>1, PTL DEF Spec

\* The end of the process cuts no statement and no transaction, whatever the
\* numbers of requests and connections: pool.Close waits for the connections,
\* and who has none has no row lock.
THEOREM WholeTransactions == Spec => []ExitCutsNoTransaction
  <1>1. SlotInv => ExitCutsNoTransaction
    BY DEF SlotInv
  <1>2. QED
    BY SlotInvariance, <1>1, PTL

-----------------------------------------------------------------------------
\* Who holds a lock or a connection waits for rows at most, never for Google and
\* never for another connection.  Where nobody can go on, the waits therefore end in
\* a circle of requests each of which waits for a row of another one.

\* A request that holds something and cannot go on waits for a row.
LEMMA HolderWaitsForRow ==
    ASSUME SlotInv, NEW r \in Request, Active(r), req[r].stmt \/ req[r].tx, Blocked(r)
    PROVE  ~ RowFree(r)
  <1>1. CASE req[r].stmt
    <2>1. Head(req[r].plan) \in {"query", "update"}
      BY <1>1 DEF SlotInv, Slot
    <2>2. QED
      BY <1>1, <2>1 DEF Blocked, Asks, IsNext
  <1>2. CASE req[r].tx
    <2>1. req[r].plan = <<"commit">>
      BY <1>2 DEF SlotInv, Slot, Inside
    <2>2. Head(req[r].plan) = "commit"
      BY <2>1
    <2>3. QED
      BY <2>2 DEF Blocked, Asks, IsNext
  <1>3. QED
    BY <1>1, <1>2

\* A pool that is used up is used by somebody.
LEMMA FullPoolHasHolder ==
    ASSUME InUse >= MaxConns
    PROVE  \E q \in Request : Active(q) /\ (req[q].stmt \/ req[q].tx)
  <1>1. SUFFICES ASSUME \A r \in Request : ~ (Active(r) /\ (req[r].stmt \/ req[r].tx))
                 PROVE  FALSE
    OBVIOUS
  <1>2. /\ {r \in Request : Active(r) /\ req[r].stmt} = {}
        /\ {r \in Request : Active(r) /\ req[r].tx} = {}
    BY <1>1
  <1>3. InUse = 0
    <2>1. Cardinality({}) = 0
      BY FS_EmptySet
    <2>2. InUse = Cardinality({}) + Cardinality({})
      BY <1>2, Zenon DEF InUse
    <2>3. QED
      BY <2>1, <2>2
  <1>4. QED
    BY <1>3, PoolNotEmpty

LEMMA CirclesAreOfRows == SlotInv => OnlyRowsMakeCircles
  <1> SUFFICES ASSUME SlotInv, NEW r \in Request, Active(r), ~ IsNext(r, "google"),
                      \A q \in Request : Active(q) => Blocked(q)
               PROVE  \E D \in SUBSET Request : WaitForEachOther(D)
    BY DEF OnlyRowsMakeCircles
  <1> DEFINE D == {q \in Request : ~ RowFree(q)}
  <1>1. \A q \in Request : Active(q) /\ (req[q].stmt \/ req[q].tx) => q \in D
    BY HolderWaitsForRow
  <1>2. D # {}
    <2>1. CASE RowFree(r)
      <3>1. InUse >= MaxConns
        BY <2>1 DEF Blocked
      <3>2. QED
        BY <1>1, <3>1, FullPoolHasHolder
    <2>2. CASE ~ RowFree(r)
      BY <2>2
    <2>3. QED
      BY <2>1, <2>2
  <1>3. ASSUME NEW p \in D PROVE \E q \in D : WaitsFor(p, q)
    <2>1. PICK q \in Request : WaitsFor(p, q)
      BY DEF RowFree
    <2>2. Active(q) /\ req[q].tx
      BY <2>1 DEF WaitsFor, SlotInv, Slot
    <2>3. QED
      BY <1>1, <2>1, <2>2
  <1>4. WaitForEachOther(D)
    BY <1>2, <1>3 DEF WaitForEachOther
  <1>5. QED
    BY <1>4

\* The part of Progress that needs no fairness: where nobody can go on, it is for
\* row locks alone, which PostgreSQL watches, for any number of requests, connections
\* and rows, whatever routes they take and in whatever order they lock.
THEOREM NoHiddenCircle == Spec => []OnlyRowsMakeCircles
  BY SlotInvariance, CirclesAreOfRows, PTL

-----------------------------------------------------------------------------
\* Types.

AnyStep == Plain \union {"begin", "commit"}

Short(n) == {plan \in Seq(AnyStep) : Len(plan) <= n}

LEMMA LongerByOne ==
    ASSUME NEW a \in AnyStep, NEW n \in Nat, NEW plan \in Short(n)
    PROVE  <<a>> \o plan \in Short(n + 1)
  BY DEF Short

LEMMA LongerByTwo ==
    ASSUME NEW first \in Short(3), NEW plan \in Short(2)
    PROVE  first \o plan \in Short(5)
  BY DEF Short

LEMMA RoutesAreShort == Routes \subseteq Short(6)
  <1>1. /\ <<"query">> \in Short(3)
        /\ <<"update">> \in Short(3)
        /\ <<"query", "query">> \in Short(3)
        /\ <<"query", "update">> \in Short(3)
        /\ <<"query", "query", "query">> \in Short(3)
        /\ <<"query", "update", "update">> \in Short(3)
        /\ <<"update", "query", "google">> \in Short(3)
        /\ <<>> \in Short(3)
        /\ Transaction \in Short(2)
    BY DEF Short, AnyStep, Plain, Transaction
  <1>2. Short(2) \subseteq Short(3) /\ Short(3) \subseteq Short(5) /\ Short(5) \subseteq Short(6)
    BY DEF Short
  <1>3. {Signup, Refresh, Logout, Me, StartGoogleOAuth, handleHealth, handleReady}
            \subseteq Short(5)
    BY <1>1, <1>2 DEF Signup, Refresh, Logout, Me, StartGoogleOAuth, handleHealth,
       handleReady
  <1>4. {Login, RequestOTP, HandleGoogleCallback, ExchangeAuthCode} \subseteq Short(5)
    BY <1>1, LongerByTwo DEF Login, RequestOTP, HandleGoogleCallback, ExchangeAuthCode
  <1>5. VerifyOTP \subseteq Short(5)
    BY <1>1, <1>2, LongerByTwo DEF VerifyOTP
  <1>6. \A plan \in Short(5) : requireProject \o plan \in Short(6)
    BY LongerByOne DEF requireProject, AnyStep, Plain
  <1>7. {handleSignup, handleLogin, handleOTPRequest, handleRefresh, handleLogout,
         handleMe, handleGoogleStart, handleOAuthExchange} \subseteq Short(6)
    BY <1>3, <1>4, <1>6 DEF handleSignup, handleLogin, handleOTPRequest,
       handleRefresh, handleLogout, handleMe, handleGoogleStart, handleOAuthExchange
  <1>8. handleGoogleCallback \in Short(6)
    BY <1>2, <1>4 DEF handleGoogleCallback
  <1>9. handleOTPVerify \subseteq Short(6)
    BY <1>5, <1>6 DEF handleOTPVerify
  <1>10. QED
    BY <1>2, <1>3, <1>7, <1>8, <1>9 DEF Routes

LEMMA PlanForm ==
    ASSUME NEW plan
    PROVE  plan \in Plan <=>
             \E route \in Routes : \E n \in 1 .. 7 : plan = SubSeq(route, n, Len(route))
  <1> DEFINE Of(route) == {SubSeq(route, n, Len(route)) : n \in 1 .. 7}
  <1>1. \A route : plan \in Of(route) <=>
                     \E n \in 1 .. 7 : plan = SubSeq(route, n, Len(route))
    OBVIOUS
  <1>2. Plan = UNION {Of(route) : route \in Routes}
    BY Zenon DEF Plan
  <1> HIDE DEF Of
  <1>3. plan \in Plan <=> \E route \in Routes : plan \in Of(route)
    BY <1>2, Zenon
  <1>4. QED
    BY <1>1, <1>3, Zenon

LEMMA RouteLength ==
    ASSUME NEW route \in Routes
    PROVE  route \in Seq(AnyStep) /\ Len(route) \in Nat /\ Len(route) <= 6
  <1>1. route \in Short(6)
    BY RoutesAreShort
  <1>2. QED
    BY <1>1 DEF Short

\* Routes are plans, and so is what follows the first step of a plan.
LEMMA PlansAreClosed ==
    /\ Routes \subseteq Plan
    /\ \A plan \in Plan : plan # <<>> => Tail(plan) \in Plan
  <1>1. ASSUME NEW route \in Routes PROVE route \in Plan
    <2>1. route = SubSeq(route, 1, Len(route))
      BY RouteLength
    <2>2. 1 \in 1 .. 7
      OBVIOUS
    <2>3. QED
      BY <2>1, <2>2, PlanForm
  <1>2. ASSUME NEW plan \in Plan, plan # <<>> PROVE Tail(plan) \in Plan
    <2>1. PICK route \in Routes : \E n \in 1 .. 7 : plan = SubSeq(route, n, Len(route))
      BY PlanForm
    <2>2. PICK n \in 1 .. 7 : plan = SubSeq(route, n, Len(route))
      BY <2>1
    <2>3. route \in Seq(AnyStep) /\ Len(route) \in Nat /\ Len(route) <= 6
      BY RouteLength
    <2>4. n <= Len(route)
      BY <1>2, <2>2, <2>3
    <2>5. Tail(plan) = SubSeq(route, n + 1, Len(route))
      BY <2>2, <2>3, <2>4, HeadTailOfSubSeq
    <2>6. n + 1 \in 1 .. 7
      BY <2>3, <2>4
    <2>7. QED
      BY <2>5, <2>6, PlanForm
  <1>3. QED
    BY <1>1, <1>2

\* A request state, or none, may take the place of another.
LEMMA TypeChange ==
    ASSUME TypeOK, NEW r \in Request, NEW x \in RequestState \union {None},
           req' = [req EXCEPT ![r] = x], UNCHANGED <<phase, failed, cut>>
    PROVE  TypeOK'
  BY DEF TypeOK

LEMMA TypeSteps ==
    ASSUME TypeOK, NEW r \in Request, Active(r)
    PROVE  /\ [req[r] EXCEPT !.stmt = TRUE] \in RequestState
           /\ \A row \in Row :
                /\ [req[r] EXCEPT !.stmt = TRUE, !.wants = row] \in RequestState
                /\ [req[r] EXCEPT !.wants = row] \in RequestState
           /\ Wants(r) =>
                [req[r] EXCEPT !.rows = @ \union {req[r].wants}, !.wants = None]
                    \in RequestState
           /\ req[r].plan # <<>> =>
                /\ Step(r) \in RequestState
                /\ [Step(r) EXCEPT !.tx = TRUE] \in RequestState
                /\ [Step(r) EXCEPT !.stmt = FALSE, !.wants = None] \in RequestState
                /\ [Step(r) EXCEPT !.tx = FALSE, !.rows = {}] \in RequestState
  <1>1. req[r] \in RequestState
    BY DEF TypeOK, Active
  <1>2. req[r].plan # <<>> => Tail(req[r].plan) \in Plan
    BY <1>1, PlansAreClosed DEF RequestState
  <1>3. req[r].plan # <<>> => Step(r) \in RequestState
    BY <1>1, <1>2 DEF Step, RequestState
  <1>4. Wants(r) => req[r].wants \in Row
    BY <1>1 DEF Wants, RequestState
  <1>5. QED
    BY <1>1, <1>3, <1>4 DEF RequestState

LEMMA RequestKeepsTypes ==
    ASSUME TypeOK, SlotInv, NEW r \in Request,
           Arrive(r) \/ Proceed(r) \/ GoogleAnswers(r) \/ GiveUp(r)
    PROVE  TypeOK'
  <1>1. \A step : IsNext(r, step) => Active(r) /\ req[r].plan # <<>>
    BY DEF IsNext
  <1>2. CASE Arrive(r)
    <2>1. PICK route \in Routes : req' = [req EXCEPT ![r] = Serving(route)]
      BY <1>2 DEF Arrive
    <2>2. Serving(route) \in RequestState
      BY PlansAreClosed DEF Serving, RequestState
    <2>3. QED
      BY <1>2, <2>1, <2>2, TypeChange DEF Arrive
  <1>3. CASE Acquire(r)
    <2>1. Active(r) /\ req[r].plan # <<>>
      BY <1>1, <1>3 DEF Acquire
    <2>2. QED
      BY <1>3, <2>1, TypeSteps, TypeChange DEF Acquire
  <1>4. CASE Statement(r)
    <2>1. Active(r) /\ req[r].plan # <<>>
      BY <1>4 DEF Statement, SlotInv, Slot
    <2>2. QED
      BY <1>4, <2>1, TypeSteps, TypeChange DEF Statement
  <1>5. CASE ReachRow(r)
    BY <1>1, <1>5, TypeSteps, TypeChange DEF ReachRow
  <1>6. CASE LockRow(r)
    BY <1>1, <1>6, TypeSteps, TypeChange DEF LockRow
  <1>7. CASE Commit(r)
    BY <1>1, <1>7, TypeSteps, TypeChange DEF Commit
  <1>8. CASE GoogleAnswers(r)
    BY <1>1, <1>8, TypeSteps, TypeChange DEF GoogleAnswers
  <1>9. CASE DeadlockVictim(r) \/ Respond(r) \/ PoolClosed(r) \/ GiveUp(r)
    BY <1>9, TypeChange DEF DeadlockVictim, Respond, PoolClosed, GiveUp
  <1>10. QED
    BY <1>2, <1>3, <1>4, <1>5, <1>6, <1>7, <1>8, <1>9 DEF Proceed

LEMMA LifecycleKeepsTypes ==
    ASSUME TypeOK, Connect \/ ListenFails \/ Signal \/ Lifecycle
    PROVE  TypeOK'
  BY DEF TypeOK, Phase, Connect, ListenFails, Signal, Lifecycle, ShutdownReturns,
     ShutdownTimesOut, Exit

\* Every variable keeps its type: what a request has left to do is always the
\* end of a route.
THEOREM TypeCorrect == Spec => []TypeOK
  <1>1. Init => TypeOK
    BY DEF Init, TypeOK, Phase
  <1>2. TypeOK /\ SlotInv /\ [Next]_vars => TypeOK'
    <2>1. TypeOK /\ UNCHANGED vars => TypeOK'
      BY DEF TypeOK, vars
    <2>2. QED
      BY <2>1, RequestKeepsTypes, LifecycleKeepsTypes DEF Next
  <1>3. QED
    BY <1>1, <1>2, SlotInvariance, PTL DEF Spec
=============================================================================
