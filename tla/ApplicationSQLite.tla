--------------------------- MODULE ApplicationSQLite ---------------------------
(***************************************************************************)
(* The Application database worker: storage/application_sqlite.py.           *)
(*                                                                          *)
(* Coroutines on the event loop submit operations through a bounded queue   *)
(* to one thread that owns the connection.  A step under the state lock is  *)
(* one action; the worker's other steps interleave with the event loop.     *)
(* Each request is submitted once.  Whether SQLite succeeds, raises, or can *)
(* not even roll back is a choice.                                          *)
(***************************************************************************)
EXTENDS Naturals, Sequences

CONSTANTS Requests, Closers,
          Kind,      \* what each request is
          Capacity,  \* queue_capacity
          Close      \* the close item

ASSUME SQLiteAssumption ==
    /\ Capacity \in Nat \ {0} /\ Close \notin Requests
    /\ Kind \in [Requests -> {"read", "write", "initialize", "suspend", "reset"}]

VARIABLES
    state,        \* _state
    permits,      \* _capacity
    queue,        \* _queue
    future,       \* the future of each request
    call,         \* the coroutine of each request
    answer,       \* what it returned or raised
    cancelled,    \* calls cancelled while they wait for a durable result
    worker,       \* the worker thread
    item,         \* the request it executes
    outcome,      \* how the execution ended
    fatal,        \* fatal_error is set
    connection,   \* the owned connection
    log,          \* committed writes, in order
    closing,      \* _close_future
    closer        \* the coroutines in aclose

calls   == <<call, answer, cancelled>>
thread  == <<worker, item, outcome, fatal>>
closers == <<closing, closer>>
vars == <<state, permits, queue, future, calls, thread, connection, log, closers>>

-----------------------------------------------------------------------------

Verdicts == {"result", "error", "unavailable"}
Durable(r) == Kind[r] # "read"

TypeOK ==
    /\ state \in {"open", "closing", "closed", "failed"}
    /\ permits \in 0..Capacity
    /\ queue \in Seq(Requests \cup {Close})
    /\ future \in [Requests -> {"none", "pending"} \cup Verdicts]
    /\ call \in [Requests -> {"new", "waiting", "done"}]
    /\ answer \in [Requests -> {"none", "busy", "closed", "cancelled"} \cup Verdicts]
    /\ cancelled \subseteq Requests
    /\ worker \in {"take", "release", "execute", "publish", "leave", "settle",
                   "tell", "drain", "stopped"}
    /\ item \in Requests \cup {Close}
    /\ outcome \in {"none"} \cup Verdicts
    /\ fatal \in BOOLEAN
    /\ connection \in {"open", "none"}
    /\ log \in Seq(Requests)
    /\ closing \in {"none", "queued", "taken", "closed", "unavailable"}
    /\ closer \in [Closers -> {"idle", "waiting", "returned"}]

Init ==
    /\ state = "open" /\ permits = Capacity /\ queue = <<>>
    /\ future = [r \in Requests |-> "none"] /\ call = [r \in Requests |-> "new"]
    /\ answer = [r \in Requests |-> "none"] /\ cancelled = {}
    /\ worker = "take" /\ item = Close /\ outcome = "none" /\ fatal = FALSE
    /\ connection = "none" /\ log = <<>>
    /\ closing = "none" /\ closer = [k \in Closers |-> "idle"]

-----------------------------------------------------------------------------
(* The event loop.                                                         *)

Return(r, value) ==
    /\ call' = [call EXCEPT ![r] = "done"]
    /\ answer' = [answer EXCEPT ![r] = value]

\* _submit, under the state lock.
Admit(r) ==
    /\ call[r] = "new" /\ state = "open" /\ permits > 0
    /\ permits' = permits - 1
    /\ queue' = Append(queue, r)
    /\ future' = [future EXCEPT ![r] = "pending"]
    /\ call' = [call EXCEPT ![r] = "waiting"]
    /\ UNCHANGED <<state, answer, cancelled, thread, connection, log, closers>>

Refuse(r) ==
    /\ call[r] = "new"
    /\ \/ state = "failed" /\ Return(r, "unavailable")
       \/ state \in {"closing", "closed"} /\ Return(r, "closed")
       \/ state = "open" /\ permits = 0 /\ Return(r, "busy")
    /\ UNCHANGED <<state, permits, queue, future, cancelled, thread, connection, log, closers>>

\* A cancelled read stops waiting; a durable call remembers and waits on.
Cancel(r) ==
    /\ call[r] = "waiting" /\ r \notin cancelled
    /\ IF Durable(r)
       THEN cancelled' = cancelled \cup {r} /\ UNCHANGED <<call, answer>>
       ELSE Return(r, "cancelled") /\ UNCHANGED cancelled
    /\ UNCHANGED <<state, permits, queue, future, thread, connection, log, closers>>

Answer(r) ==
    /\ call[r] = "waiting" /\ future[r] \in Verdicts
    /\ Return(r, IF r \in cancelled THEN "cancelled" ELSE future[r])
    /\ UNCHANGED <<state, permits, queue, future, cancelled, thread, connection, log, closers>>

\* aclose: the first call while open queues the close item, later ones join it.
BeginClose(k) ==
    /\ closer[k] = "idle"
    /\ IF closing = "none" /\ state = "open"
       THEN /\ closing' = "queued" /\ state' = "closing"
            /\ queue' = Append(queue, Close)
       ELSE UNCHANGED <<closing, state, queue>>
    /\ closer' = [closer EXCEPT ![k] = IF closing' = "none" THEN "returned" ELSE "waiting"]
    /\ UNCHANGED <<permits, future, calls, thread, connection, log>>

CloseReturns(k) ==
    /\ closer[k] = "waiting" /\ closing \in {"closed", "unavailable"}
    /\ closer' = [closer EXCEPT ![k] = "returned"]
    /\ UNCHANGED <<state, permits, queue, future, calls, thread, connection, log, closing>>

-----------------------------------------------------------------------------
(* The worker thread.                                                      *)

Take ==
    /\ worker = "take" /\ queue # <<>>
    /\ queue' = Tail(queue)
    /\ item' = Head(queue)
    /\ IF Head(queue) = Close
       THEN worker' = "leave" /\ closing' = "taken"
       ELSE worker' = "release" /\ UNCHANGED closing
    /\ UNCHANGED <<state, permits, future, calls, outcome, fatal, connection, log, closer>>

ReleasePermit ==
    /\ worker = "release"
    /\ permits' = permits + 1 /\ worker' = "execute"
    /\ UNCHANGED <<state, queue, future, calls, item, outcome, fatal, connection, log, closers>>

Finish(verdict) == outcome' = verdict /\ worker' = "publish" /\ UNCHANGED item

\* _run_transaction.  It commits, or raises and is rolled back, or can not be
\* rolled back.
Transaction ==
    /\ worker = "execute" /\ Kind[item] \in {"read", "write"}
    /\ \/ connection = "none" /\ Finish("unavailable") /\ UNCHANGED <<log, fatal>>
       \/ /\ connection = "open" /\ Finish("result") /\ UNCHANGED fatal
          /\ log' = IF Kind[item] = "write" THEN Append(log, item) ELSE log
       \/ connection = "open" /\ Finish("error") /\ UNCHANGED <<log, fatal>>
       \/ connection = "open" /\ Finish("unavailable") /\ fatal' = TRUE /\ UNCHANGED log
    /\ UNCHANGED <<state, permits, queue, future, calls, connection, closers>>

\* initialize, suspend and reset on the worker.
Control ==
    /\ worker = "execute" /\ Kind[item] \in {"initialize", "suspend", "reset"}
    /\ \/ Finish("result")
          /\ connection' = IF Kind[item] = "suspend" THEN "none" ELSE "open"
       \/ Finish("error")
          /\ connection' = IF Kind[item] = "initialize" THEN connection ELSE "none"
    /\ UNCHANGED <<state, permits, queue, future, calls, fatal, log, closers>>

Publish ==
    /\ worker = "publish"
    /\ future' = [future EXCEPT ![item] = outcome]
    /\ outcome' = "none" /\ item' = Close
    /\ worker' = IF fatal THEN "leave" ELSE "take"
    /\ UNCHANGED <<state, permits, queue, calls, fatal, connection, log, closers>>

\* Closing the connection may raise.
CloseConnection ==
    /\ worker = "leave"
    /\ connection' = "none" /\ worker' = "settle"
    /\ fatal' \in IF connection = "open" THEN {fatal, TRUE} ELSE {fatal}
    /\ UNCHANGED <<state, permits, queue, future, calls, item, outcome, log, closers>>

\* The state changes under the lock, before anybody is told.
Settle ==
    /\ worker = "settle"
    /\ state' = IF fatal THEN "failed" ELSE "closed"
    /\ worker' = "tell"
    /\ UNCHANGED <<permits, queue, future, calls, item, outcome, fatal, connection, log, closers>>

Tell ==
    /\ worker = "tell"
    /\ closing' = IF closing # "taken" THEN closing
                  ELSE IF fatal THEN "unavailable" ELSE "closed"
    /\ worker' = IF fatal THEN "drain" ELSE "stopped"
    /\ UNCHANGED <<state, permits, queue, future, calls, item, outcome, fatal, connection,
                   log, closer>>

\* Faulty: the thread stops without answering the queue.
Drain_Stops ==
    /\ worker = "drain" /\ worker' = "stopped"
    /\ closing' = IF closing = "queued" THEN "unavailable" ELSE closing
    /\ UNCHANGED <<state, permits, queue, future, calls, item, outcome, fatal, connection,
                   log, closer>>

\* Faulty: the newest is answered first.
Drain_Newest ==
    /\ worker = "drain"
    /\ IF queue = <<>>
       THEN worker' = "stopped" /\ UNCHANGED <<queue, future, permits, closing>>
       ELSE /\ queue' = SubSeq(queue, 1, Len(queue) - 1)
            /\ IF queue[Len(queue)] = Close
               THEN closing' = "unavailable" /\ UNCHANGED <<future, permits>>
               ELSE /\ future' = [future EXCEPT ![queue[Len(queue)]] = "unavailable"]
                    /\ permits' = permits + 1 /\ UNCHANGED closing
            /\ UNCHANGED worker
    /\ UNCHANGED <<state, calls, item, outcome, fatal, connection, log, closer>>

\* _fail_worker answers everything that is queued.
Drain ==
    /\ worker = "drain"
    /\ IF queue = <<>>
       THEN worker' = "stopped" /\ UNCHANGED <<queue, future, permits, closing>>
       ELSE /\ queue' = Tail(queue)
            /\ IF Head(queue) = Close
               THEN closing' = "unavailable" /\ UNCHANGED <<future, permits>>
               ELSE /\ future' = [future EXCEPT ![Head(queue)] = "unavailable"]
                    /\ permits' = permits + 1 /\ UNCHANGED closing
            /\ UNCHANGED worker
    /\ UNCHANGED <<state, calls, item, outcome, fatal, connection, log, closer>>

-----------------------------------------------------------------------------

Work == Take \/ ReleasePermit \/ Transaction \/ Control \/ Publish
        \/ CloseConnection \/ Settle \/ Tell \/ Drain

Next ==
    \/ \E r \in Requests : Admit(r) \/ Refuse(r) \/ Cancel(r) \/ Answer(r)
    \/ \E k \in Closers : BeginClose(k) \/ CloseReturns(k)
    \/ Work

Spec == Init /\ [][Next]_vars

\* The thread runs and SQLite returns (its busy timeout is five seconds); the
\* event loop delivers the results it was given.
FairSpec ==
    /\ Spec /\ WF_vars(Work)
    /\ \A r \in Requests : WF_vars(Answer(r))
    /\ \A k \in Closers : WF_vars(CloseReturns(k))

-----------------------------------------------------------------------------
(* Properties.                                                             *)

\* The queue has room for everything the semaphore admits and the close item,
\* so put_nowait never raises; with the thread stopped every permit is back.
QueueFits ==
    /\ Len(queue) <= Capacity + 1
    /\ worker = "stopped" => permits = Capacity

\* An admitted request is queued, executed or decided, and nothing else is: no
\* shutdown or failure of the worker loses a request.
Queued == {queue[i] : i \in 1..Len(queue)}
NothingLost ==
    \A r \in Requests :
        future[r] = "pending" <=>
            \/ r \in Queued
            \/ item = r /\ worker \in {"release", "execute", "publish"}

\* A write whose future holds a result is committed, one whose future holds an
\* error is not, and a call that was refused never has an effect.
Logged == {log[i] : i \in 1..Len(log)}
VerdictTellsCommit ==
    \A r \in Requests :
        /\ future[r] = "result" /\ Kind[r] = "write" => r \in Logged
        /\ future[r] \in {"none", "error", "unavailable"} => r \notin Logged

\* A durable call never returns or raises before its outcome is known, even
\* when it is cancelled; only a refusal is immediate.
DurableOutcomeKnown ==
    \A r \in Requests :
        call[r] = "done" /\ Durable(r) => future[r] \in {"none"} \cup Verdicts

\* When aclose has returned, every admitted request is decided and the
\* connection is closed.
ClosedIsDrained ==
    (\E k \in Closers : closer[k] = "returned") =>
        /\ connection = "none" /\ state \in {"closed", "failed"}
        /\ state = "closed" => queue = <<>> /\ \A r \in Requests : future[r] # "pending"

\* Where every request is at any time: admitted ones fit the queue, none is
\* lost, none is told too early or what is not so, and a close leaves none.
RequestsAccounted ==
    /\ QueueFits /\ NothingLost /\ VerdictTellsCommit
    /\ DurableOutcomeKnown /\ ClosedIsDrained

\* The worker is a SerialStore: requests settle one at a time in the order of
\* their admission, behind them the close item.
Waiting == IF closing = "queued" THEN SubSeq(queue, 1, Len(queue) - 1) ELSE queue
Line == IF worker \in {"release", "execute"} THEN <<item>> \o Waiting ELSE Waiting
Settled == {r \in Requests :
              \/ call[r] = "done" /\ future[r] = "none"
              \/ future[r] \in Verdicts
              \/ item = r /\ worker = "publish"}
Serial == INSTANCE SerialStore WITH
    line <- Line, applied <- log, settled <- Settled
ServesInOrder == Serial!Spec

\* What a request gets: its turn, and a place, an answer and a truth.
RequestsServed == []RequestsAccounted /\ ServesInOrder

\* Every waiting call is answered and every aclose returns, also when the
\* worker failed with requests and the close item behind the failed one: a
\* call waits once, so in the end nobody does.
NobodyWaits ==
    /\ \A r \in Requests : call[r] # "waiting"
    /\ \A k \in Closers : closer[k] # "waiting"
CallsReturn == <>[]NobodyWaits
=============================================================================
