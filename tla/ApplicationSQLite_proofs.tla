---------------------- MODULE ApplicationSQLite_proofs ----------------------
(* Proofs about the database worker, for any requests, any callers of aclose *)
(* and any capacity of the queue.                                            *)
EXTENDS ApplicationSQLite, SequenceTheorems, TLAPS

\* A permit is taken for each queued request and given back by the worker.
Counts ==
    permits + Len(queue) + (IF worker = "release" THEN 1 ELSE 0)
        = Capacity + (IF closing = "queued" THEN 1 ELSE 0)

\* The close item is the last item, and only while it is queued.
CloseLast ==
    /\ closing = "queued" => Len(queue) > 0 /\ queue[Len(queue)] = Close
    /\ \A i \in 1..Len(queue) : queue[i] = Close => i = Len(queue) /\ closing = "queued"

\* What the end of the thread has behind it.
Phases ==
    /\ closing # "none" => state # "open"
    /\ closing \in {"taken", "closed"} => queue = <<>>
    /\ worker \in {"leave", "settle", "tell", "stopped"} /\ ~fatal
          => closing \in {"taken", "closed"}
    /\ worker \in {"tell", "drain", "stopped"} => state \in {"closed", "failed"}
    /\ worker = "drain" => fatal
    /\ worker = "stopped" => queue = <<>>

Busy == worker \in {"release", "execute", "publish"}

\* A request is in one place.
Once ==
    /\ \A i, j \in 1..Len(queue) : queue[i] = queue[j] => i = j
    /\ Busy => item \in Requests /\ \A i \in 1..Len(queue) : queue[i] # item
    /\ worker = "publish" => outcome \in Verdicts
    /\ \A r \in Requests : call[r] = "new" => future[r] = "none"

\* A committed write is decided or about to be.
Committed ==
    /\ \A i \in 1..Len(log) :
          \/ future[log[i]] = "result"
          \/ worker = "publish" /\ item = log[i] /\ outcome = "result"
    /\ \A r \in Requests :
          Kind[r] = "write" =>
              /\ future[r] = "result" => \E i \in 1..Len(log) : log[i] = r
              /\ worker = "publish" /\ item = r /\ outcome = "result"
                    => \E i \in 1..Len(log) : log[i] = r

\* What the state tells about the thread, and a returned aclose about the state.
Ending ==
    /\ worker \in {"settle", "tell", "drain", "stopped"} => connection = "none"
    /\ state \in {"closed", "failed"} => worker \in {"tell", "drain", "stopped"}
    /\ state = "closed" => ~fatal
    /\ state = "closing" => closing # "none"
    /\ closing \in {"closed", "unavailable"} => worker \in {"drain", "stopped"}
    /\ \A k \in Closers : closer[k] = "returned" => state \in {"closed", "failed"}

IInv == TypeOK /\ Counts /\ CloseLast /\ Phases /\ Once /\ NothingLost /\ Committed
        /\ DurableOutcomeKnown /\ Ending

USE SQLiteAssumption

LEMMA InitIInv == Init => IInv
<1> SUFFICES ASSUME Init PROVE IInv
  OBVIOUS
<1>0. TypeOK
  <2>1. queue \in Seq(Requests \cup {Close}) /\ log \in Seq(Requests)
    BY DEF Init
  <2>2. permits \in 0..Capacity /\ item \in Requests \cup {Close}
    BY DEF Init
  <2>3. /\ future \in [Requests -> {"none", "pending"} \cup Verdicts]
        /\ call \in [Requests -> {"new", "waiting", "done"}]
        /\ answer \in [Requests -> {"none", "busy", "closed", "cancelled"} \cup Verdicts]
        /\ closer \in [Closers -> {"idle", "waiting", "returned"}]
    BY DEF Init
  <2> QED
    BY <2>1, <2>2, <2>3 DEF Init, TypeOK
<1>1. Counts /\ CloseLast /\ Phases /\ Once
  <2>1. <<>> \in Seq(Requests) /\ <<>> \in Seq(Requests \cup {Close}) /\ Len(queue) = 0
    BY DEF Init
  <2> QED
    BY <2>1 DEF Init, Counts, CloseLast, Phases, Once, Busy
<1>2. NothingLost /\ Committed
  BY DEF Init, NothingLost, Committed, Queued
<1>3. DurableOutcomeKnown /\ Ending
  BY DEF Init, DurableOutcomeKnown, Ending
<1> QED
  BY <1>0, <1>1, <1>2, <1>3 DEF IInv

\* What taking and adding an item does to the queue.
LEMMA Dequeue ==
    ASSUME TypeOK, queue # <<>>, queue' = Tail(queue)
    PROVE  /\ queue' \in Seq(Requests \cup {Close})
           /\ Len(queue) \in Nat \ {0} /\ Len(queue') = Len(queue) - 1
           /\ Head(queue) = queue[1] /\ Head(queue) \in Requests \cup {Close}
           /\ \A i \in 1..Len(queue') : queue'[i] = queue[i + 1]
           /\ \A i \in 1..Len(queue) : i # 1 => i - 1 \in 1..Len(queue') /\ queue[i] = queue'[i - 1]
<1>1. queue \in Seq(Requests \cup {Close})
  BY DEF TypeOK
<1> QED
  BY <1>1

LEMMA Enqueue ==
    ASSUME TypeOK, NEW e \in Requests \cup {Close}, queue' = Append(queue, e)
    PROVE  /\ queue' \in Seq(Requests \cup {Close})
           /\ Len(queue) \in Nat /\ Len(queue') = Len(queue) + 1
           /\ \A i \in 1..Len(queue) : queue'[i] = queue[i]
           /\ queue'[Len(queue')] = e
           /\ \A i \in 1..Len(queue') : i # Len(queue') => i \in 1..Len(queue)
<1>1. queue \in Seq(Requests \cup {Close})
  BY DEF TypeOK
<1> QED
  BY <1>1

LEMMA CommitLog ==
    ASSUME TypeOK, item \in Requests, log' = Append(log, item)
    PROVE  /\ log' \in Seq(Requests)
           /\ Len(log) \in Nat /\ Len(log') = Len(log) + 1
           /\ \A i \in 1..Len(log) : log'[i] = log[i]
           /\ log'[Len(log')] = item
           /\ \A i \in 1..Len(log') : i # Len(log') => i \in 1..Len(log)
<1>1. log \in Seq(Requests)
  BY DEF TypeOK
<1> QED
  BY <1>1

LEMMA Types ==
    ASSUME TypeOK
    PROVE  /\ future \in [Requests -> {"none", "pending"} \cup Verdicts]
           /\ call \in [Requests -> {"new", "waiting", "done"}]
           /\ permits \in Nat /\ Len(queue) \in Nat /\ Len(log) \in Nat
           /\ item \in Requests \cup {Close}
  BY DEF TypeOK

LEMMA TypeStep ==
    ASSUME TypeOK, Counts, CloseLast, Phases, Once, [Next]_vars
    PROVE  TypeOK'
<1>1. ASSUME NEW r \in Requests, Admit(r)
       PROVE  TypeOK'
  <2>1. queue' = Append(queue, r)
    BY <1>1 DEF Admit
  <2> QED
    BY <1>1, <2>1, Enqueue, Types DEF TypeOK, Verdicts, Admit, calls, thread, closers
<1>2. ASSUME NEW r \in Requests, Refuse(r)
       PROVE  TypeOK'
  BY <1>2 DEF TypeOK, Verdicts, Refuse, Return, calls, thread, closers
<1>3. ASSUME NEW r \in Requests, Cancel(r)
       PROVE  TypeOK'
  BY <1>3 DEF TypeOK, Verdicts, Cancel, Return, calls, thread, closers
<1>4. ASSUME NEW r \in Requests, Answer(r)
       PROVE  TypeOK'
  BY <1>4 DEF TypeOK, Verdicts, Answer, Return, calls, thread, closers
<1>5. ASSUME NEW k \in Closers, BeginClose(k)
       PROVE  TypeOK'
  <2>1. CASE closing = "none" /\ state = "open"
    <3>1. queue' = Append(queue, Close)
      BY <1>5, <2>1 DEF BeginClose
    <3> QED
      BY <1>5, <2>1, <3>1, Enqueue, Types DEF TypeOK, Verdicts, BeginClose, calls, thread, closers
  <2>2. CASE ~(closing = "none" /\ state = "open")
    BY <1>5, <2>2, Types DEF TypeOK, Verdicts, BeginClose, calls, thread, closers
  <2> QED
    BY <2>1, <2>2
<1>6. ASSUME NEW k \in Closers, CloseReturns(k)
       PROVE  TypeOK'
  BY <1>6 DEF TypeOK, Verdicts, CloseReturns, calls, thread, closers
<1>7. ASSUME Take
       PROVE  TypeOK'
  <2>1. queue' \in Seq(Requests \cup {Close}) /\ Head(queue) \in Requests \cup {Close}
    BY <1>7, Dequeue DEF Take
  <2> QED
    BY <1>7, <2>1 DEF TypeOK, Verdicts, Take, calls, thread, closers
<1>8. ASSUME ReleasePermit
       PROVE  TypeOK'
  <2>1. permits' \in 0..Capacity
    BY <1>8 DEF TypeOK, Counts, CloseLast, ReleasePermit
  <2> QED
    BY <1>8, <2>1 DEF TypeOK, Verdicts, ReleasePermit, calls, thread, closers
<1>9. ASSUME Transaction
       PROVE  TypeOK'
  <2>1. item \in Requests
    BY <1>9 DEF Once, Busy, Transaction
  <2>2. log' \in Seq(Requests)
    BY <1>9, <2>1, CommitLog DEF TypeOK, Transaction, Finish
  <2> QED
    BY <1>9, <2>2 DEF TypeOK, Verdicts, Transaction, Finish, calls, thread, closers
<1>10. ASSUME Control
       PROVE  TypeOK'
  BY <1>10 DEF TypeOK, Verdicts, Control, Finish, calls, thread, closers
<1>11. ASSUME Publish
       PROVE  TypeOK'
  BY <1>11 DEF TypeOK, Verdicts, Publish, calls, thread, closers
<1>12. ASSUME CloseConnection
       PROVE  TypeOK'
  BY <1>12 DEF TypeOK, Verdicts, CloseConnection, calls, thread, closers
<1>13. ASSUME Settle
       PROVE  TypeOK'
  BY <1>13 DEF TypeOK, Verdicts, Settle, calls, thread, closers
<1>14. ASSUME Tell
       PROVE  TypeOK'
  BY <1>14 DEF TypeOK, Verdicts, Tell, calls, thread, closers
<1>15. ASSUME Drain
       PROVE  TypeOK'
  <2>1. queue # <<>> /\ Head(queue) # Close => permits + 1 \in 0..Capacity
    <3> SUFFICES ASSUME queue # <<>>, Head(queue) # Close PROVE permits + 1 \in 0..Capacity
      OBVIOUS
    <3>1. /\ queue' = Tail(queue) /\ Len(queue') \in Nat
      BY <1>15, Dequeue DEF Drain
    <3>2. Len(queue) \in Nat \ {0} /\ queue[1] # Close
      BY <3>1, Dequeue
    <3>3. closing = "queued" => Len(queue) > 1
      BY <3>2 DEF CloseLast
    <3> QED
      BY <1>15, <3>2, <3>3, Types DEF Counts, Drain
  <2>2. queue' \in Seq(Requests \cup {Close})
    BY <1>15, Dequeue DEF TypeOK, Drain
  <2> QED
    BY <1>15, <2>1, <2>2, Dequeue DEF TypeOK, Verdicts, Drain, calls, thread, closers
<1>16. ASSUME UNCHANGED vars
       PROVE  TypeOK'
  BY <1>16 DEF TypeOK, Verdicts, vars, calls, thread, closers
<1> QED
  BY <1>1, <1>2, <1>3, <1>4, <1>5, <1>6, <1>7, <1>8, <1>9, <1>10, <1>11, <1>12, <1>13, <1>14, <1>15, <1>16 DEF Next, Work

LEMMA CountsStep ==
    ASSUME TypeOK, Counts, CloseLast, Phases, [Next]_vars
    PROVE  Counts'
<1>1. ASSUME NEW r \in Requests, Admit(r)
       PROVE  Counts'
  <2>1. queue' = Append(queue, r)
    BY <1>1 DEF Admit
  <2> QED
    BY <1>1, <2>1, Enqueue, Types DEF Verdicts, Counts, CloseLast, Phases, Admit, calls, thread, closers
<1>2. ASSUME NEW r \in Requests, Refuse(r)
       PROVE  Counts'
  BY <1>2 DEF TypeOK, Verdicts, Counts, CloseLast, Phases, Refuse, Return, calls, thread, closers
<1>3. ASSUME NEW r \in Requests, Cancel(r)
       PROVE  Counts'
  BY <1>3 DEF TypeOK, Verdicts, Counts, CloseLast, Phases, Cancel, Return, calls, thread, closers
<1>4. ASSUME NEW r \in Requests, Answer(r)
       PROVE  Counts'
  BY <1>4 DEF TypeOK, Verdicts, Counts, CloseLast, Phases, Answer, Return, calls, thread, closers
<1>5. ASSUME NEW k \in Closers, BeginClose(k)
       PROVE  Counts'
  <2>1. CASE closing = "none" /\ state = "open"
    <3>1. queue' = Append(queue, Close)
      BY <1>5, <2>1 DEF BeginClose
    <3> QED
      BY <1>5, <2>1, <3>1, Enqueue, Types DEF Verdicts, Counts, CloseLast, Phases, BeginClose, calls, thread, closers
  <2>2. CASE ~(closing = "none" /\ state = "open")
    BY <1>5, <2>2, Types DEF Verdicts, Counts, CloseLast, Phases, BeginClose, calls, thread, closers
  <2> QED
    BY <2>1, <2>2
<1>6. ASSUME NEW k \in Closers, CloseReturns(k)
       PROVE  Counts'
  BY <1>6 DEF TypeOK, Verdicts, Counts, CloseLast, Phases, CloseReturns, calls, thread, closers
<1>7. ASSUME Take
       PROVE  Counts'
  <2>1. /\ Len(queue) \in Nat \ {0} /\ Len(queue') = Len(queue) - 1
        /\ queue[1] = Head(queue) /\ queue[1] \in Requests \cup {Close}
        /\ \A i \in 1..Len(queue') : i + 1 \in 1..Len(queue) /\ queue'[i] = queue[i + 1]
        /\ \A i \in 1..Len(queue) :
             i # 1 => i - 1 \in 1..Len(queue') /\ queue[i] = queue'[i - 1]
    BY <1>7, Dequeue DEF Take
  <2>2. CASE queue[1] = Close
    <3>1. /\ worker = "take" /\ worker' = "leave" /\ closing' = "taken" /\ item' = Close
          /\ UNCHANGED <<state, permits, future, calls, outcome, fatal, connection, log, closer>>
      BY <1>7, <2>1, <2>2 DEF Take
    <3> QED
      BY <2>1, <2>2, <3>1, Types DEF Verdicts, Counts, CloseLast, Phases, calls, thread, closers
  <2>3. CASE queue[1] # Close
    <3>1. /\ worker = "take" /\ worker' = "release" /\ item' = queue[1]
          /\ UNCHANGED <<state, permits, future, calls, outcome, fatal, connection, log, closers>>
      BY <1>7, <2>1, <2>3 DEF Take, closers
    <3> QED
      BY <2>1, <2>3, <3>1, Types DEF Verdicts, Counts, CloseLast, Phases, calls, thread, closers
  <2> QED
    BY <2>2, <2>3
<1>8. ASSUME ReleasePermit
       PROVE  Counts'
  BY <1>8 DEF TypeOK, Verdicts, Counts, CloseLast, Phases, ReleasePermit, calls, thread, closers
<1>9. ASSUME Transaction
       PROVE  Counts'
  BY <1>9 DEF TypeOK, Verdicts, Counts, CloseLast, Phases, Transaction, Finish, calls, thread, closers
<1>10. ASSUME Control
       PROVE  Counts'
  BY <1>10 DEF TypeOK, Verdicts, Counts, CloseLast, Phases, Control, Finish, calls, thread, closers
<1>11. ASSUME Publish
       PROVE  Counts'
  BY <1>11 DEF TypeOK, Verdicts, Counts, CloseLast, Phases, Publish, calls, thread, closers
<1>12. ASSUME CloseConnection
       PROVE  Counts'
  BY <1>12 DEF TypeOK, Verdicts, Counts, CloseLast, Phases, CloseConnection, calls, thread, closers
<1>13. ASSUME Settle
       PROVE  Counts'
  BY <1>13 DEF TypeOK, Verdicts, Counts, CloseLast, Phases, Settle, calls, thread, closers
<1>14. ASSUME Tell
       PROVE  Counts'
  BY <1>14 DEF TypeOK, Verdicts, Counts, CloseLast, Phases, Tell, calls, thread, closers
<1>15. ASSUME Drain
       PROVE  Counts'
  <2>1. CASE queue = <<>>
    BY <1>15, <2>1, Types DEF Verdicts, Counts, CloseLast, Phases, Drain, calls, thread, closers
  <2>2. CASE queue # <<>>
    <3>1. /\ Len(queue) \in Nat \ {0} /\ Len(queue') = Len(queue) - 1
          /\ queue[1] = Head(queue) /\ queue[1] \in Requests \cup {Close}
          /\ \A i \in 1..Len(queue') : i + 1 \in 1..Len(queue) /\ queue'[i] = queue[i + 1]
          /\ \A i \in 1..Len(queue) :
               i # 1 => i - 1 \in 1..Len(queue') /\ queue[i] = queue'[i - 1]
      BY <1>15, <2>2, Dequeue DEF Drain
    <3>2. CASE queue[1] = Close
      <4>1. /\ worker = "drain" /\ closing' = "unavailable"
            /\ UNCHANGED <<state, permits, future, calls, thread, connection, log, closer>>
        BY <1>15, <2>2, <3>1, <3>2 DEF Drain, thread
      <4> QED
        BY <3>1, <3>2, <4>1, Types DEF Verdicts, Counts, CloseLast, Phases, calls, thread, closers
    <3>3. CASE queue[1] # Close
      <4>1. /\ worker = "drain" /\ permits' = permits + 1
            /\ future' = [future EXCEPT ![queue[1]] = "unavailable"]
            /\ UNCHANGED <<state, calls, thread, connection, log, closers>>
        BY <1>15, <2>2, <3>1, <3>3 DEF Drain, thread, closers
      <4> QED
        BY <3>1, <3>3, <4>1, Types DEF Verdicts, Counts, CloseLast, Phases, calls, thread, closers
    <3> QED
      BY <3>2, <3>3
  <2> QED
    BY <2>1, <2>2
<1>16. ASSUME UNCHANGED vars
       PROVE  Counts'
  BY <1>16 DEF TypeOK, Verdicts, Counts, CloseLast, Phases, vars, calls, thread, closers
<1> QED
  BY <1>1, <1>2, <1>3, <1>4, <1>5, <1>6, <1>7, <1>8, <1>9, <1>10, <1>11, <1>12, <1>13, <1>14, <1>15, <1>16 DEF Next, Work

LEMMA CloseLastStep ==
    ASSUME TypeOK, CloseLast, Phases, [Next]_vars
    PROVE  CloseLast'
<1>1. ASSUME NEW r \in Requests, Admit(r)
       PROVE  CloseLast'
  <2>1. queue' = Append(queue, r)
    BY <1>1 DEF Admit
  <2> QED
    BY <1>1, <2>1, Enqueue, Types DEF Verdicts, CloseLast, Phases, Admit, calls, thread, closers
<1>2. ASSUME NEW r \in Requests, Refuse(r)
       PROVE  CloseLast'
  BY <1>2 DEF TypeOK, Verdicts, CloseLast, Phases, Refuse, Return, calls, thread, closers
<1>3. ASSUME NEW r \in Requests, Cancel(r)
       PROVE  CloseLast'
  BY <1>3 DEF TypeOK, Verdicts, CloseLast, Phases, Cancel, Return, calls, thread, closers
<1>4. ASSUME NEW r \in Requests, Answer(r)
       PROVE  CloseLast'
  BY <1>4 DEF TypeOK, Verdicts, CloseLast, Phases, Answer, Return, calls, thread, closers
<1>5. ASSUME NEW k \in Closers, BeginClose(k)
       PROVE  CloseLast'
  <2>1. CASE closing = "none" /\ state = "open"
    <3>1. queue' = Append(queue, Close)
      BY <1>5, <2>1 DEF BeginClose
    <3> QED
      BY <1>5, <2>1, <3>1, Enqueue, Types DEF Verdicts, CloseLast, Phases, BeginClose, calls, thread, closers
  <2>2. CASE ~(closing = "none" /\ state = "open")
    BY <1>5, <2>2, Types DEF Verdicts, CloseLast, Phases, BeginClose, calls, thread, closers
  <2> QED
    BY <2>1, <2>2
<1>6. ASSUME NEW k \in Closers, CloseReturns(k)
       PROVE  CloseLast'
  BY <1>6 DEF TypeOK, Verdicts, CloseLast, Phases, CloseReturns, calls, thread, closers
<1>7. ASSUME Take
       PROVE  CloseLast'
  <2>1. /\ Len(queue) \in Nat \ {0} /\ Len(queue') = Len(queue) - 1
        /\ queue[1] = Head(queue) /\ queue[1] \in Requests \cup {Close}
        /\ \A i \in 1..Len(queue') : i + 1 \in 1..Len(queue) /\ queue'[i] = queue[i + 1]
        /\ \A i \in 1..Len(queue) :
             i # 1 => i - 1 \in 1..Len(queue') /\ queue[i] = queue'[i - 1]
    BY <1>7, Dequeue DEF Take
  <2>2. CASE queue[1] = Close
    <3>1. /\ worker = "take" /\ worker' = "leave" /\ closing' = "taken" /\ item' = Close
          /\ UNCHANGED <<state, permits, future, calls, outcome, fatal, connection, log, closer>>
      BY <1>7, <2>1, <2>2 DEF Take
    <3> QED
      BY <2>1, <2>2, <3>1, Types DEF Verdicts, CloseLast, Phases, calls, thread, closers
  <2>3. CASE queue[1] # Close
    <3>1. /\ worker = "take" /\ worker' = "release" /\ item' = queue[1]
          /\ UNCHANGED <<state, permits, future, calls, outcome, fatal, connection, log, closers>>
      BY <1>7, <2>1, <2>3 DEF Take, closers
    <3> QED
      BY <2>1, <2>3, <3>1, Types DEF Verdicts, CloseLast, Phases, calls, thread, closers
  <2> QED
    BY <2>2, <2>3
<1>8. ASSUME ReleasePermit
       PROVE  CloseLast'
  BY <1>8 DEF TypeOK, Verdicts, CloseLast, Phases, ReleasePermit, calls, thread, closers
<1>9. ASSUME Transaction
       PROVE  CloseLast'
  BY <1>9 DEF TypeOK, Verdicts, CloseLast, Phases, Transaction, Finish, calls, thread, closers
<1>10. ASSUME Control
       PROVE  CloseLast'
  BY <1>10 DEF TypeOK, Verdicts, CloseLast, Phases, Control, Finish, calls, thread, closers
<1>11. ASSUME Publish
       PROVE  CloseLast'
  BY <1>11 DEF TypeOK, Verdicts, CloseLast, Phases, Publish, calls, thread, closers
<1>12. ASSUME CloseConnection
       PROVE  CloseLast'
  BY <1>12 DEF TypeOK, Verdicts, CloseLast, Phases, CloseConnection, calls, thread, closers
<1>13. ASSUME Settle
       PROVE  CloseLast'
  BY <1>13 DEF TypeOK, Verdicts, CloseLast, Phases, Settle, calls, thread, closers
<1>14. ASSUME Tell
       PROVE  CloseLast'
  BY <1>14 DEF TypeOK, Verdicts, CloseLast, Phases, Tell, calls, thread, closers
<1>15. ASSUME Drain
       PROVE  CloseLast'
  <2>1. CASE queue = <<>>
    BY <1>15, <2>1, Types DEF Verdicts, CloseLast, Phases, Drain, calls, thread, closers
  <2>2. CASE queue # <<>>
    <3>1. /\ Len(queue) \in Nat \ {0} /\ Len(queue') = Len(queue) - 1
          /\ queue[1] = Head(queue) /\ queue[1] \in Requests \cup {Close}
          /\ \A i \in 1..Len(queue') : i + 1 \in 1..Len(queue) /\ queue'[i] = queue[i + 1]
          /\ \A i \in 1..Len(queue) :
               i # 1 => i - 1 \in 1..Len(queue') /\ queue[i] = queue'[i - 1]
      BY <1>15, <2>2, Dequeue DEF Drain
    <3>2. CASE queue[1] = Close
      <4>1. /\ worker = "drain" /\ closing' = "unavailable"
            /\ UNCHANGED <<state, permits, future, calls, thread, connection, log, closer>>
        BY <1>15, <2>2, <3>1, <3>2 DEF Drain, thread
      <4> QED
        BY <3>1, <3>2, <4>1, Types DEF Verdicts, CloseLast, Phases, calls, thread, closers
    <3>3. CASE queue[1] # Close
      <4>1. /\ worker = "drain" /\ permits' = permits + 1
            /\ future' = [future EXCEPT ![queue[1]] = "unavailable"]
            /\ UNCHANGED <<state, calls, thread, connection, log, closers>>
        BY <1>15, <2>2, <3>1, <3>3 DEF Drain, thread, closers
      <4> QED
        BY <3>1, <3>3, <4>1, Types DEF Verdicts, CloseLast, Phases, calls, thread, closers
    <3> QED
      BY <3>2, <3>3
  <2> QED
    BY <2>1, <2>2
<1>16. ASSUME UNCHANGED vars
       PROVE  CloseLast'
  BY <1>16 DEF TypeOK, Verdicts, CloseLast, Phases, vars, calls, thread, closers
<1> QED
  BY <1>1, <1>2, <1>3, <1>4, <1>5, <1>6, <1>7, <1>8, <1>9, <1>10, <1>11, <1>12, <1>13, <1>14, <1>15, <1>16 DEF Next, Work

LEMMA PhasesStep ==
    ASSUME TypeOK, CloseLast, Phases, [Next]_vars
    PROVE  Phases'
<1>1. ASSUME NEW r \in Requests, Admit(r)
       PROVE  Phases'
  <2>1. queue' = Append(queue, r)
    BY <1>1 DEF Admit
  <2> QED
    BY <1>1, <2>1, Enqueue, Types DEF Verdicts, CloseLast, Phases, Admit, calls, thread, closers
<1>2. ASSUME NEW r \in Requests, Refuse(r)
       PROVE  Phases'
  BY <1>2 DEF TypeOK, Verdicts, CloseLast, Phases, Refuse, Return, calls, thread, closers
<1>3. ASSUME NEW r \in Requests, Cancel(r)
       PROVE  Phases'
  BY <1>3 DEF TypeOK, Verdicts, CloseLast, Phases, Cancel, Return, calls, thread, closers
<1>4. ASSUME NEW r \in Requests, Answer(r)
       PROVE  Phases'
  BY <1>4 DEF TypeOK, Verdicts, CloseLast, Phases, Answer, Return, calls, thread, closers
<1>5. ASSUME NEW k \in Closers, BeginClose(k)
       PROVE  Phases'
  <2>1. CASE closing = "none" /\ state = "open"
    <3>1. queue' = Append(queue, Close)
      BY <1>5, <2>1 DEF BeginClose
    <3> QED
      BY <1>5, <2>1, <3>1, Enqueue, Types DEF Verdicts, CloseLast, Phases, BeginClose, calls, thread, closers
  <2>2. CASE ~(closing = "none" /\ state = "open")
    BY <1>5, <2>2, Types DEF Verdicts, CloseLast, Phases, BeginClose, calls, thread, closers
  <2> QED
    BY <2>1, <2>2
<1>6. ASSUME NEW k \in Closers, CloseReturns(k)
       PROVE  Phases'
  BY <1>6 DEF TypeOK, Verdicts, CloseLast, Phases, CloseReturns, calls, thread, closers
<1>7. ASSUME Take
       PROVE  Phases'
  <2>1. /\ Len(queue) \in Nat \ {0} /\ Len(queue') = Len(queue) - 1
        /\ queue[1] = Head(queue) /\ queue[1] \in Requests \cup {Close}
        /\ \A i \in 1..Len(queue') : i + 1 \in 1..Len(queue) /\ queue'[i] = queue[i + 1]
        /\ \A i \in 1..Len(queue) :
             i # 1 => i - 1 \in 1..Len(queue') /\ queue[i] = queue'[i - 1]
    BY <1>7, Dequeue DEF Take
  <2>2. CASE queue[1] = Close
    <3>1. /\ worker = "take" /\ worker' = "leave" /\ closing' = "taken" /\ item' = Close
          /\ UNCHANGED <<state, permits, future, calls, outcome, fatal, connection, log, closer>>
      BY <1>7, <2>1, <2>2 DEF Take
    <3> QED
      BY <2>1, <2>2, <3>1, Types DEF Verdicts, CloseLast, Phases, calls, thread, closers
  <2>3. CASE queue[1] # Close
    <3>1. /\ worker = "take" /\ worker' = "release" /\ item' = queue[1]
          /\ UNCHANGED <<state, permits, future, calls, outcome, fatal, connection, log, closers>>
      BY <1>7, <2>1, <2>3 DEF Take, closers
    <3> QED
      BY <2>1, <2>3, <3>1, Types DEF Verdicts, CloseLast, Phases, calls, thread, closers
  <2> QED
    BY <2>2, <2>3
<1>8. ASSUME ReleasePermit
       PROVE  Phases'
  BY <1>8 DEF TypeOK, Verdicts, CloseLast, Phases, ReleasePermit, calls, thread, closers
<1>9. ASSUME Transaction
       PROVE  Phases'
  BY <1>9 DEF TypeOK, Verdicts, CloseLast, Phases, Transaction, Finish, calls, thread, closers
<1>10. ASSUME Control
       PROVE  Phases'
  BY <1>10 DEF TypeOK, Verdicts, CloseLast, Phases, Control, Finish, calls, thread, closers
<1>11. ASSUME Publish
       PROVE  Phases'
  BY <1>11 DEF TypeOK, Verdicts, CloseLast, Phases, Publish, calls, thread, closers
<1>12. ASSUME CloseConnection
       PROVE  Phases'
  BY <1>12 DEF TypeOK, Verdicts, CloseLast, Phases, CloseConnection, calls, thread, closers
<1>13. ASSUME Settle
       PROVE  Phases'
  BY <1>13 DEF TypeOK, Verdicts, CloseLast, Phases, Settle, calls, thread, closers
<1>14. ASSUME Tell
       PROVE  Phases'
  BY <1>14 DEF TypeOK, Verdicts, CloseLast, Phases, Tell, calls, thread, closers
<1>15. ASSUME Drain
       PROVE  Phases'
  <2>1. CASE queue = <<>>
    BY <1>15, <2>1, Types DEF Verdicts, CloseLast, Phases, Drain, calls, thread, closers
  <2>2. CASE queue # <<>>
    <3>1. /\ Len(queue) \in Nat \ {0} /\ Len(queue') = Len(queue) - 1
          /\ queue[1] = Head(queue) /\ queue[1] \in Requests \cup {Close}
          /\ \A i \in 1..Len(queue') : i + 1 \in 1..Len(queue) /\ queue'[i] = queue[i + 1]
          /\ \A i \in 1..Len(queue) :
               i # 1 => i - 1 \in 1..Len(queue') /\ queue[i] = queue'[i - 1]
      BY <1>15, <2>2, Dequeue DEF Drain
    <3>2. CASE queue[1] = Close
      <4>1. /\ worker = "drain" /\ closing' = "unavailable"
            /\ UNCHANGED <<state, permits, future, calls, thread, connection, log, closer>>
        BY <1>15, <2>2, <3>1, <3>2 DEF Drain, thread
      <4> QED
        BY <3>1, <3>2, <4>1, Types DEF Verdicts, CloseLast, Phases, calls, thread, closers
    <3>3. CASE queue[1] # Close
      <4>1. /\ worker = "drain" /\ permits' = permits + 1
            /\ future' = [future EXCEPT ![queue[1]] = "unavailable"]
            /\ UNCHANGED <<state, calls, thread, connection, log, closers>>
        BY <1>15, <2>2, <3>1, <3>3 DEF Drain, thread, closers
      <4> QED
        BY <3>1, <3>3, <4>1, Types DEF Verdicts, CloseLast, Phases, calls, thread, closers
    <3> QED
      BY <3>2, <3>3
  <2> QED
    BY <2>1, <2>2
<1>16. ASSUME UNCHANGED vars
       PROVE  Phases'
  BY <1>16 DEF TypeOK, Verdicts, CloseLast, Phases, vars, calls, thread, closers
<1> QED
  BY <1>1, <1>2, <1>3, <1>4, <1>5, <1>6, <1>7, <1>8, <1>9, <1>10, <1>11, <1>12, <1>13, <1>14, <1>15, <1>16 DEF Next, Work

LEMMA OnceStep ==
    ASSUME TypeOK, CloseLast, Phases, Once, NothingLost, [Next]_vars
    PROVE  Once'
<1>1. ASSUME NEW r \in Requests, Admit(r)
       PROVE  Once'
  <2>1. queue' = Append(queue, r)
    BY <1>1 DEF Admit
  <2> QED
    BY <1>1, <2>1, Enqueue, Types DEF Verdicts, CloseLast, Phases, Once, Busy, NothingLost, Queued, Admit, calls, thread, closers
<1>2. ASSUME NEW r \in Requests, Refuse(r)
       PROVE  Once'
  BY <1>2 DEF TypeOK, Verdicts, CloseLast, Phases, Once, Busy, NothingLost, Queued, Refuse, Return, calls, thread, closers
<1>3. ASSUME NEW r \in Requests, Cancel(r)
       PROVE  Once'
  BY <1>3 DEF TypeOK, Verdicts, CloseLast, Phases, Once, Busy, NothingLost, Queued, Cancel, Return, calls, thread, closers
<1>4. ASSUME NEW r \in Requests, Answer(r)
       PROVE  Once'
  BY <1>4 DEF TypeOK, Verdicts, CloseLast, Phases, Once, Busy, NothingLost, Queued, Answer, Return, calls, thread, closers
<1>5. ASSUME NEW k \in Closers, BeginClose(k)
       PROVE  Once'
  <2>1. CASE closing = "none" /\ state = "open"
    <3>1. queue' = Append(queue, Close)
      BY <1>5, <2>1 DEF BeginClose
    <3> QED
      BY <1>5, <2>1, <3>1, Enqueue, Types DEF Verdicts, CloseLast, Phases, Once, Busy, NothingLost, Queued, BeginClose, calls, thread, closers
  <2>2. CASE ~(closing = "none" /\ state = "open")
    BY <1>5, <2>2, Types DEF Verdicts, CloseLast, Phases, Once, Busy, NothingLost, Queued, BeginClose, calls, thread, closers
  <2> QED
    BY <2>1, <2>2
<1>6. ASSUME NEW k \in Closers, CloseReturns(k)
       PROVE  Once'
  BY <1>6 DEF TypeOK, Verdicts, CloseLast, Phases, Once, Busy, NothingLost, Queued, CloseReturns, calls, thread, closers
<1>7. ASSUME Take
       PROVE  Once'
  <2>1. /\ Len(queue) \in Nat \ {0} /\ Len(queue') = Len(queue) - 1
        /\ queue[1] = Head(queue) /\ queue[1] \in Requests \cup {Close}
        /\ \A i \in 1..Len(queue') : i + 1 \in 1..Len(queue) /\ queue'[i] = queue[i + 1]
        /\ \A i \in 1..Len(queue) :
             i # 1 => i - 1 \in 1..Len(queue') /\ queue[i] = queue'[i - 1]
    BY <1>7, Dequeue DEF Take
  <2>2. CASE queue[1] = Close
    <3>1. /\ worker = "take" /\ worker' = "leave" /\ closing' = "taken" /\ item' = Close
          /\ UNCHANGED <<state, permits, future, calls, outcome, fatal, connection, log, closer>>
      BY <1>7, <2>1, <2>2 DEF Take
    <3> QED
      BY <2>1, <2>2, <3>1, Types DEF Verdicts, CloseLast, Phases, Once, Busy, NothingLost, Queued, calls, thread, closers
  <2>3. CASE queue[1] # Close
    <3>1. /\ worker = "take" /\ worker' = "release" /\ item' = queue[1]
          /\ UNCHANGED <<state, permits, future, calls, outcome, fatal, connection, log, closers>>
      BY <1>7, <2>1, <2>3 DEF Take, closers
    <3> QED
      BY <2>1, <2>3, <3>1, Types DEF Verdicts, CloseLast, Phases, Once, Busy, NothingLost, Queued, calls, thread, closers
  <2> QED
    BY <2>2, <2>3
<1>8. ASSUME ReleasePermit
       PROVE  Once'
  BY <1>8 DEF TypeOK, Verdicts, CloseLast, Phases, Once, Busy, NothingLost, Queued, ReleasePermit, calls, thread, closers
<1>9. ASSUME Transaction
       PROVE  Once'
  BY <1>9 DEF TypeOK, Verdicts, CloseLast, Phases, Once, Busy, NothingLost, Queued, Transaction, Finish, calls, thread, closers
<1>10. ASSUME Control
       PROVE  Once'
  BY <1>10 DEF TypeOK, Verdicts, CloseLast, Phases, Once, Busy, NothingLost, Queued, Control, Finish, calls, thread, closers
<1>11. ASSUME Publish
       PROVE  Once'
  BY <1>11 DEF TypeOK, Verdicts, CloseLast, Phases, Once, Busy, NothingLost, Queued, Publish, calls, thread, closers
<1>12. ASSUME CloseConnection
       PROVE  Once'
  BY <1>12 DEF TypeOK, Verdicts, CloseLast, Phases, Once, Busy, NothingLost, Queued, CloseConnection, calls, thread, closers
<1>13. ASSUME Settle
       PROVE  Once'
  BY <1>13 DEF TypeOK, Verdicts, CloseLast, Phases, Once, Busy, NothingLost, Queued, Settle, calls, thread, closers
<1>14. ASSUME Tell
       PROVE  Once'
  BY <1>14 DEF TypeOK, Verdicts, CloseLast, Phases, Once, Busy, NothingLost, Queued, Tell, calls, thread, closers
<1>15. ASSUME Drain
       PROVE  Once'
  <2>1. CASE queue = <<>>
    BY <1>15, <2>1, Types DEF Verdicts, CloseLast, Phases, Once, Busy, NothingLost, Queued, Drain, calls, thread, closers
  <2>2. CASE queue # <<>>
    <3>1. /\ Len(queue) \in Nat \ {0} /\ Len(queue') = Len(queue) - 1
          /\ queue[1] = Head(queue) /\ queue[1] \in Requests \cup {Close}
          /\ \A i \in 1..Len(queue') : i + 1 \in 1..Len(queue) /\ queue'[i] = queue[i + 1]
          /\ \A i \in 1..Len(queue) :
               i # 1 => i - 1 \in 1..Len(queue') /\ queue[i] = queue'[i - 1]
      BY <1>15, <2>2, Dequeue DEF Drain
    <3>2. CASE queue[1] = Close
      <4>1. /\ worker = "drain" /\ closing' = "unavailable"
            /\ UNCHANGED <<state, permits, future, calls, thread, connection, log, closer>>
        BY <1>15, <2>2, <3>1, <3>2 DEF Drain, thread
      <4> QED
        BY <3>1, <3>2, <4>1, Types DEF Verdicts, CloseLast, Phases, Once, Busy, NothingLost, Queued, calls, thread, closers
    <3>3. CASE queue[1] # Close
      <4>1. /\ worker = "drain" /\ permits' = permits + 1
            /\ future' = [future EXCEPT ![queue[1]] = "unavailable"]
            /\ UNCHANGED <<state, calls, thread, connection, log, closers>>
        BY <1>15, <2>2, <3>1, <3>3 DEF Drain, thread, closers
      <4>2. future[queue[1]] = "pending"
        BY <3>1, <3>3 DEF NothingLost, Queued
      <4>3. \A r \in Requests : call'[r] = "new" => future'[r] = "none"
        BY <3>1, <3>3, <4>1, <4>2, Types DEF Once, calls
      <4> QED
        BY <3>1, <3>3, <4>1, <4>3 DEF Once, Busy, thread
    <3> QED
      BY <3>2, <3>3
  <2> QED
    BY <2>1, <2>2
<1>16. ASSUME UNCHANGED vars
       PROVE  Once'
  BY <1>16 DEF TypeOK, Verdicts, CloseLast, Phases, Once, Busy, NothingLost, Queued, vars, calls, thread, closers
<1> QED
  BY <1>1, <1>2, <1>3, <1>4, <1>5, <1>6, <1>7, <1>8, <1>9, <1>10, <1>11, <1>12, <1>13, <1>14, <1>15, <1>16 DEF Next, Work

LEMMA NothingLostStep ==
    ASSUME TypeOK, CloseLast, Once, NothingLost, [Next]_vars
    PROVE  NothingLost'
<1>1. ASSUME NEW r \in Requests, Admit(r)
       PROVE  NothingLost'
  <2>1. queue' = Append(queue, r)
    BY <1>1 DEF Admit
  <2> QED
    BY <1>1, <2>1, Enqueue, Types DEF Verdicts, CloseLast, Once, Busy, NothingLost, Queued, Admit, calls, thread, closers
<1>2. ASSUME NEW r \in Requests, Refuse(r)
       PROVE  NothingLost'
  BY <1>2 DEF TypeOK, Verdicts, CloseLast, Once, Busy, NothingLost, Queued, Refuse, Return, calls, thread, closers
<1>3. ASSUME NEW r \in Requests, Cancel(r)
       PROVE  NothingLost'
  BY <1>3 DEF TypeOK, Verdicts, CloseLast, Once, Busy, NothingLost, Queued, Cancel, Return, calls, thread, closers
<1>4. ASSUME NEW r \in Requests, Answer(r)
       PROVE  NothingLost'
  BY <1>4 DEF TypeOK, Verdicts, CloseLast, Once, Busy, NothingLost, Queued, Answer, Return, calls, thread, closers
<1>5. ASSUME NEW k \in Closers, BeginClose(k)
       PROVE  NothingLost'
  <2>1. CASE closing = "none" /\ state = "open"
    <3>1. queue' = Append(queue, Close)
      BY <1>5, <2>1 DEF BeginClose
    <3> QED
      BY <1>5, <2>1, <3>1, Enqueue, Types DEF Verdicts, CloseLast, Once, Busy, NothingLost, Queued, BeginClose, calls, thread, closers
  <2>2. CASE ~(closing = "none" /\ state = "open")
    BY <1>5, <2>2, Types DEF Verdicts, CloseLast, Once, Busy, NothingLost, Queued, BeginClose, calls, thread, closers
  <2> QED
    BY <2>1, <2>2
<1>6. ASSUME NEW k \in Closers, CloseReturns(k)
       PROVE  NothingLost'
  BY <1>6 DEF TypeOK, Verdicts, CloseLast, Once, Busy, NothingLost, Queued, CloseReturns, calls, thread, closers
<1>7. ASSUME Take
       PROVE  NothingLost'
  <2>1. /\ Len(queue) \in Nat \ {0} /\ Len(queue') = Len(queue) - 1
        /\ queue[1] = Head(queue) /\ queue[1] \in Requests \cup {Close}
        /\ \A i \in 1..Len(queue') : i + 1 \in 1..Len(queue) /\ queue'[i] = queue[i + 1]
        /\ \A i \in 1..Len(queue) :
             i # 1 => i - 1 \in 1..Len(queue') /\ queue[i] = queue'[i - 1]
    BY <1>7, Dequeue DEF Take
  <2>2. CASE queue[1] = Close
    <3>1. /\ worker = "take" /\ worker' = "leave" /\ closing' = "taken" /\ item' = Close
          /\ UNCHANGED <<state, permits, future, calls, outcome, fatal, connection, log, closer>>
      BY <1>7, <2>1, <2>2 DEF Take
    <3> QED
      BY <2>1, <2>2, <3>1, Types DEF Verdicts, CloseLast, Once, Busy, NothingLost, Queued, calls, thread, closers
  <2>3. CASE queue[1] # Close
    <3>1. /\ worker = "take" /\ worker' = "release" /\ item' = queue[1]
          /\ UNCHANGED <<state, permits, future, calls, outcome, fatal, connection, log, closers>>
      BY <1>7, <2>1, <2>3 DEF Take, closers
    <3>2. \A q \in Requests : q \in Queued <=> q = queue[1] \/ q \in Queued'
      BY <2>1 DEF Queued
    <3> QED
      BY <3>1, <3>2 DEF NothingLost
  <2> QED
    BY <2>2, <2>3
<1>8. ASSUME ReleasePermit
       PROVE  NothingLost'
  BY <1>8 DEF TypeOK, Verdicts, CloseLast, Once, Busy, NothingLost, Queued, ReleasePermit, calls, thread, closers
<1>9. ASSUME Transaction
       PROVE  NothingLost'
  BY <1>9 DEF TypeOK, Verdicts, CloseLast, Once, Busy, NothingLost, Queued, Transaction, Finish, calls, thread, closers
<1>10. ASSUME Control
       PROVE  NothingLost'
  BY <1>10 DEF TypeOK, Verdicts, CloseLast, Once, Busy, NothingLost, Queued, Control, Finish, calls, thread, closers
<1>11. ASSUME Publish
       PROVE  NothingLost'
  BY <1>11 DEF TypeOK, Verdicts, CloseLast, Once, Busy, NothingLost, Queued, Publish, calls, thread, closers
<1>12. ASSUME CloseConnection
       PROVE  NothingLost'
  BY <1>12 DEF TypeOK, Verdicts, CloseLast, Once, Busy, NothingLost, Queued, CloseConnection, calls, thread, closers
<1>13. ASSUME Settle
       PROVE  NothingLost'
  BY <1>13 DEF TypeOK, Verdicts, CloseLast, Once, Busy, NothingLost, Queued, Settle, calls, thread, closers
<1>14. ASSUME Tell
       PROVE  NothingLost'
  BY <1>14 DEF TypeOK, Verdicts, CloseLast, Once, Busy, NothingLost, Queued, Tell, calls, thread, closers
<1>15. ASSUME Drain
       PROVE  NothingLost'
  <2>1. CASE queue = <<>>
    BY <1>15, <2>1, Types DEF Verdicts, CloseLast, Once, Busy, NothingLost, Queued, Drain, calls, thread, closers
  <2>2. CASE queue # <<>>
    <3>1. /\ Len(queue) \in Nat \ {0} /\ Len(queue') = Len(queue) - 1
          /\ queue[1] = Head(queue) /\ queue[1] \in Requests \cup {Close}
          /\ \A i \in 1..Len(queue') : i + 1 \in 1..Len(queue) /\ queue'[i] = queue[i + 1]
          /\ \A i \in 1..Len(queue) :
               i # 1 => i - 1 \in 1..Len(queue') /\ queue[i] = queue'[i - 1]
      BY <1>15, <2>2, Dequeue DEF Drain
    <3>2. CASE queue[1] = Close
      <4>1. /\ worker = "drain" /\ closing' = "unavailable"
            /\ UNCHANGED <<state, permits, future, calls, thread, connection, log, closer>>
        BY <1>15, <2>2, <3>1, <3>2 DEF Drain, thread
      <4> QED
        BY <3>1, <3>2, <4>1, Types DEF Verdicts, CloseLast, Once, Busy, NothingLost, Queued, calls, thread, closers
    <3>3. CASE queue[1] # Close
      <4>1. /\ worker = "drain" /\ permits' = permits + 1
            /\ future' = [future EXCEPT ![queue[1]] = "unavailable"]
            /\ UNCHANGED <<state, calls, thread, connection, log, closers>>
        BY <1>15, <2>2, <3>1, <3>3 DEF Drain, thread, closers
      <4> QED
        BY <3>1, <3>3, <4>1, Types DEF Verdicts, CloseLast, Once, Busy, NothingLost, Queued, calls, thread, closers
    <3> QED
      BY <3>2, <3>3
  <2> QED
    BY <2>1, <2>2
<1>16. ASSUME UNCHANGED vars
       PROVE  NothingLost'
  BY <1>16 DEF TypeOK, Verdicts, CloseLast, Once, Busy, NothingLost, Queued, vars, calls, thread, closers
<1> QED
  BY <1>1, <1>2, <1>3, <1>4, <1>5, <1>6, <1>7, <1>8, <1>9, <1>10, <1>11, <1>12, <1>13, <1>14, <1>15, <1>16 DEF Next, Work

LEMMA CommittedStep ==
    ASSUME TypeOK, CloseLast, Once, NothingLost, Committed, [Next]_vars
    PROVE  Committed'
<1>1. ASSUME NEW r \in Requests, Admit(r)
       PROVE  Committed'
  <2>1. queue' = Append(queue, r)
    BY <1>1 DEF Admit
  <2> QED
    BY <1>1, <2>1, Enqueue, Types DEF Verdicts, CloseLast, Once, Busy, NothingLost, Queued, Committed, Admit, calls, thread, closers
<1>2. ASSUME NEW r \in Requests, Refuse(r)
       PROVE  Committed'
  BY <1>2 DEF TypeOK, Verdicts, CloseLast, Once, Busy, NothingLost, Queued, Committed, Refuse, Return, calls, thread, closers
<1>3. ASSUME NEW r \in Requests, Cancel(r)
       PROVE  Committed'
  BY <1>3 DEF TypeOK, Verdicts, CloseLast, Once, Busy, NothingLost, Queued, Committed, Cancel, Return, calls, thread, closers
<1>4. ASSUME NEW r \in Requests, Answer(r)
       PROVE  Committed'
  BY <1>4 DEF TypeOK, Verdicts, CloseLast, Once, Busy, NothingLost, Queued, Committed, Answer, Return, calls, thread, closers
<1>5. ASSUME NEW k \in Closers, BeginClose(k)
       PROVE  Committed'
  <2>1. CASE closing = "none" /\ state = "open"
    <3>1. queue' = Append(queue, Close)
      BY <1>5, <2>1 DEF BeginClose
    <3> QED
      BY <1>5, <2>1, <3>1, Enqueue, Types DEF Verdicts, CloseLast, Once, Busy, NothingLost, Queued, Committed, BeginClose, calls, thread, closers
  <2>2. CASE ~(closing = "none" /\ state = "open")
    BY <1>5, <2>2, Types DEF Verdicts, CloseLast, Once, Busy, NothingLost, Queued, Committed, BeginClose, calls, thread, closers
  <2> QED
    BY <2>1, <2>2
<1>6. ASSUME NEW k \in Closers, CloseReturns(k)
       PROVE  Committed'
  BY <1>6 DEF TypeOK, Verdicts, CloseLast, Once, Busy, NothingLost, Queued, Committed, CloseReturns, calls, thread, closers
<1>7. ASSUME Take
       PROVE  Committed'
  <2>1. /\ Len(queue) \in Nat \ {0} /\ Len(queue') = Len(queue) - 1
        /\ queue[1] = Head(queue) /\ queue[1] \in Requests \cup {Close}
        /\ \A i \in 1..Len(queue') : i + 1 \in 1..Len(queue) /\ queue'[i] = queue[i + 1]
        /\ \A i \in 1..Len(queue) :
             i # 1 => i - 1 \in 1..Len(queue') /\ queue[i] = queue'[i - 1]
    BY <1>7, Dequeue DEF Take
  <2>2. CASE queue[1] = Close
    <3>1. /\ worker = "take" /\ worker' = "leave" /\ closing' = "taken" /\ item' = Close
          /\ UNCHANGED <<state, permits, future, calls, outcome, fatal, connection, log, closer>>
      BY <1>7, <2>1, <2>2 DEF Take
    <3> QED
      BY <2>1, <2>2, <3>1, Types DEF Verdicts, CloseLast, Once, Busy, NothingLost, Queued, Committed, calls, thread, closers
  <2>3. CASE queue[1] # Close
    <3>1. /\ worker = "take" /\ worker' = "release" /\ item' = queue[1]
          /\ UNCHANGED <<state, permits, future, calls, outcome, fatal, connection, log, closers>>
      BY <1>7, <2>1, <2>3 DEF Take, closers
    <3> QED
      BY <2>1, <2>3, <3>1, Types DEF Verdicts, CloseLast, Once, Busy, NothingLost, Queued, Committed, calls, thread, closers
  <2> QED
    BY <2>2, <2>3
<1>8. ASSUME ReleasePermit
       PROVE  Committed'
  BY <1>8 DEF TypeOK, Verdicts, CloseLast, Once, Busy, NothingLost, Queued, Committed, ReleasePermit, calls, thread, closers
<1>9. ASSUME Transaction
       PROVE  Committed'
  <2>1. item \in Requests /\ Len(log) \in Nat /\ future[item] = "pending"
    BY <1>9 DEF Once, Busy, NothingLost, Transaction, TypeOK
  <2>2. CASE log' = Append(log, item)
    <3>1. /\ Len(log') = Len(log) + 1 /\ log'[Len(log')] = item
          /\ \A i \in 1..Len(log) : log'[i] = log[i]
          /\ \A i \in 1..Len(log') : i # Len(log') => i \in 1..Len(log)
      BY <2>1, <2>2, CommitLog
    <3>2. worker' = "publish" /\ item' = item /\ UNCHANGED future
      BY <1>9 DEF Transaction, Finish
    <3>3. outcome' = "result" \/ log' = log
      BY <1>9 DEF Transaction, Finish
    <3>4. log' # log
      BY <2>1, <3>1
    <3> QED
      BY <1>9, <2>1, <3>1, <3>2, <3>3, <3>4 DEF Committed, Transaction
  <2>3. CASE log' = log
    BY <1>9, <2>1, <2>3 DEF TypeOK, Verdicts, CloseLast, Once, Busy, NothingLost, Queued, Committed, Transaction, Finish, calls, thread, closers
  <2> QED
    BY <1>9, <2>2, <2>3 DEF Transaction
<1>10. ASSUME Control
       PROVE  Committed'
  BY <1>10 DEF TypeOK, Verdicts, CloseLast, Once, Busy, NothingLost, Queued, Committed, Control, Finish, calls, thread, closers
<1>11. ASSUME Publish
       PROVE  Committed'
  BY <1>11 DEF TypeOK, Verdicts, CloseLast, Once, Busy, NothingLost, Queued, Committed, Publish, calls, thread, closers
<1>12. ASSUME CloseConnection
       PROVE  Committed'
  BY <1>12 DEF TypeOK, Verdicts, CloseLast, Once, Busy, NothingLost, Queued, Committed, CloseConnection, calls, thread, closers
<1>13. ASSUME Settle
       PROVE  Committed'
  BY <1>13 DEF TypeOK, Verdicts, CloseLast, Once, Busy, NothingLost, Queued, Committed, Settle, calls, thread, closers
<1>14. ASSUME Tell
       PROVE  Committed'
  BY <1>14 DEF TypeOK, Verdicts, CloseLast, Once, Busy, NothingLost, Queued, Committed, Tell, calls, thread, closers
<1>15. ASSUME Drain
       PROVE  Committed'
  <2>1. CASE queue = <<>>
    BY <1>15, <2>1, Types DEF Verdicts, CloseLast, Once, Busy, NothingLost, Queued, Committed, Drain, calls, thread, closers
  <2>2. CASE queue # <<>>
    <3>1. /\ Len(queue) \in Nat \ {0} /\ Len(queue') = Len(queue) - 1
          /\ queue[1] = Head(queue) /\ queue[1] \in Requests \cup {Close}
          /\ \A i \in 1..Len(queue') : i + 1 \in 1..Len(queue) /\ queue'[i] = queue[i + 1]
          /\ \A i \in 1..Len(queue) :
               i # 1 => i - 1 \in 1..Len(queue') /\ queue[i] = queue'[i - 1]
      BY <1>15, <2>2, Dequeue DEF Drain
    <3>2. CASE queue[1] = Close
      <4>1. /\ worker = "drain" /\ closing' = "unavailable"
            /\ UNCHANGED <<state, permits, future, calls, thread, connection, log, closer>>
        BY <1>15, <2>2, <3>1, <3>2 DEF Drain, thread
      <4> QED
        BY <3>1, <3>2, <4>1, Types DEF Verdicts, CloseLast, Once, Busy, NothingLost, Queued, Committed, calls, thread, closers
    <3>3. CASE queue[1] # Close
      <4>1. /\ worker = "drain" /\ permits' = permits + 1
            /\ future' = [future EXCEPT ![queue[1]] = "unavailable"]
            /\ UNCHANGED <<state, calls, thread, connection, log, closers>>
        BY <1>15, <2>2, <3>1, <3>3 DEF Drain, thread, closers
      <4> QED
        BY <3>1, <3>3, <4>1, Types DEF Verdicts, CloseLast, Once, Busy, NothingLost, Queued, Committed, calls, thread, closers
    <3> QED
      BY <3>2, <3>3
  <2> QED
    BY <2>1, <2>2
<1>16. ASSUME UNCHANGED vars
       PROVE  Committed'
  BY <1>16 DEF TypeOK, Verdicts, CloseLast, Once, Busy, NothingLost, Queued, Committed, vars, calls, thread, closers
<1> QED
  BY <1>1, <1>2, <1>3, <1>4, <1>5, <1>6, <1>7, <1>8, <1>9, <1>10, <1>11, <1>12, <1>13, <1>14, <1>15, <1>16 DEF Next, Work

\* A durable call stays undecided as long as its request.
LEMMA KnownStep ==
    ASSUME TypeOK, Once, DurableOutcomeKnown, [Next]_vars
    PROVE  DurableOutcomeKnown'
<1>1. ASSUME NEW r \in Requests, Admit(r)
       PROVE  DurableOutcomeKnown'
  BY <1>1 DEF TypeOK, Verdicts, Once, Busy, DurableOutcomeKnown, Admit, calls, thread, closers
<1>2. ASSUME NEW r \in Requests, Refuse(r)
       PROVE  DurableOutcomeKnown'
  BY <1>2 DEF TypeOK, Verdicts, Once, Busy, DurableOutcomeKnown, Refuse, Return, calls, thread, closers
<1>3. ASSUME NEW r \in Requests, Cancel(r)
       PROVE  DurableOutcomeKnown'
  BY <1>3 DEF TypeOK, Verdicts, Once, Busy, DurableOutcomeKnown, Cancel, Return, calls, thread, closers
<1>4. ASSUME NEW r \in Requests, Answer(r)
       PROVE  DurableOutcomeKnown'
  BY <1>4 DEF TypeOK, Verdicts, Once, Busy, DurableOutcomeKnown, Answer, Return, calls, thread, closers
<1>5. ASSUME NEW k \in Closers, BeginClose(k)
       PROVE  DurableOutcomeKnown'
  BY <1>5 DEF TypeOK, Verdicts, Once, Busy, DurableOutcomeKnown, BeginClose, calls, thread, closers
<1>6. ASSUME NEW k \in Closers, CloseReturns(k)
       PROVE  DurableOutcomeKnown'
  BY <1>6 DEF TypeOK, Verdicts, Once, Busy, DurableOutcomeKnown, CloseReturns, calls, thread, closers
<1>7. ASSUME Take
       PROVE  DurableOutcomeKnown'
  BY <1>7 DEF DurableOutcomeKnown, Take, calls
<1>8. ASSUME ReleasePermit
       PROVE  DurableOutcomeKnown'
  BY <1>8 DEF TypeOK, Verdicts, Once, Busy, DurableOutcomeKnown, ReleasePermit, calls, thread, closers
<1>9. ASSUME Transaction
       PROVE  DurableOutcomeKnown'
  BY <1>9 DEF TypeOK, Verdicts, Once, Busy, DurableOutcomeKnown, Transaction, Finish, calls, thread, closers
<1>10. ASSUME Control
       PROVE  DurableOutcomeKnown'
  BY <1>10 DEF TypeOK, Verdicts, Once, Busy, DurableOutcomeKnown, Control, Finish, calls, thread, closers
<1>11. ASSUME Publish
       PROVE  DurableOutcomeKnown'
  BY <1>11 DEF TypeOK, Verdicts, Once, Busy, DurableOutcomeKnown, Publish, calls, thread, closers
<1>12. ASSUME CloseConnection
       PROVE  DurableOutcomeKnown'
  BY <1>12 DEF TypeOK, Verdicts, Once, Busy, DurableOutcomeKnown, CloseConnection, calls, thread, closers
<1>13. ASSUME Settle
       PROVE  DurableOutcomeKnown'
  BY <1>13 DEF TypeOK, Verdicts, Once, Busy, DurableOutcomeKnown, Settle, calls, thread, closers
<1>14. ASSUME Tell
       PROVE  DurableOutcomeKnown'
  BY <1>14 DEF TypeOK, Verdicts, Once, Busy, DurableOutcomeKnown, Tell, calls, thread, closers
<1>15. ASSUME Drain
       PROVE  DurableOutcomeKnown'
  <2>1. \A q \in Requests : future'[q] \in {future[q], "unavailable"}
    BY <1>15, Dequeue, Types DEF Drain
  <2> QED
    BY <1>15, <2>1 DEF DurableOutcomeKnown, Drain, calls, Verdicts
<1>16. ASSUME UNCHANGED vars
       PROVE  DurableOutcomeKnown'
  BY <1>16 DEF TypeOK, Verdicts, Once, Busy, DurableOutcomeKnown, vars, calls, thread, closers
<1> QED
  BY <1>1, <1>2, <1>3, <1>4, <1>5, <1>6, <1>7, <1>8,
     <1>9, <1>10, <1>11, <1>12, <1>13, <1>14, <1>15, <1>16 DEF Next, Work

LEMMA EndingStep ==
    ASSUME TypeOK, Phases, Ending, [Next]_vars
    PROVE  Ending'
<1>1. ASSUME NEW r \in Requests, Admit(r)
       PROVE  Ending'
  BY <1>1 DEF TypeOK, Phases, Ending, Admit, calls, thread, closers
<1>2. ASSUME NEW r \in Requests, Refuse(r)
       PROVE  Ending'
  BY <1>2 DEF TypeOK, Phases, Ending, Refuse, Return, calls, thread, closers
<1>3. ASSUME NEW r \in Requests, Cancel(r)
       PROVE  Ending'
  BY <1>3 DEF TypeOK, Phases, Ending, Cancel, Return, calls, thread, closers
<1>4. ASSUME NEW r \in Requests, Answer(r)
       PROVE  Ending'
  BY <1>4 DEF TypeOK, Phases, Ending, Answer, Return, calls, thread, closers
<1>5. ASSUME NEW k \in Closers, BeginClose(k)
       PROVE  Ending'
  BY <1>5 DEF TypeOK, Phases, Ending, BeginClose, calls, thread, closers
<1>6. ASSUME NEW k \in Closers, CloseReturns(k)
       PROVE  Ending'
  BY <1>6 DEF TypeOK, Phases, Ending, CloseReturns, calls, thread, closers
<1>7. ASSUME Take
       PROVE  Ending'
  BY <1>7 DEF TypeOK, Phases, Ending, Take, calls, thread, closers
<1>8. ASSUME ReleasePermit
       PROVE  Ending'
  BY <1>8 DEF TypeOK, Phases, Ending, ReleasePermit, calls, thread, closers
<1>9. ASSUME Transaction
       PROVE  Ending'
  BY <1>9 DEF TypeOK, Phases, Ending, Transaction, Finish, calls, thread, closers
<1>10. ASSUME Control
       PROVE  Ending'
  BY <1>10 DEF TypeOK, Phases, Ending, Control, Finish, calls, thread, closers
<1>11. ASSUME Publish
       PROVE  Ending'
  BY <1>11 DEF TypeOK, Phases, Ending, Publish, calls, thread, closers
<1>12. ASSUME CloseConnection
       PROVE  Ending'
  BY <1>12 DEF TypeOK, Phases, Ending, CloseConnection, calls, thread, closers
<1>13. ASSUME Settle
       PROVE  Ending'
  BY <1>13 DEF TypeOK, Phases, Ending, Settle, calls, thread, closers
<1>14. ASSUME Tell
       PROVE  Ending'
  BY <1>14 DEF TypeOK, Phases, Ending, Tell, calls, thread, closers
<1>15. ASSUME Drain
       PROVE  Ending'
  BY <1>15 DEF TypeOK, Phases, Ending, Drain, calls, thread, closers
<1>16. ASSUME UNCHANGED vars
       PROVE  Ending'
  BY <1>16 DEF TypeOK, Phases, Ending, vars, calls, thread, closers
<1> QED
  BY <1>1, <1>2, <1>3, <1>4, <1>5, <1>6, <1>7, <1>8,
     <1>9, <1>10, <1>11, <1>12, <1>13, <1>14, <1>15, <1>16 DEF Next, Work

THEOREM Inductive == Spec => []IInv
<1>1. Init => IInv
  BY InitIInv
<1>2. IInv /\ [Next]_vars => IInv'
  BY TypeStep, CountsStep, CloseLastStep, PhasesStep, OnceStep, NothingLostStep,
     CommittedStep, KnownStep, EndingStep DEF IInv
<1> QED
  BY <1>1, <1>2, PTL DEF Spec

\* Every reachable state of the worker and its callers is well typed.
THEOREM TypeCorrect == Spec => []TypeOK
<1>1. IInv => TypeOK
  BY DEF IInv
<1> QED
  BY <1>1, Inductive, PTL

\* The queue never overflows and no permit is lost, for any capacity.
THEOREM QueueBounded == Spec => []QueueFits
<1>1. IInv => QueueFits
  BY DEF IInv, TypeOK, Counts, CloseLast, Phases, QueueFits
<1> QED
  BY <1>1, Inductive, PTL

\* Shutdown and failure lose no admitted request.
THEOREM AdmittedKept == Spec => []NothingLost
<1>1. IInv => NothingLost
  BY DEF IInv
<1> QED
  BY <1>1, Inductive, PTL

\* What a future says is what the database holds.
THEOREM VerdictsHold == Spec => []VerdictTellsCommit
<1>1. ASSUME IInv, NEW r \in Requests, NEW i \in 1..Len(log), log[i] = r
      PROVE  future[r] \in {"result", "pending"}
  BY <1>1 DEF IInv, Once, Busy, NothingLost, Committed
<1>2. ASSUME IInv PROVE VerdictTellsCommit
  <2> SUFFICES ASSUME NEW r \in Requests
               PROVE  /\ future[r] = "result" /\ Kind[r] = "write" => r \in Logged
                      /\ future[r] \in {"none", "error", "unavailable"} => r \notin Logged
    BY DEF VerdictTellsCommit
  <2>1. future[r] = "result" /\ Kind[r] = "write" => r \in Logged
    BY <1>2 DEF IInv, Committed, Logged
  <2>2. future[r] \in {"none", "error", "unavailable"} => r \notin Logged
    BY <1>1, <1>2 DEF Logged
  <2> QED
    BY <2>1, <2>2
<1> QED
  BY <1>2, Inductive, PTL

\* A durable call ends with its outcome known, also when it was cancelled.
THEOREM OutcomeKnown == Spec => []DurableOutcomeKnown
<1>1. IInv => DurableOutcomeKnown
  BY DEF IInv
<1> QED
  BY <1>1, Inductive, PTL

\* An aclose that returned leaves no connection, and no pending request unless
\* the worker failed and is answering them.
THEOREM CloseDrains == Spec => []ClosedIsDrained
<1>1. ASSUME IInv PROVE ClosedIsDrained
  <2> SUFFICES ASSUME NEW k \in Closers, closer[k] = "returned"
               PROVE  /\ connection = "none" /\ state \in {"closed", "failed"}
                      /\ state = "closed" =>
                            queue = <<>> /\ \A r \in Requests : future[r] # "pending"
    BY DEF ClosedIsDrained
  <2>1. connection = "none" /\ state \in {"closed", "failed"}
    BY <1>1 DEF IInv, Ending
  <2>2. ASSUME state = "closed"
        PROVE  queue = <<>> /\ ~Busy
    BY <1>1, <2>2 DEF IInv, Ending, Phases, Busy
  <2>3. ASSUME state = "closed"
        PROVE  Queued = {}
    BY <2>2, <2>3 DEF Queued
  <2> QED
    BY <1>1, <2>1, <2>2, <2>3 DEF IInv, NothingLost, Busy
<1> QED
  BY <1>1, Inductive, PTL

\* Every request is accounted for, for any capacity, requests and closers.
THEOREM Accounted == Spec => []RequestsAccounted
  BY QueueBounded, AdmittedKept, VerdictsHold, OutcomeKnown, CloseDrains, PTL
  DEF RequestsAccounted

-----------------------------------------------------------------------------
(* The worker implements SerialStore.                                       *)

\* What waits is the queue without the close item.
LEMMA WaitingQueue ==
    ASSUME IInv
    PROVE  /\ Waiting \in Seq(Requests)
           /\ Len(Waiting) = IF closing = "queued" THEN Len(queue) - 1 ELSE Len(queue)
           /\ \A i \in 1..Len(Waiting) : i \in 1..Len(queue) /\ Waiting[i] = queue[i]
<1>1. queue \in Seq(Requests \cup {Close})
  BY DEF IInv, TypeOK
<1>2. CASE closing = "queued"
  <2>1. Len(queue) \in Nat /\ Len(queue) > 0
    BY <1>1, <1>2 DEF IInv, CloseLast
  <2>2. Waiting = SubSeq(queue, 1, Len(queue) - 1)
    BY <1>2 DEF Waiting
  <2>3. \A i \in 1..(Len(queue) - 1) : queue[i] \in Requests
    <3> TAKE i \in 1..(Len(queue) - 1)
    <3>1. i # Len(queue) /\ i \in 1..Len(queue)
      BY <2>1
    <3>2. queue[i] # Close
      BY <3>1 DEF IInv, CloseLast
    <3> QED
      BY <1>1, <3>1, <3>2
  <2>4. Len(queue) - 1 \in Nat
    BY <2>1
  <2>5. /\ Waiting \in Seq(Requests)
        /\ Len(Waiting) = Len(queue) - 1
        /\ \A i \in 1..Len(Waiting) : i \in 1..Len(queue) /\ Waiting[i] = queue[i]
    <3> DEFINE n == Len(queue) - 1
    <3>1. 1 \in Int /\ n \in Int
      BY <2>4
    <3>2. \A i \in 1..n : queue[i] \in Requests
      BY <2>3
    <3> HIDE DEF n
    <3>3. /\ SubSeq(queue, 1, n) \in Seq(Requests)
          /\ Len(SubSeq(queue, 1, n)) = IF 1 <= n THEN n - 1 + 1 ELSE 0
          /\ \A i \in 1..(n - 1 + 1) : SubSeq(queue, 1, n)[i] = queue[1 + i - 1]
      BY <3>1, <3>2, SubSeqProperties
    <3>4. n = Len(queue) - 1 /\ Waiting = SubSeq(queue, 1, n)
      BY <2>2 DEF n
    <3>5. Len(Waiting) = n
      BY <2>4, <3>3, <3>4
    <3>6. ASSUME NEW i \in 1..n
          PROVE  i \in 1..Len(queue) /\ Waiting[i] = queue[i]
      <4>1. i \in 1..(n - 1 + 1) /\ 1 + i - 1 = i /\ i \in 1..Len(queue)
        BY <2>1, <3>4, <3>6
      <4> QED
        BY <3>3, <3>4, <4>1
    <3> QED
      BY <3>3, <3>4, <3>5, <3>6
  <2> QED
    BY <1>2, <2>5
<1>3. CASE closing # "queued"
  <2>1. Waiting = queue
    BY <1>3 DEF Waiting
  <2>2. \A i \in 1..Len(queue) : queue[i] # Close
    BY <1>3 DEF IInv, CloseLast
  <2>3. \A i \in 1..Len(queue) : queue[i] \in Requests
    BY <1>1, <2>2
  <2>4. queue \in Seq(Requests)
    BY <1>1, <2>3
  <2> QED
    BY <1>3, <2>1, <2>4
<1> QED
  BY <1>2, <1>3

\* The line is what the thread executes, and what waits.
LEMMA LineOf ==
    ASSUME IInv
    PROVE  /\ Line \in Seq(Requests)
           /\ worker \notin {"release", "execute"} => Line = Waiting
           /\ worker \in {"release", "execute"} =>
                /\ Line # <<>> /\ Head(Line) = item /\ Tail(Line) = Waiting
           /\ \A i \in 1..Len(Line) : \/ Busy /\ worker # "publish" /\ Line[i] = item
                                      \/ \E j \in 1..Len(queue) : Line[i] = queue[j]
<1>1. Waiting \in Seq(Requests)
  BY WaitingQueue
<1>2. CASE worker \in {"release", "execute"}
  <2>1. item \in Requests
    BY <1>2 DEF IInv, Once, Busy
  <2>2. Line = <<item>> \o Waiting
    BY <1>2 DEF Line
  <2>3. /\ Line \in Seq(Requests) /\ Len(Line) = Len(Waiting) + 1 /\ Line[1] = item
        /\ \A i \in 1..Len(Line) : i # 1 =>
              i - 1 \in 1..Len(Waiting) /\ Line[i] = Waiting[i - 1]
    BY <1>1, <2>1, <2>2
  <2>4. Line # <<>> /\ Head(Line) = item /\ Tail(Line) = Waiting
    BY <1>1, <2>1, <2>2
  <2> QED
    BY <1>2, <2>3, <2>4, WaitingQueue DEF Busy
<1>3. CASE worker \notin {"release", "execute"}
  BY <1>1, <1>3, WaitingQueue DEF Line
<1> QED
  BY <1>2, <1>3

\* What is in line is not settled.
LEMMA LineOpen ==
    ASSUME IInv, NEW i \in 1..Len(Line)
    PROVE  Line[i] \notin Settled
<1>1. Line[i] \in Requests
  BY LineOf
<1>2. /\ future[Line[i]] = "pending"
      /\ worker = "publish" => item # Line[i]
  BY <1>1, LineOf DEF IInv, NothingLost, Queued, Once, Busy
<1> QED
  BY <1>2 DEF Settled, Verdicts

\* Nothing changes for the store.
LEMMA StoreStutters ==
    ASSUME IInv, UNCHANGED log, Line' = Line, Settled' = Settled
    PROVE  [Serial!Next]_Serial!vars
  BY DEF Serial!vars

\* The oldest of the line is settled, and may have taken effect.
LEMMA StoreSettles ==
    ASSUME Line # <<>>, Line' = Tail(Line), Settled' = Settled \cup {Head(Line)},
           log' \in {log, Append(log, Head(Line))}
    PROVE  Serial!Next
  BY DEF Serial!Next, Serial!Settle

\* A request is refused.
LEMMA StoreRefuses ==
    ASSUME IInv, NEW r \in Requests, r \notin Settled,
           \A i \in 1..Len(Line) : Line[i] # r,
           Line' = Line, UNCHANGED log, Settled' = Settled \cup {r}
    PROVE  Serial!Next
  BY DEF Serial!Next, Serial!Refuse

\* A request joins the line.
LEMMA StoreAdmits ==
    ASSUME IInv, NEW r \in Requests, r \notin Settled,
           \A i \in 1..Len(Line) : Line[i] # r,
           Line' = Append(Line, r), UNCHANGED log, Settled' = Settled
    PROVE  Serial!Next
  BY DEF Serial!Next, Serial!Admit

\* What was not called is in no line.
LEMMA NewApart ==
    ASSUME IInv, NEW r \in Requests, call[r] = "new"
    PROVE  r \notin Settled /\ \A i \in 1..Len(Line) : Line[i] # r
<1>1. future[r] = "none"
  BY DEF IInv, Once
<1>2. /\ \A j \in 1..Len(queue) : queue[j] # r
      /\ Busy => item # r
  BY <1>1 DEF IInv, NothingLost, Queued, Busy
<1> QED
  BY <1>1, <1>2, LineOf DEF Settled, Verdicts, Busy

\* Steps that move neither queue nor thread leave the line.
LEMMA SameLine ==
    ASSUME queue' = queue, closing' = closing, item' = item,
           worker' \in {"release", "execute"} <=> worker \in {"release", "execute"}
    PROVE  Line' = Line
  BY DEF Line, Waiting

\* The item taken is the oldest that waits.
LEMMA Taken ==
    ASSUME IInv, queue # <<>>, queue' = Tail(queue), Head(queue) # Close,
           closing' = closing
    PROVE  Waiting # <<>> /\ Head(Waiting) = Head(queue) /\ Waiting' = Tail(Waiting)
<1>1. queue \in Seq(Requests \cup {Close})
  BY DEF IInv, TypeOK
<1>2. CASE closing = "queued"
  <2> DEFINE n == Len(queue)
  <2>1. n \in Nat \ {0} /\ queue[1] # Close /\ Head(queue) = queue[1]
    BY <1>1
  <2>2. n # 1
    BY <1>2, <2>1 DEF IInv, CloseLast
  <2>3. 1 \in 1..n /\ n - 1 \in 1..n /\ Waiting = SubSeq(queue, 1, n - 1)
    <3>1. Waiting = SubSeq(queue, 1, n - 1)
      BY <1>2 DEF Waiting
    <3> HIDE DEF n
    <3> QED
      BY <2>1, <2>2, <3>1
  <2>4. Head(Waiting) = queue[1] /\ Tail(Waiting) = SubSeq(queue, 1 + 1, n - 1)
    BY <1>1, <2>3, HeadTailOfSubSeq
  <2>5. Waiting # <<>>
    BY <2>1, <2>2, WaitingQueue, <1>2
  <2>6. Len(queue') = n - 1 /\ Waiting' = SubSeq(queue', 1, n - 2)
    <3>1. Len(queue') = n - 1
      BY <1>1
    <3>2. Waiting' = SubSeq(queue', 1, Len(queue') - 1)
      BY <1>2 DEF Waiting
    <3> QED
      BY <2>1, <3>1, <3>2
  <2>7. Waiting' = SubSeq(queue, 2, n - 1)
    <3>1. queue' \in Seq(Requests \cup {Close})
      BY <1>1
    <3>2. \A i \in 1..(n - 1) : queue'[i] = queue[i + 1]
      BY <1>1
    <3> HIDE DEF n
    <3>3. /\ SubSeq(queue', 1, n - 2) \in Seq(Requests \cup {Close})
          /\ Len(SubSeq(queue', 1, n - 2)) = n - 2
          /\ \A i \in 1..(n - 2) : SubSeq(queue', 1, n - 2)[i] = queue'[i]
      BY <2>1, <2>2, <2>6, <3>1
    <3>4. /\ SubSeq(queue, 2, n - 1) \in Seq(Requests \cup {Close})
          /\ Len(SubSeq(queue, 2, n - 1)) = n - 2
          /\ \A i \in 1..(n - 2) : SubSeq(queue, 2, n - 1)[i] = queue[i + 1]
      <4> DEFINE m == n - 1
      <4>1. 2 \in Int /\ m \in Int /\ (IF 2 <= m THEN m - 2 + 1 ELSE 0) = n - 2
            /\ m - 2 + 1 = n - 2
        BY <2>1, <2>2
      <4>2. \A i \in 2..m : queue[i] \in Requests \cup {Close}
        <5> TAKE i \in 2..m
        <5>1. i \in 1..n
          BY <2>1
        <5> QED
          BY <1>1, <5>1 DEF n
      <4> HIDE DEF m
      <4>3. /\ SubSeq(queue, 2, m) \in Seq(Requests \cup {Close})
            /\ Len(SubSeq(queue, 2, m)) = IF 2 <= m THEN m - 2 + 1 ELSE 0
            /\ \A i \in 1..(m - 2 + 1) : SubSeq(queue, 2, m)[i] = queue[2 + i - 1]
        BY <4>1, <4>2, SubSeqProperties
      <4>4. \A i \in 1..(n - 2) : 2 + i - 1 = i + 1
        BY <2>1
      <4> QED
        BY <4>1, <4>3, <4>4 DEF m
    <3> QED
      BY <2>1, <2>2, <2>6, <3>2, <3>3, <3>4, SeqEqual
  <2> QED
    BY <2>1, <2>4, <2>5, <2>7
<1>3. CASE closing # "queued"
  BY <1>3 DEF Waiting
<1> QED
  BY <1>2, <1>3

\* A waiting call was admitted.
Admitted == \A r \in Requests : call[r] = "waiting" => future[r] # "none"

LEMMA AdmittedStep ==
    ASSUME TypeOK, Once, Admitted, [Next]_vars
    PROVE  Admitted'
<1>1. ASSUME NEW r \in Requests, Admit(r)
       PROVE  Admitted'
  BY <1>1, Types DEF Admitted, Admit
<1>2. ASSUME NEW r \in Requests, Refuse(r)
       PROVE  Admitted'
  BY <1>2 DEF TypeOK, Verdicts, Once, Busy, Admitted, Refuse, Return, calls, thread, closers
<1>3. ASSUME NEW r \in Requests, Cancel(r)
       PROVE  Admitted'
  BY <1>3 DEF TypeOK, Verdicts, Once, Busy, Admitted, Cancel, Return, calls, thread, closers
<1>4. ASSUME NEW r \in Requests, Answer(r)
       PROVE  Admitted'
  BY <1>4 DEF TypeOK, Verdicts, Once, Busy, Admitted, Answer, Return, calls, thread, closers
<1>5. ASSUME NEW k \in Closers, BeginClose(k)
       PROVE  Admitted'
  BY <1>5 DEF TypeOK, Verdicts, Once, Busy, Admitted, BeginClose, calls, thread, closers
<1>6. ASSUME NEW k \in Closers, CloseReturns(k)
       PROVE  Admitted'
  BY <1>6 DEF TypeOK, Verdicts, Once, Busy, Admitted, CloseReturns, calls, thread, closers
<1>7. ASSUME Take
       PROVE  Admitted'
  BY <1>7 DEF Admitted, Take, calls
<1>8. ASSUME ReleasePermit
       PROVE  Admitted'
  BY <1>8 DEF TypeOK, Verdicts, Once, Busy, Admitted, ReleasePermit, calls, thread, closers
<1>9. ASSUME Transaction
       PROVE  Admitted'
  BY <1>9 DEF TypeOK, Verdicts, Once, Busy, Admitted, Transaction, Finish, calls, thread, closers
<1>10. ASSUME Control
       PROVE  Admitted'
  BY <1>10 DEF TypeOK, Verdicts, Once, Busy, Admitted, Control, Finish, calls, thread, closers
<1>11. ASSUME Publish
       PROVE  Admitted'
  BY <1>11 DEF TypeOK, Verdicts, Once, Busy, Admitted, Publish, calls, thread, closers
<1>12. ASSUME CloseConnection
       PROVE  Admitted'
  BY <1>12 DEF TypeOK, Verdicts, Once, Busy, Admitted, CloseConnection, calls, thread, closers
<1>13. ASSUME Settle
       PROVE  Admitted'
  BY <1>13 DEF TypeOK, Verdicts, Once, Busy, Admitted, Settle, calls, thread, closers
<1>14. ASSUME Tell
       PROVE  Admitted'
  BY <1>14 DEF TypeOK, Verdicts, Once, Busy, Admitted, Tell, calls, thread, closers
<1>15. ASSUME Drain
       PROVE  Admitted'
  <2>1. \A q \in Requests : future'[q] \in {future[q], "unavailable"}
    BY <1>15, Dequeue, Types DEF Drain
  <2> QED
    BY <1>15, <2>1 DEF Admitted, Drain, calls
<1>16. ASSUME UNCHANGED vars
       PROVE  Admitted'
  BY <1>16 DEF TypeOK, Verdicts, Once, Busy, Admitted, vars, calls, thread, closers
<1> QED
  BY <1>1, <1>2, <1>3, <1>4, <1>5, <1>6, <1>7, <1>8,
     <1>9, <1>10, <1>11, <1>12, <1>13, <1>14, <1>15, <1>16 DEF Next, Work

\* Every step of the worker and its callers is a step of the store, or none.
LEMMA ServesStep ==
    ASSUME IInv, Admitted, [Next]_vars
    PROVE  [Serial!Next]_Serial!vars
<1>1. ASSUME NEW r \in Requests, Admit(r)
       PROVE  [Serial!Next]_Serial!vars
  <2>1. queue' = Append(queue, r) /\ Waiting = queue /\ Waiting' = queue'
    BY <1>1 DEF Admit, IInv, Phases, Waiting, closers
  <2>2. Line' = Append(Line, r)
    <3>1. Waiting \in Seq(Requests)
      BY WaitingQueue
    <3>2. CASE worker \in {"release", "execute"}
      <4>1. item \in Requests /\ Line = <<item>> \o Waiting
        BY <3>2 DEF IInv, Once, Busy, Line
      <4>2. Line' = <<item>> \o Append(Waiting, r)
        BY <1>1, <2>1, <3>2 DEF Admit, Line, thread
      <4>3. <<item>> \in Seq(Requests) /\ <<r>> \in Seq(Requests)
        BY <4>1
      <4>4. /\ Append(Waiting, r) = Waiting \o <<r>>
            /\ Append(Line, r) = Line \o <<r>>
        BY <3>1, AppendIsConcat, LineOf
      <4> QED
        BY <3>1, <4>1, <4>2, <4>3, <4>4, ConcatAssociative
    <3>3. CASE worker \notin {"release", "execute"}
      BY <1>1, <2>1, <3>3 DEF Admit, Line, thread
    <3> QED
      BY <3>2, <3>3
  <2>3. Settled' = Settled
    <3>1. /\ future' = [future EXCEPT ![r] = "pending"] /\ future[r] = "none"
          /\ call' = [call EXCEPT ![r] = "waiting"] /\ UNCHANGED <<item, worker>>
          /\ call[r] = "new" /\ ~(item = r /\ worker = "publish")
      BY <1>1, Types DEF Admit, IInv, Once, NothingLost, thread
    <3> QED
      BY <3>1, Types DEF Settled, IInv, Verdicts
  <2> QED
    BY <1>1, <2>2, <2>3, NewApart, StoreAdmits DEF Admit
<1>2. ASSUME NEW r \in Requests, Refuse(r)
       PROVE  [Serial!Next]_Serial!vars
  <2>1. Line' = Line
    BY <1>2, SameLine DEF Refuse, thread, closers
  <2>2. /\ call' = [call EXCEPT ![r] = "done"] /\ UNCHANGED <<future, item, worker, log>>
        /\ call[r] = "new" /\ future[r] = "none"
    BY <1>2 DEF Refuse, Return, thread, IInv, Once
  <2>3. Settled' = Settled \cup {r}
    BY <2>2, Types DEF Settled, IInv
  <2> QED
    BY <2>1, <2>2, <2>3, NewApart, StoreRefuses
<1>3. ASSUME NEW r \in Requests, Cancel(r)
       PROVE  [Serial!Next]_Serial!vars
  <2>1. Line' = Line
    BY <1>3, SameLine DEF Cancel, Return, thread, closers
  <2>2. /\ future[r] # "none" /\ UNCHANGED <<future, item, worker, log>>
        /\ call[r] # "done"
    BY <1>3 DEF Cancel, Return, thread, Admitted
  <2>3. \A p \in Requests : p # r => call'[p] = call[p]
    BY <1>3, Types DEF Cancel, Return, IInv
  <2>4. Settled' = Settled
    BY <2>2, <2>3 DEF Settled
  <2> QED
    BY <2>1, <2>2, <2>4, StoreStutters
<1>4. ASSUME NEW r \in Requests, Answer(r)
       PROVE  [Serial!Next]_Serial!vars
  <2>1. Line' = Line
    BY <1>4, SameLine DEF Answer, Return, thread, closers
  <2>2. /\ future[r] # "none" /\ UNCHANGED <<future, item, worker, log>>
        /\ call[r] # "done"
    BY <1>4 DEF Answer, Return, thread, Admitted
  <2>3. \A p \in Requests : p # r => call'[p] = call[p]
    BY <1>4, Types DEF Answer, Return, IInv
  <2>4. Settled' = Settled
    BY <2>2, <2>3 DEF Settled
  <2> QED
    BY <2>1, <2>2, <2>4, StoreStutters
<1>5. ASSUME NEW k \in Closers, BeginClose(k)
       PROVE  [Serial!Next]_Serial!vars
  <2>1. UNCHANGED <<item, worker, log, Settled>>
    BY <1>5 DEF BeginClose, thread, calls, Settled
  <2>2. CASE closing = "none" /\ state = "open"
    <3>1. queue' = Append(queue, Close) /\ closing' = "queued" /\ Waiting = queue
      BY <1>5, <2>2 DEF BeginClose, Waiting
    <3>2. queue \in Seq(Requests \cup {Close})
      BY DEF IInv, TypeOK
    <3>3. Waiting' = SubSeq(queue', 1, Len(queue))
      BY <3>1, <3>2 DEF Waiting
    <3>4. SubSeq(queue', 1, Len(queue)) = queue
      <4>1. queue' = queue \o <<Close>> /\ <<Close>> \in Seq(Requests \cup {Close})
        BY <3>1, <3>2, AppendIsConcat
      <4>2. CASE queue = <<>>
        <5>1. Len(queue) = 0 /\ 1 \in Int /\ 0 \in Int
          BY <4>2
        <5> QED
          BY <4>2, <5>1, SubSeqEmpty
      <4>3. CASE queue # <<>>
        <5>1. Len(queue) \in 1..Len(queue) /\ 1 \in 1..Len(queue)
          BY <3>2, <4>3
        <5> QED
          BY <3>2, <4>1, <5>1, SubSeqOfConcat1, SubSeqFull
      <4> QED
        BY <4>2, <4>3
    <3>5. Line' = Line
      BY <2>1, <3>1, <3>3, <3>4 DEF Line
    <3> QED
      BY <2>1, <3>5, StoreStutters
  <2>3. CASE ~(closing = "none" /\ state = "open")
    BY <1>5, <2>1, <2>3, SameLine, StoreStutters DEF BeginClose
  <2> QED
    BY <2>2, <2>3
<1>6. ASSUME NEW k \in Closers, CloseReturns(k)
       PROVE  [Serial!Next]_Serial!vars
  BY <1>6, SameLine, StoreStutters DEF CloseReturns, thread, calls, Settled
<1>7. ASSUME Take
       PROVE  [Serial!Next]_Serial!vars
  <2>1. /\ queue # <<>> /\ queue' = Tail(queue) /\ item' = Head(queue) /\ worker = "take"
        /\ UNCHANGED <<future, call, log>>
    BY <1>7 DEF Take, calls
  <2>2. Settled' = Settled
    BY <1>7, <2>1 DEF Take, Settled
  <2>3. CASE Head(queue) = Close
    <3>1. queue[1] = Close /\ 1 \in 1..Len(queue) /\ Len(queue) \in Nat
      BY <2>1, <2>3 DEF IInv, TypeOK
    <3>2. Len(queue) = 1 /\ closing = "queued"
      BY <3>1 DEF IInv, CloseLast
    <3>3. worker' = "leave" /\ closing' = "taken"
      BY <1>7, <2>3 DEF Take
    <3>4. Len(Waiting) = 0 /\ Waiting \in Seq(Requests)
      BY <3>2, WaitingQueue
    <3>5. Waiting' = <<>> /\ Waiting = <<>>
      BY <2>1, <3>2, <3>3, <3>4 DEF Waiting, IInv, TypeOK
    <3>6. Line' = Line
      BY <2>1, <3>3, <3>5 DEF Line
    <3> QED
      BY <2>1, <2>2, <3>6, StoreStutters
  <2>4. CASE Head(queue) # Close
    <3>1. worker' = "release" /\ closing' = closing
      BY <1>7, <2>4 DEF Take
    <3>2. Waiting # <<>> /\ Head(Waiting) = item' /\ Waiting' = Tail(Waiting)
      BY <2>1, <2>4, <3>1, Taken
    <3>3. Waiting \in Seq(Requests)
      BY WaitingQueue
    <3>4. Waiting = <<Head(Waiting)>> \o Tail(Waiting)
      BY <3>2, <3>3
    <3>5. Line' = Line
      BY <2>1, <3>1, <3>2, <3>4 DEF Line
    <3> QED
      BY <2>1, <2>2, <3>5, StoreStutters
  <2> QED
    BY <2>3, <2>4
<1>8. ASSUME ReleasePermit
       PROVE  [Serial!Next]_Serial!vars
  BY <1>8, SameLine, StoreStutters DEF ReleasePermit, calls, closers, Settled
<1>9. ASSUME Transaction
       PROVE  [Serial!Next]_Serial!vars
  <2>1. /\ worker = "execute" /\ worker' = "publish"
        /\ UNCHANGED <<item, future, call, queue, closing>>
    BY <1>9 DEF Transaction, Finish, calls, closers
  <2>2. Line # <<>> /\ Head(Line) = item /\ Tail(Line) = Waiting
    BY <2>1, LineOf
  <2>3. Line' = Waiting
    BY <2>1 DEF Line, Waiting
  <2>4. item \in Requests
    BY <2>1 DEF IInv, Once, Busy
  <2>5. Settled' = Settled \cup {item}
    BY <2>1, <2>4 DEF Settled
  <2>6. log' \in {log, Append(log, item)}
    BY <1>9 DEF Transaction
  <2> QED
    BY <2>2, <2>3, <2>5, <2>6, StoreSettles
<1>10. ASSUME Control
       PROVE  [Serial!Next]_Serial!vars
  <2>1. /\ worker = "execute" /\ worker' = "publish"
        /\ UNCHANGED <<item, future, call, queue, closing>>
    BY <1>10 DEF Control, Finish, calls, closers
  <2>2. Line # <<>> /\ Head(Line) = item /\ Tail(Line) = Waiting
    BY <2>1, LineOf
  <2>3. Line' = Waiting
    BY <2>1 DEF Line, Waiting
  <2>4. item \in Requests
    BY <2>1 DEF IInv, Once, Busy
  <2>5. Settled' = Settled \cup {item}
    BY <2>1, <2>4 DEF Settled
  <2>6. log' \in {log, Append(log, item)}
    BY <1>10 DEF Control
  <2> QED
    BY <2>2, <2>3, <2>5, <2>6, StoreSettles
<1>11. ASSUME Publish
       PROVE  [Serial!Next]_Serial!vars
  <2>1. /\ worker = "publish" /\ worker' \in {"leave", "take"}
        /\ future' = [future EXCEPT ![item] = outcome] /\ item' = Close
        /\ UNCHANGED <<call, queue, closing, log>>
    BY <1>11 DEF Publish, calls, closers
  <2>2. Line' = Line
    BY <2>1 DEF Line, Waiting
  <2>3. item \in Requests /\ outcome \in Verdicts /\ future[item] = "pending"
    BY <2>1 DEF IInv, Once, Busy, NothingLost
  <2>4. Settled' = Settled
    BY <2>1, <2>3, Types DEF Settled, IInv, Verdicts
  <2> QED
    BY <2>1, <2>2, <2>4, StoreStutters
<1>12. ASSUME CloseConnection
       PROVE  [Serial!Next]_Serial!vars
  BY <1>12, SameLine, StoreStutters DEF CloseConnection, calls, closers, Settled
<1>13. ASSUME Settle
       PROVE  [Serial!Next]_Serial!vars
  BY <1>13, SameLine, StoreStutters DEF Settle, calls, closers, Settled
<1>14. ASSUME Tell
       PROVE  [Serial!Next]_Serial!vars
  <2>1. /\ worker = "tell" /\ worker' \in {"drain", "stopped"}
        /\ closing' = "queued" <=> closing = "queued"
        /\ UNCHANGED <<item, future, call, queue, log>>
    BY <1>14 DEF Tell, calls
  <2>2. Line' = Line /\ Settled' = Settled
    BY <2>1 DEF Line, Waiting, Settled
  <2> QED
    BY <2>1, <2>2, StoreStutters
<1>15. ASSUME Drain
       PROVE  [Serial!Next]_Serial!vars
  <2>1. worker = "drain" /\ UNCHANGED <<item, call, log>>
    BY <1>15 DEF Drain, calls
  <2>2. Line = Waiting /\ Line' = Waiting'
    BY <1>15, <2>1 DEF Drain, Line
  <2>3. CASE queue = <<>>
    BY <1>15, <2>1, <2>2, <2>3, StoreStutters DEF Drain, Waiting, Settled
  <2>4. CASE queue # <<>> /\ Head(queue) = Close
    <3>1. queue[1] = Close /\ 1 \in 1..Len(queue) /\ Len(queue) \in Nat
      BY <2>4 DEF IInv, TypeOK
    <3>2. Len(queue) = 1 /\ closing = "queued"
      BY <3>1 DEF IInv, CloseLast
    <3>3. closing' = "unavailable" /\ queue' = Tail(queue) /\ worker' = worker /\ UNCHANGED future
      BY <1>15, <2>4 DEF Drain
    <3>4. Len(Waiting) = 0 /\ Waiting \in Seq(Requests)
      BY <3>2, WaitingQueue
    <3>5. Waiting' = <<>> /\ Waiting = <<>>
      BY <3>2, <3>3, <3>4 DEF Waiting, IInv, TypeOK
    <3>6. Settled' = Settled
      BY <2>1, <3>3 DEF Settled
    <3> QED
      BY <2>1, <2>2, <3>5, <3>6, StoreStutters
  <2>5. CASE queue # <<>> /\ Head(queue) # Close
    <3>1. /\ queue' = Tail(queue) /\ closing' = closing /\ worker' = worker
          /\ future' = [future EXCEPT ![Head(queue)] = "unavailable"]
      BY <1>15, <2>5 DEF Drain
    <3>2. Waiting # <<>> /\ Head(Waiting) = Head(queue) /\ Waiting' = Tail(Waiting)
      BY <2>5, <3>1, Taken
    <3>3. Head(queue) \in Requests /\ future[Head(queue)] = "pending"
      <4>1. Head(queue) = queue[1] /\ 1 \in 1..Len(queue) /\ Head(queue) \in Requests
        BY <2>5 DEF IInv, TypeOK
      <4> QED
        BY <4>1 DEF IInv, NothingLost, Queued
    <3>4. Settled' = Settled \cup {Head(queue)}
      BY <2>1, <3>1, <3>3, Types DEF Settled, IInv, Verdicts
    <3> QED
      BY <2>1, <2>2, <3>2, <3>4, StoreSettles
  <2> QED
    BY <2>3, <2>4, <2>5
<1>16. ASSUME UNCHANGED vars
       PROVE  [Serial!Next]_Serial!vars
  BY <1>16, SameLine, StoreStutters DEF vars, thread, calls, closers, Settled
<1> QED
  BY <1>1, <1>2, <1>3, <1>4, <1>5, <1>6, <1>7, <1>8,
     <1>9, <1>10, <1>11, <1>12, <1>13, <1>14, <1>15, <1>16 DEF Next, Work

LEMMA StoreInit == Init => Serial!Init /\ Admitted
<1> SUFFICES ASSUME Init PROVE Serial!Init /\ Admitted
  OBVIOUS
<1>1. Line = <<>>
  BY DEF Init, Line, Waiting
<1>2. Settled = {}
  BY DEF Init, Settled, Verdicts
<1> QED
  BY <1>1, <1>2 DEF Init, Serial!Init, Admitted

\* The worker is a store that serves one request at a time in the order of their
\* admission, for any requests, callers and capacity.
THEOREM InOrder == Spec => ServesInOrder
<1>1. Spec => []Admitted
  <2>1. IInv /\ Admitted /\ [Next]_vars => Admitted'
    BY AdmittedStep DEF IInv
  <2> QED
    BY <2>1, Inductive, StoreInit, PTL DEF Spec
<1>2. IInv /\ Admitted /\ [Next]_vars => [Serial!Next]_Serial!vars
  BY ServesStep
<1> QED
  BY <1>1, <1>2, Inductive, StoreInit, PTL DEF Spec, ServesInOrder, Serial!Spec

\* Both, for any requests, callers and capacity.
THEOREM Serves == Spec => RequestsServed
  BY Accounted, InOrder DEF RequestsServed
=============================================================================
