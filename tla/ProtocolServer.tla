--------------------------- MODULE ProtocolServer ---------------------------
(***************************************************************************)
(* The Core's side of the stdio protocol: protocol/stdio.py (the reader,   *)
(* the request tasks and the writer), core/events.py (EventEmitter) and    *)
(* application/events.py (the Turn's projector), around one foreground     *)
(* Operation at a time, which OperationController models in full.          *)
(*                                                                         *)
(* A frame enters `held` when its sender asks for the writer's lock.  The  *)
(* head is with the writing thread and will be written whatever happens to *)
(* its sender; the others still wait for the lock, and a sender that is    *)
(* cancelled there takes its frame back, after an event has already taken  *)
(* its sequence number.                                                    *)
(***************************************************************************)
EXTENDS Naturals, Sequences, SequencesExt

CONSTANTS Scripts,  \* bound: what the user types, kind by kind; an input is
                    \* named by its place, and so is the Operation it starts
          Bodies,   \* bound: the events of a Turn between start and terminal
          Frail,    \* bound: the scripts during which the Core may die
          PipeSize  \* bound: frames that stdout holds

\* "exit" is the exit key, "quit" the /quit command.
Kinds == {"turn", "direct", "new", "retry", "quit", "exit"}

ASSUME ServerAssumption ==
    /\ Scripts \subseteq Seq(Kinds) /\ Frail \subseteq Scripts
    /\ PipeSize \in Nat \ {0}

VARIABLES
    script,      \* the session's inputs
    toCore,      \* stdin: requests written and not read
    stdinOpen,   \* has the client closed its end?
    toClient,    \* stdout: frames written and not read
    core,        \* serve_stdio and the process
    inFlight,    \* pending_requests and pending_controls
    held,        \* frames that ask for, or have, the writer
    sequence,    \* EventEmitter._sequence
    withdrawn,   \* has an event taken its frame back?
    foreground,  \* the active Operation
    selected,    \* the Thread the Core works in
    ran,         \* the Operations started, with their Threads and ends
    repaired     \* did startup settle a Turn of an earlier process?

serverVars == <<script, core, inFlight, held, sequence, withdrawn,
                foreground, selected, ran, repaired>>
pipes == <<toCore, stdinOpen, toClient>>

-----------------------------------------------------------------------------
(* Frames *)

Request(id, method, about) == [id |-> id, method |-> method, about |-> about]
AnswerFrom(id, answer, thread) ==
    [kind |-> "answer", id |-> id, answer |-> answer, thread |-> thread]
\* `turn` is the Turn identity of the envelope, `thread` its Thread.
Event(n, type, o, thread, turn) ==
    [kind |-> "event", sequence |-> n, type |-> type, operation |-> o,
     thread |-> thread, turn |-> turn]

IsEvent(f) == f.kind = "event"
Terminal == {"completed", "failed", "cancelled"}
OperationEnd == [completed |-> "operation.completed", failed |-> "operation.failed",
                 cancelled |-> "operation.cancelled"]
TurnEnd == [completed |-> "turn.completed", failed |-> "turn.failed",
            cancelled |-> "turn.cancelled"]

Nobody == [input |-> 0, stage |-> "none", request |-> 0, body |-> <<>>,
           outcome |-> "none", begun |-> FALSE]
HasTurn(o) == script[o] \in {"turn", "retry"}

\* A Turn that startup reconciliation settled announces both its lifecycle
\* events, outside any Operation (0), before the session is served.
Repair == <<Event(1, "turn.started", 0, 1, TRUE), Event(2, "turn.failed", 0, 1, TRUE)>>

ServerInit ==
    /\ script \in Scripts
    /\ toCore = <<>> /\ stdinOpen = TRUE
    /\ repaired \in BOOLEAN
    /\ toClient = IF repaired THEN Repair ELSE <<>>
    /\ core = "serving"
    /\ inFlight = {}
    /\ held = <<>>
    /\ sequence = Len(toClient)
    /\ withdrawn = FALSE
    /\ foreground = Nobody
    /\ selected = 1
    /\ ran = <<>>

-----------------------------------------------------------------------------
(* The writer *)

Hold(frame, owner) == [frame |-> frame, owner |-> owner]

\* What remains of `held` when a sender is cancelled: its head stays.
Withdraw(owner) ==
    IF held = <<>> THEN <<>>
    ELSE <<Head(held)>> \o SelectSeq(Tail(held), LAMBDA h : h.owner # owner)

\* The writing thread finishes a frame and the next waiter gets the lock.
WriteEnds ==
    /\ core # "gone" /\ held # <<>> /\ Len(toClient) < PipeSize
    /\ toClient' = Append(toClient, Head(held).frame)
    /\ held' = Tail(held)
    /\ UNCHANGED <<toCore, stdinOpen, repaired, script, core, inFlight, sequence, withdrawn,
                   foreground, selected, ran>>

Written(owner) == \A k \in DOMAIN held : held[k].owner # owner
Events(queue) == SelectSeq(queue, LAMBDA h : IsEvent(h.frame))
EmitterFree == \A k \in DOMAIN held : ~IsEvent(held[k].frame)

\* emit(): the number is taken, then the sink is awaited.
Emit(queue, type, o, thread) ==
    /\ sequence' = sequence + 1
    /\ held' = Append(queue, Hold(Event(sequence + 1, type, o, thread,
                                        HasTurn(o)), "operation"))

Answer(id, answer) == AnswerFrom(id, answer, selected)
Respond(queue, id, answer) == Append(queue, Hold(Answer(id, answer), "request"))

-----------------------------------------------------------------------------
(* Cancellation of the foreground Operation *)

Cancellable == {"beginning", "running", "asking"}

\* cancel() before the Operation task runs only marks the Operation; while the
\* task runs it is cancelled wherever it waits, the writer's lock included.
Marked == [foreground EXCEPT !.outcome = "cancelled",
                             !.stage = IF @ = "starting" THEN @ ELSE "cancelling"]
LeftBy(f) == IF f.stage \in Cancellable THEN Withdraw("operation") ELSE held

-----------------------------------------------------------------------------
(* The reader *)

Reading == core = "serving" /\ toCore # <<>> /\ Written("reader")
Consume == toCore' = Tail(toCore) /\ UNCHANGED <<stdinOpen, toClient>>

\* Everything but cancellation and shutdown becomes a task of its own.
ReadRequest ==
    /\ Reading
    /\ Head(toCore).method \notin {"operation.cancel", "shutdown"}
    /\ inFlight' = inFlight \cup {Head(toCore)}
    /\ Consume
    /\ UNCHANGED <<repaired, script, core, held, sequence, withdrawn, foreground, selected, ran>>

ReaderAnswers(queue, id, answer) ==
    held' = Append(queue, Hold(Answer(id, answer), "reader"))

\* operation.cancel runs in the reader: refused for another Operation, and
\* for one that is cancelled already or has committed its end.
Accepts(o) == /\ foreground.input = o
              /\ foreground.outcome = "none"
              /\ foreground.stage \in Cancellable \cup {"starting"}

ReadCancel ==
    /\ Reading
    /\ Head(toCore).method = "operation.cancel"
    /\ Consume
    /\ IF Accepts(Head(toCore).about)
       THEN /\ foreground' = Marked
            /\ withdrawn' = (withdrawn \/ Events(LeftBy(foreground)) # Events(held))
            /\ ReaderAnswers(LeftBy(foreground), Head(toCore).id, "cancelled")
       ELSE /\ ReaderAnswers(held, Head(toCore).id, "refused")
            /\ UNCHANGED <<withdrawn, foreground>>
    /\ UNCHANGED <<repaired, script, core, inFlight, sequence, selected, ran>>

\* The requests in flight are cancelled, with the start one of them may be
\* making; then the application closes, which cancels the foreground.
StopServing(to, answering) ==
    /\ core' = to
    /\ inFlight' = answering
    /\ foreground' = CASE foreground.stage = "starting" -> Nobody
                       [] foreground.stage \in Cancellable -> Marked
                       [] OTHER -> foreground
    /\ ran' = IF foreground.stage = "starting"
              THEN [ran EXCEPT ![Len(ran)].outcome = "cancelled"] ELSE ran
    /\ held' = SelectSeq(LeftBy(foreground), LAMBDA h :
                  \/ h = Head(held) \/ h.owner = "reader"
                  \/ (h.owner = "operation" /\ foreground.stage # "starting"))
    /\ withdrawn' = (withdrawn \/ Events(held') # Events(held))
    /\ UNCHANGED <<repaired, script, sequence, selected>>

ReadShutdown ==
    /\ Reading
    /\ Head(toCore).method = "shutdown"
    /\ Consume
    /\ StopServing("closing", {Head(toCore)})

\* The client closed its end: the loop ends and the application is closed.
ReadEof ==
    /\ core = "serving" /\ ~stdinOpen /\ toCore = <<>>
    /\ StopServing("leaving", {})
    /\ UNCHANGED pipes

\* shutdown() returns once the foreground is free; without that it hangs, and
\* the terminal's deadline ends the process.
ShutdownAnswered ==
    /\ core = "closing" /\ foreground = Nobody
    /\ core' = "leaving"
    /\ inFlight' = {}
    /\ \E r \in inFlight : ReaderAnswers(held, r.id, "done")
    /\ UNCHANGED <<pipes, repaired, script, sequence, withdrawn, foreground, selected, ran>>

Leave ==
    /\ core = "leaving" /\ foreground = Nobody /\ held = <<>>
    /\ core' = "gone"
    /\ UNCHANGED <<pipes, repaired, script, inFlight, held, sequence, withdrawn,
                   foreground, selected, ran>>

\* The process ends at once: what the writer had is lost.
Killed ==
    /\ core # "gone"
    /\ core' = "gone" /\ held' = <<>>
    /\ UNCHANGED <<pipes, repaired, script, inFlight, sequence, withdrawn, foreground,
                   selected, ran>>

CoreDies == script \in Frail /\ Killed

-----------------------------------------------------------------------------
(* Request tasks *)

Serves(r, method) == core = "serving" /\ r \in inFlight /\ r.method = method

AnswerOnly(r, answer) ==
    /\ inFlight' = inFlight \ {r}
    /\ held' = Respond(held, r.id, answer)
    /\ UNCHANGED <<pipes, repaired, script, core, sequence, withdrawn, foreground, selected, ran>>

\* turn.submit, direct.execute and /retry reserve the foreground and announce
\* the Operation; /retry moves to the Thread it forks first.
StartReserved(r) ==
    /\ r \in inFlight /\ core = "serving"
    /\ \/ r.method = "submit"
       \/ r.method = "command" /\ script[r.about] = "retry"
    /\ foreground = Nobody /\ EmitterFree
    /\ foreground' = [Nobody EXCEPT !.input = r.about, !.stage = "starting",
                                    !.request = r.id]
    /\ selected' = selected + (IF script[r.about] = "retry" THEN 1 ELSE 0)
    /\ ran' = Append(ran, [input |-> r.about, thread |-> selected', outcome |-> "none"])
    /\ Emit(held, "operation.started", r.about, selected')
    /\ UNCHANGED <<pipes, repaired, script, core, inFlight, withdrawn>>

\* /new only changes the selected Thread.
SelectNew(r) ==
    /\ Serves(r, "command") /\ script[r.about] = "new"
    /\ foreground = Nobody
    /\ selected' = selected + 1
    /\ inFlight' = inFlight \ {r}
    /\ held' = Append(held, Hold(AnswerFrom(r.id, "done", selected'), "request"))
    /\ UNCHANGED <<pipes, repaired, script, core, sequence, withdrawn, foreground, ran>>

\* The foreground is kept until its owner has finalized, after its terminal, and
\* for ever by one that was refused.
Busy(r) ==
    /\ Serves(r, "submit") \/ Serves(r, "command")
    /\ foreground # Nobody /\ foreground.request # r.id
    /\ AnswerOnly(r, "busy")

ReadThread(r) == Serves(r, "thread.read") /\ AnswerOnly(r, "done")

\* interaction.respond: only the pending approval of the active Operation.
Resolve(r) ==
    /\ Serves(r, "interaction.respond") /\ EmitterFree
    /\ foreground.input = r.about /\ foreground.stage = "asking"
    /\ foreground' = [foreground EXCEPT !.stage = "running"]
    /\ sequence' = sequence + 1
    /\ held' = held \o
         <<Hold(Event(sequence + 1, "interaction.resolved", r.about, selected, TRUE),
                "request"), Hold(Answer(r.id, "done"), "request")>>
    /\ inFlight' = inFlight \ {r}
    /\ UNCHANGED <<pipes, repaired, script, core, withdrawn, selected, ran>>

ResolveRefused(r) ==
    /\ Serves(r, "interaction.respond")
    /\ ~(foreground.input = r.about /\ foreground.stage = "asking")
    /\ AnswerOnly(r, "refused")

-----------------------------------------------------------------------------
(* The Operation *)

At(stage) == core # "gone" /\ foreground.stage = stage /\ Written("operation")
Operation(f) == foreground' = f
Quietly == UNCHANGED <<pipes, repaired, script, core, inFlight, withdrawn, selected, ran>>

\* start_reserved() after operation.started is written: the task is created,
\* its first step announces the Turn, or is refused when the Operation was
\* cancelled meanwhile, and the request is answered.
Answered == [foreground EXCEPT !.request = 0]

Started ==
    /\ At("starting")
    /\ IF foreground.outcome = "cancelled"
       THEN /\ Operation([Answered EXCEPT !.stage = "refused"])
            /\ held' = Respond(held, foreground.request, "done")
            /\ UNCHANGED sequence
       ELSE IF HasTurn(foreground.input)
       THEN /\ Operation([Answered EXCEPT !.stage = "beginning"])
            /\ sequence' = sequence + 1
            /\ held' = held \o
                 <<Hold(Event(sequence + 1, "turn.started", foreground.input,
                              selected, TRUE), "operation"),
                   Hold(Answer(foreground.request, "done"), "request")>>
       ELSE /\ Operation([Answered EXCEPT !.stage = "running"])
            /\ held' = Respond(held, foreground.request, "done")
            /\ UNCHANGED sequence
    /\ inFlight' = {r \in inFlight : r.id # foreground.request}
    /\ UNCHANGED <<pipes, repaired, script, core, withdrawn, selected, ran>>

\* turn_started() returns: the projector and the emitter record the start.
TurnBegun ==
    /\ At("beginning")
    /\ \E body \in Bodies :
         Operation([foreground EXCEPT !.stage = "running", !.begun = TRUE, !.body = body])
    /\ UNCHANGED <<held, sequence>> /\ Quietly

\* A delta, or the approval a tool needs, which the Turn then waits for.
TurnEmits ==
    /\ At("running") /\ foreground.body # <<>> /\ EmitterFree
    /\ Emit(held, Head(foreground.body), foreground.input, selected)
    /\ Operation([foreground EXCEPT !.body = Tail(@),
            !.stage = IF Head(foreground.body) = "interaction.required"
                      THEN "asking" ELSE "running"])
    /\ Quietly

\* The end is committed; a Turn then announces its own terminal.
Commit(outcome) ==
    /\ At("running") /\ foreground.body = <<>> /\ EmitterFree
    /\ Operation([foreground EXCEPT !.stage = "ending", !.outcome = outcome])
    /\ IF foreground.begun
       THEN Emit(held, TurnEnd[outcome], foreground.input, selected)
       ELSE UNCHANGED <<held, sequence>>
    /\ Quietly

\* A cancelled Turn is persisted, then announced if its start was recorded.
FinishCancelled ==
    /\ core # "gone" /\ foreground.stage = "cancelling" /\ EmitterFree
    /\ Operation([foreground EXCEPT !.stage = "ending"])
    /\ IF foreground.begun
       THEN Emit(held, "turn.cancelled", foreground.input, selected)
       ELSE UNCHANGED <<held, sequence>>
    /\ Quietly

\* The end of the Operation is announced.  One that was refused then leaves
\* without _finalize(): it stays the foreground for as long as the Core lives.
PublishTerminal ==
    /\ At("ending") \/ At("refused")
    /\ EmitterFree
    /\ Operation([foreground EXCEPT !.stage = IF @ = "refused" THEN "left"
                                              ELSE "finalizing"])
    /\ Emit(held, OperationEnd[foreground.outcome], foreground.input, selected)
    /\ ran' = [ran EXCEPT ![Len(ran)].outcome = foreground.outcome]
    /\ UNCHANGED <<pipes, repaired, script, core, inFlight, withdrawn, selected>>

\* _finalize(): the lease is released after the terminal was delivered.
Finalize ==
    /\ At("finalizing")
    /\ Operation(Nobody)
    /\ UNCHANGED <<held, sequence>> /\ Quietly

RequestStep(r) == \/ StartReserved(r) \/ SelectNew(r) \/ Busy(r)
                  \/ ReadThread(r) \/ Resolve(r) \/ ResolveRefused(r)
OperationStep == \/ Started \/ TurnBegun \/ TurnEmits
                 \/ \E outcome \in {"completed", "failed"} : Commit(outcome)
                 \/ FinishCancelled \/ PublishTerminal \/ Finalize

ServerNext ==
    \/ WriteEnds \/ ReadRequest \/ ReadCancel \/ ReadShutdown \/ ReadEof
    \/ ShutdownAnswered \/ Leave
    \/ \E r \in inFlight : RequestStep(r)
    \/ OperationStep
=============================================================================
