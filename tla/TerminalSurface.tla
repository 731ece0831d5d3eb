-------------------------- MODULE TerminalSurface --------------------------
(***************************************************************************)
(* The terminal's side of the protocol: protocol/client.ts, the event      *)
(* guard, batcher and reducer of state/, surface/controller.ts with its    *)
(* retry gate and terminal reconciliation, lifecycle/, and the input queue *)
(* of app/ and pending-input/.                                             *)
(*                                                                         *)
(* The connected surface is one record and its synchronous callbacks are   *)
(* functions from surface to surface; `out` holds the requests a callback  *)
(* writes.  Answers and events are handled in the order of the pipe.       *)
(***************************************************************************)
EXTENDS ProtocolServer, FiniteSetsExt

CONSTANT MaxPending     \* MAX_PENDING_INPUTS

ASSUME SurfaceAssumption == MaxPending \in Nat \ {0}

VARIABLES
    surface,     \* the store, the RPC client and the surface controller
    queue,       \* inputs that wait for the foreground
    drain,       \* the queued input being promoted, or 0
    awaiting,    \* the Operation a promoted input started, until it shows
    composing,   \* the input the composer is submitting, or 0
    entered,     \* how many inputs the user has typed
    cancelling,  \* the Operation whose cancellation is requested, or 0
    responding,  \* the Operation whose approval is being answered, or 0
    message,     \* what the transcript says of an input
    quit         \* "no", "asked" or "over"

terminalVars == <<surface, queue, drain, awaiting, composing, entered,
                  cancelling, responding, message, quit>>

Inputs == DOMAIN script
NoOperation == [id |-> 0, status |-> "none", turn |-> "none"]

TerminalInit ==
    /\ surface = [open |-> TRUE, fatal |-> "none", pending |-> {}, out |-> <<>>,
                  seen |-> 0, batch |-> 0, operation |-> NoOperation, asked |-> 0,
                  generation |-> 0, thread |-> 1, homes |-> [i \in Inputs |-> 0],
                  gate |-> "open", buffer |-> <<>>, binding |-> 0]
    /\ queue = <<>> /\ drain = 0 /\ awaiting = 0
    /\ composing = 0 /\ entered = 0
    /\ cancelling = 0 /\ responding = 0
    /\ message = [i \in Inputs |-> "none"]
    /\ quit = "no"

Active(s) == s.operation.status = "active"

-----------------------------------------------------------------------------
(* Requests *)

FreeId(s) == CHOOSE n \in 1..(Cardinality(s.pending) + 1) :
                /\ \A p \in s.pending : p.id # n
                /\ \A m \in 1..(n - 1) : \E p \in s.pending : p.id = m

\* `live` is whether the view knew the Turn when its transcript was asked for.
Ask(s, method, about, live) ==
    IF ~s.open THEN s
    ELSE [s EXCEPT !.pending = @ \cup {[id |-> FreeId(s), method |-> method,
                        about |-> about, generation |-> s.generation, live |-> live]},
                   !.out = Append(@, Request(FreeId(s), method, about))]
\* Faulty: a retry does not close the gate before its events.
Submit_Ungated(s, i) ==
    Ask(s, IF script[i] \in {"new", "retry"} THEN "command" ELSE "submit", i, FALSE)

\* request() closes the gate before a retry is written.
Submit(s, i) ==
    Ask(IF script[i] = "retry" THEN [s EXCEPT !.gate = "shut"] ELSE s,
        IF script[i] \in {"new", "retry"} THEN "command" ELSE "submit", i, FALSE)

-----------------------------------------------------------------------------
(* The reducer *)

Failed(s, cause) == [s EXCEPT !.fatal = cause]
EndOf(type) == CHOOSE e \in Terminal : OperationEnd[e] = type
EndsOperation(type) == \E e \in Terminal : OperationEnd[e] = type
EndsTurn(type) == \E e \in Terminal : TurnEnd[e] = type

Reduce(s, type, o) ==
    CASE type = "operation.started" ->
            IF Active(s) THEN Failed(s, "operation_overlap")
            ELSE [s EXCEPT !.operation = [id |-> o, status |-> "active", turn |-> "none"]]
      [] EndsOperation(type) ->
            IF ~Active(s) \/ s.operation.id # o
            THEN Failed(s, "operation_terminal_invalid")
            ELSE [s EXCEPT !.operation.status = EndOf(type)]
      [] type = "turn.started" ->
            IF ~Active(s) \/ s.operation.turn = "active"
            THEN Failed(s, "turn_start_invalid")
            ELSE [s EXCEPT !.operation.turn = "active"]
      [] EndsTurn(type) ->
            IF s.operation.turn # "active" THEN Failed(s, "turn_terminal_invalid")
            ELSE [s EXCEPT !.operation.turn = "over"]
      [] type = "delta" ->
            IF Active(s) /\ s.operation.id = o /\ s.operation.turn = "active" THEN s
            ELSE Failed(s, "delta_identity_invalid")
      [] type = "interaction.required" -> [s EXCEPT !.asked = o]
      [] type = "interaction.resolved" ->
            IF s.asked = o THEN [s EXCEPT !.asked = 0] ELSE s

\* An event belongs to the generation in which its Operation started; the view
\* of a later one ignores it.
Dispatch(s, type, o) ==
    LET home == IF o = 0 \/ type = "operation.started" THEN s.generation ELSE s.homes[o]
        known == IF type = "operation.started" THEN [s EXCEPT !.homes[o] = home] ELSE s
    IN  IF home = s.generation THEN Reduce(known, type, o) ELSE known

Flush(s) == IF s.batch = 0 THEN s
            ELSE Dispatch([s EXCEPT !.batch = 0], "delta", s.batch)

\* failProtocol() closes the client, which rejects what is pending.
FailProtocol(s, cause) ==
    [Flush(Failed(s, cause)) EXCEPT !.open = FALSE, !.pending = {}, !.fatal = cause]

-----------------------------------------------------------------------------
(* acceptEvent() *)
\* Faulty: another event overtakes the buffered deltas.
Batch_Overtaken(s, e) ==
    IF e.type = "delta" THEN [s EXCEPT !.batch = e.operation]
    ELSE Dispatch(s, e.type, e.operation)

Batch(s, e) ==
    IF e.type = "delta" /\ s.batch = e.operation THEN s
    ELSE IF e.type = "delta" THEN [Flush(s) EXCEPT !.batch = e.operation]
    ELSE Dispatch(Flush(s), e.type, e.operation)

\* A terminal with a Turn identity, of its own or of the view, asks for the
\* durable Thread.
Reconcile(s, e) ==
    IF e.turn \/ s.operation.turn # "none"
    THEN Ask([s EXCEPT !.binding = IF @ = e.operation THEN 0 ELSE @],
             "thread.read", e.operation, s.operation.turn # "none")
    ELSE s

AcceptEvent(s, e) ==
    IF s.binding # 0 /\ e.operation # s.binding THEN FailProtocol(s, "retry_identity")
    ELSE IF e.sequence # s.seen + 1 THEN FailProtocol(s, "desynchronized")
    ELSE LET next == Batch([s EXCEPT !.seen = e.sequence], e)
         IN  IF EndsOperation(e.type) THEN Reconcile(next, e) ELSE next

AcceptAll(s, events) ==
    FoldLeft(LAMBDA t, e : IF t.open THEN AcceptEvent(t, e) ELSE t, s, events)

Receives(s, e) == IF s.gate = "shut" THEN [s EXCEPT !.buffer = Append(@, e)]
                  ELSE AcceptEvent(s, e)

-----------------------------------------------------------------------------
(* Answers *)

\* thread.replaced: a new generation with an empty view.
Replaced(s, thread) ==
    [s EXCEPT !.generation = @ + 1, !.thread = thread, !.operation = NoOperation,
              !.asked = 0]

\* activateThreadRetry(): the view is replaced, then the buffer is replayed.
Activate(s, o, thread) ==
    LET view == Replaced(s, thread)
    IN  IF \E k \in DOMAIN s.buffer : s.buffer[k].operation # o
        THEN FailProtocol(s, "retry_identity")
        ELSE AcceptAll([view EXCEPT !.gate = "open", !.buffer = <<>>, !.binding = o,
                                    !.homes[o] = view.generation], s.buffer)

\* releaseRetryGate() of a retry that was refused.
Reject(s) ==
    IF \E k \in DOMAIN s.buffer : s.buffer[k].thread # s.thread
    THEN FailProtocol(s, "retry_identity")
    ELSE AcceptAll([s EXCEPT !.gate = "open", !.buffer = <<>>], s.buffer)

\* reconcileTerminal(): without a Turn in the view there is nothing to merge.
Reconciled(s, p) ==
    IF ~p.live THEN FailProtocol(s, "reconciliation")
    ELSE IF p.generation = s.generation /\ s.operation.id = p.about
    THEN [s EXCEPT !.operation = NoOperation]
    ELSE s

Settle(s, p, a) ==
    CASE p.method = "thread.read" -> Reconciled(s, p)
      [] p.method = "command" /\ script[p.about] = "retry" ->
            IF a.answer = "done" THEN Activate(s, p.about, a.thread) ELSE Reject(s)
      [] p.method = "command" /\ script[p.about] = "new" ->
            IF a.answer = "done" THEN Replaced(s, a.thread) ELSE s
      [] OTHER -> s

-----------------------------------------------------------------------------
(* The lifecycle controllers follow the store *)

\* Applies a new surface, writes its requests and synchronizes the controllers.
Show(s) ==
    /\ surface' = [s EXCEPT !.out = <<>>]
    /\ toCore' = toCore \o s.out
    /\ stdinOpen' = (stdinOpen /\ s.open)
\* Faulty: only the answer ends a requested cancellation.
Cancelling_UntilAnswered(s) == cancelling

Cancelling(s) == IF Active(s) /\ s.operation.id = cancelling THEN cancelling ELSE 0
Responding(s) == IF s.asked = responding THEN responding ELSE 0
Awaited(s, o) == IF s.operation.id = o THEN 0 ELSE o

\* A rejected promotion returns to the queue; the composer just stops.
Requeue(i) == IF i = 0 \/ Len(queue) >= MaxPending THEN queue ELSE <<i>> \o queue

AfterClose(s) ==
    IF s.open
    THEN UNCHANGED <<queue, drain, composing>>
    ELSE /\ queue' = Requeue(drain)
         /\ drain' = 0 /\ composing' = 0

ShowView(s) ==
    /\ Show(s)
    /\ cancelling' = Cancelling(s) /\ responding' = Responding(s)
    /\ awaiting' = Awaited(s, awaiting)
    /\ AfterClose(s)
    /\ UNCHANGED <<entered, message, quit>>

-----------------------------------------------------------------------------
(* What the read loop does *)

Reads == surface.open /\ toClient # <<>> /\ quit # "over"
Took == toClient' = Tail(toClient)

ReceiveEvent ==
    /\ Reads /\ IsEvent(Head(toClient))
    /\ Took
    /\ ShowView(Receives(surface, Head(toClient)))
    /\ UNCHANGED serverVars

\* The frame an answer belongs to, or a fault of the client.
AnswersTo(p) == /\ Reads /\ ~IsEvent(Head(toClient))
                /\ p.id = Head(toClient).id
Answering(p) == [surface EXCEPT !.pending = @ \ {p}]

\* The view is reconciled with the durable Thread.
ReceiveThread(p) ==
    /\ AnswersTo(p) /\ p.method = "thread.read"
    /\ Took
    /\ ShowView(Settle(Answering(p), p, Head(toClient)))
    /\ UNCHANGED serverVars

\* A cancellation or an approval is over for the user when it is refused.
ReceiveControl(p) ==
    /\ AnswersTo(p) /\ p.method \in {"operation.cancel", "interaction.respond"}
    /\ Took /\ Show(Answering(p))
    /\ LET refused == Head(toClient).answer = "refused"
       IN  /\ cancelling' = (IF refused /\ p.method = "operation.cancel"
                             THEN 0 ELSE cancelling)
           /\ responding' = (IF refused /\ p.method = "interaction.respond"
                             THEN 0 ELSE responding)
    /\ UNCHANGED <<queue, drain, awaiting, composing, entered, message, quit, serverVars>>

\* submit(): the answer to an input, from the composer or from the queue.
Tell(i, status) == message' = [message EXCEPT ![i] = status]

ReceiveAccepted(p) ==
    /\ AnswersTo(p) /\ p.method \in {"submit", "command"}
    /\ Head(toClient).answer = "done"
    /\ Took
    /\ LET s == Settle(Answering(p), p, Head(toClient))
       IN  /\ Show(s)
           /\ awaiting' = (IF drain = p.about /\ script[p.about] # "new"
                           THEN Awaited(s, p.about) ELSE Awaited(s, awaiting))
           /\ cancelling' = Cancelling(s) /\ responding' = Responding(s)
    /\ Tell(p.about, "accepted")
    /\ drain' = (IF drain = p.about THEN 0 ELSE drain)
    /\ composing' = (IF composing = p.about THEN 0 ELSE composing)
    /\ UNCHANGED <<queue, entered, quit, serverVars>>

\* A busy Core sends a queued input back to the head of the queue; the composer
\* keeps a message or a shell command, and shows the error of a slash command.
ReceiveBusy(p) ==
    /\ AnswersTo(p) /\ p.method \in {"submit", "command"}
    /\ Head(toClient).answer = "busy"
    /\ Took
    /\ LET s == Settle(Answering(p), p, Head(toClient))
       IN  /\ Show(s)
           /\ cancelling' = Cancelling(s) /\ responding' = Responding(s)
    /\ IF drain = p.about
       THEN /\ queue' = Requeue(drain)
            /\ drain' = 0
            /\ UNCHANGED <<composing, entered, message>>
       ELSE /\ composing' = 0
            /\ Tell(p.about, "failed")
            /\ entered' = (IF p.method = "submit" THEN entered - 1 ELSE entered)
            /\ UNCHANGED <<queue, drain>>
    /\ UNCHANGED <<awaiting, quit, serverVars>>

\* The batcher's timer.
FlushTimer ==
    /\ surface.open /\ surface.batch # 0 /\ quit # "over"
    /\ ShowView(Flush(surface))
    /\ UNCHANGED <<toClient, serverVars>>

\* stdout ended: the client closes, and the screen is fatal unless it exits.
SeeEof ==
    /\ surface.open /\ core = "gone" /\ toClient = <<>> /\ quit # "over"
    /\ LET s == FailProtocol(surface, "core_exit")
       IN  /\ Show(IF quit = "no" THEN s ELSE [s EXCEPT !.fatal = surface.fatal])
           /\ AfterClose(s)
    /\ cancelling' = 0 /\ responding' = 0
    /\ UNCHANGED <<awaiting, entered, message, quit, toClient, serverVars>>

-----------------------------------------------------------------------------
(* What the user and the input queue do *)

Usable == quit = "no" /\ surface.open /\ surface.fatal = "none" /\ cancelling = 0
Free == surface.asked = 0 /\ composing = 0
Composer == Usable /\ Free
Keys == UNCHANGED <<toClient, serverVars>>
Still == surface' = surface /\ UNCHANGED <<toCore, stdinOpen>>

QueueingRequired == Active(surface) \/ drain # 0 \/ awaiting # 0 \/ queue # <<>>
Barrier(i) == script[i] = "quit"
Typing == entered < Len(script) /\ script[entered + 1] # "exit"
\* Faulty: no place is reserved for the input being promoted.
EnterQueued_Unreserved ==
    /\ Composer /\ Typing /\ QueueingRequired
    /\ ~(drain # 0 /\ Barrier(drain))
    /\ \A k \in DOMAIN queue : ~Barrier(queue[k])
    /\ Len(queue) < MaxPending
    /\ queue' = Append(queue, entered + 1)
    /\ entered' = entered + 1
    /\ Still /\ Keys
    /\ UNCHANGED <<drain, awaiting, composing, cancelling, responding, message, quit>>

\* Enter while something runs: the input is queued if the queue takes it.
EnterQueued ==
    /\ Composer /\ Typing /\ QueueingRequired
    /\ ~(drain # 0 /\ Barrier(drain))
    /\ \A k \in DOMAIN queue : ~Barrier(queue[k])
    /\ Len(queue) + (IF drain = 0 THEN 0 ELSE 1) < MaxPending
    /\ queue' = Append(queue, entered + 1)
    /\ entered' = entered + 1
    /\ Still /\ Keys
    /\ UNCHANGED <<drain, awaiting, composing, cancelling, responding, message, quit>>

RequestExit == /\ quit' = "asked"
               /\ IF quit = "no" THEN Show(Ask(surface, "shutdown", 0, FALSE)) ELSE Still

\* Enter while nothing runs: the input is submitted.
EnterDirect ==
    /\ Composer /\ Typing /\ ~QueueingRequired
    /\ entered' = entered + 1
    /\ IF Barrier(entered')
       THEN RequestExit /\ UNCHANGED <<composing, message>>
       ELSE /\ Show(Submit(surface, entered'))
            /\ composing' = entered'
            /\ Tell(entered', "pending")
            /\ UNCHANGED quit
    /\ Keys
    /\ UNCHANGED <<queue, drain, awaiting, cancelling, responding>>

\* The effect of usePendingInputDrain(), which an exit does not stop.
Promote ==
    /\ quit # "over" /\ surface.open /\ surface.fatal = "none"
    /\ ~Active(surface) /\ Free /\ cancelling = 0 /\ awaiting = 0
    /\ drain = 0 /\ queue # <<>>
    /\ queue' = Tail(queue)
    /\ IF Barrier(Head(queue))
       THEN RequestExit /\ UNCHANGED drain
       ELSE /\ Show(Submit(surface, Head(queue)))
            /\ drain' = Head(queue)
            /\ UNCHANGED quit
    /\ Keys
    /\ UNCHANGED <<awaiting, composing, entered, cancelling, responding, message>>

\* Up with an empty composer takes the last queued input back.
RecallTail ==
    /\ Composer /\ queue # <<>>
    /\ queue' = Front(queue)
    /\ entered' = entered - 1
    /\ Still /\ Keys
    /\ UNCHANGED <<drain, awaiting, composing, cancelling, responding, message, quit>>

CancelKey ==
    /\ Usable /\ Active(surface)
    /\ Show(Ask(surface, "operation.cancel", surface.operation.id, FALSE))
    /\ cancelling' = surface.operation.id
    /\ Keys
    /\ UNCHANGED <<queue, drain, awaiting, composing, entered, responding, message, quit>>

\* Any choice of the approval panel, Escape included.
AnswerKey ==
    /\ Usable /\ surface.asked # 0 /\ responding = 0
    /\ Show(Ask(surface, "interaction.respond", surface.asked, FALSE))
    /\ responding' = surface.asked
    /\ Keys
    /\ UNCHANGED <<queue, drain, awaiting, composing, entered, cancelling, message, quit>>

\* Ctrl+D or Ctrl+C twice, whatever runs, and the only key of the fatal screen.
ExitKey ==
    /\ quit = "no"
    /\ \/ surface.fatal # "none"
       \/ cancelling = 0 /\ entered < Len(script) /\ ~Typing
    /\ RequestExit
    /\ Keys
    /\ UNCHANGED <<queue, drain, awaiting, composing, entered, cancelling, responding,
                   message>>

ExitSeen ==
    /\ quit = "asked" /\ core = "gone"
    /\ quit' = "over"
    /\ Still /\ Keys
    /\ UNCHANGED <<queue, drain, awaiting, composing, entered, cancelling, responding,
                   message>>

\* The Core is given five seconds, then its process tree is killed.
ExitDeadline ==
    /\ quit = "asked" /\ Killed
    /\ quit' = "over"
    /\ surface' = surface
    /\ UNCHANGED <<queue, drain, awaiting, composing, entered, cancelling, responding,
                   message>>

UserKeys == EnterQueued \/ EnterDirect \/ RecallTail \/ CancelKey \/ AnswerKey \/ ExitKey
Machine == \/ ReceiveEvent \/ FlushTimer \/ SeeEof \/ Promote
           \/ \E p \in surface.pending : \/ ReceiveThread(p) \/ ReceiveControl(p)
                                         \/ ReceiveAccepted(p) \/ ReceiveBusy(p)
Exit == ExitSeen \/ ExitDeadline
=============================================================================
