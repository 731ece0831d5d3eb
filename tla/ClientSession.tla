--------------------------- MODULE ClientSession ---------------------------
(***************************************************************************)
(* One session of the terminal with its Core: TerminalSurface and          *)
(* ProtocolServer over the two pipes.                                      *)
(***************************************************************************)
EXTENDS TerminalSurface

vars == <<pipes, serverVars, terminalVars>>

Init == ServerInit /\ TerminalInit

Core == (ServerNext \/ CoreDies) /\ UNCHANGED terminalVars
Next == Core \/ Machine \/ UserKeys \/ Exit

ByCore(A) == A /\ UNCHANGED terminalVars

Serve == \/ ReadRequest \/ ReadCancel \/ ReadShutdown \/ ReadEof
         \/ ShutdownAnswered \/ Leave \/ \E r \in inFlight : RequestStep(r)

\* The Core serves requests, its Operation and its writer, the terminal its event
\* loop, and the exit timer rings; the user owes nothing.
Fairness == /\ WF_vars(ByCore(Serve)) /\ WF_vars(ByCore(OperationStep))
            /\ WF_vars(ByCore(WriteEnds)) /\ WF_vars(Machine) /\ WF_vars(Exit)

Spec == Init /\ [][Next]_vars
FairSpec == Spec /\ Fairness

-----------------------------------------------------------------------------
(* Safety *)

Run(i) == SelectSeq(ran, LAMBDA r : r.input = i)
HasRun(i) == Run(i) # <<>>
Places(i) == Cardinality({k \in DOMAIN queue : queue[k] = i})
                + (IF drain = i THEN 1 ELSE 0) + (IF composing = i THEN 1 ELSE 0)
                + (IF message[i] \in {"accepted", "failed"} THEN 1 ELSE 0)

\* What the terminal shows is what the Core did: the end of an Operation is the
\* end the Core published, a message shown as accepted has started an Operation
\* and one shown as failed has not, and the Operation in the view works in the
\* Thread in the view (reducer.ts, submission-coordinator.ts, the retry gate).
ToldTruth ==
    /\ surface.operation.status \in Terminal =>
         Run(surface.operation.id)[1].outcome = surface.operation.status
    /\ \A i \in Inputs :
         /\ message[i] = "accepted" /\ script[i] # "new" => HasRun(i)
         /\ message[i] = "failed" => ~HasRun(i)
    /\ surface.operation.id # 0 =>
         Run(surface.operation.id)[1].thread = surface.thread

\* The queue neither loses an input, nor runs one twice, nor changes their order,
\* whatever is busy, recalled or cancelled (usePendingInputQueue, App.tsx).
InputsKept ==
    /\ surface.open /\ surface.fatal = "none" =>
         \A i \in 1..entered : Barrier(i) \/ Places(i) = 1
    /\ \A j, k \in DOMAIN ran : j < k => ran[j].input < ran[k].input

\* The screen turns fatal only for a cause outside the protocol's own steps: the
\* Core is gone, startup announced a Turn it settled, an event lost its frame
\* after it took its number, or an Operation was cancelled.
FatalHasCause ==
    \/ surface.fatal = "none"
    \/ surface.fatal = "core_exit" /\ core = "gone"
    \/ surface.fatal \in {"turn_start_invalid", "turn_terminal_invalid"} /\ repaired
    \/ surface.fatal = "desynchronized" /\ withdrawn
    \/ surface.fatal = "reconciliation" /\ \E k \in DOMAIN ran : ran[k].outcome = "cancelled"

-----------------------------------------------------------------------------
(* Liveness *)

Slots == UNION {DOMAIN s : s \in Scripts}
Queued(i) == \E k \in DOMAIN queue : queue[k] = i
Stopped == quit = "over" \/ (quit = "no" /\ (~surface.open \/ surface.fatal # "none"))

\* Something is under way that is not the user's turn.
Working == /\ ~Stopped
           /\ \/ \E i \in Inputs : message[i] = "pending"
              \/ cancelling # 0
              \/ Active(surface) /\ surface.asked = 0
              \/ quit = "asked"

\* Whatever the terminal waits for ends: a submitted message is told its fate, a
\* requested cancellation gives the keyboard back, an Operation ends or asks the
\* user, an exit ends (the cancellation controller, the exit deadline, _finalize).
SessionSettles == Working ~> ~Working
=============================================================================
