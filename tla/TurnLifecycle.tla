---------------------------- MODULE TurnLifecycle ----------------------------
(***************************************************************************)
(* A Turn from submission to its durable terminal status, across crashes:  *)
(* application/turns.py with the conversation store, the checkpoints and   *)
(* the change sets it writes, and the startup recovery that reads them     *)
(* back (composition.py).                                                  *)
(*                                                                         *)
(* The durable stores are written one after the other, never in one        *)
(* transaction: status (Turn rows), checkpoint (LangGraph saver) and       *)
(* changes (ChangeSet rows).  A crash may fall between any two writes.  A  *)
(* write may fail, and a write may also become durable and still raise;    *)
(* both spend one of `faults`.                                             *)
(*                                                                         *)
(* OperationController gives the Turn the foreground: here it is the       *)
(* `owner` and its `phase`, one step per publication.                      *)
(***************************************************************************)
EXTENDS Naturals

CONSTANTS Turns,           \* Turn identifiers
          ThreadOf,        \* the Thread of each Turn
          Nobody,          \* None
          MaxCrashes,      \* bound: process deaths
          MaxFaults        \* bound: durable writes that raise

ASSUME TurnsAssumption ==
    /\ Nobody \notin Turns
    /\ DOMAIN ThreadOf = Turns
    /\ MaxCrashes \in Nat /\ MaxFaults \in Nat

VARIABLES
    status,       \* Turn.status, "none" before begin_turn
    checkpoint,   \* what the latest checkpoint says, "none" without one
    changes,      \* lifecycle of the Turn's latest ChangeSet
    mode,         \* the process: down, reconciling at startup, or up
    todo,         \* Turns reconcile_startup has still to look at
    settled,      \* Turns it has made terminal itself
    recoverable,  \* _recovery_queue
    asking,       \* the Turn of the pending recovery interaction
    owner,        \* the Turn whose task holds the foreground lease
    phase,        \* the phase of its Operation
    kind,         \* which entry point it came through
    stage,        \* where its code is
    target,       \* the outcome it is heading for
    sealing,      \* does its clean-up seal the changes?
    compensating, \* requests whose start failed and that still clean up: by
                  \* what _terminalize_unstarted_turn writes, or "requeue"
    acked,        \* Turns whose cancellation was acknowledged
    told,         \* the terminal Operation event published for each Turn (refused
                  \* when it is the cancelled of a factory that never ran)
    crashes, faults

durable  == <<status, checkpoint, changes>>
recovery == <<mode, todo, settled, recoverable, asking>>
work     == <<owner, phase, kind, stage, target, sealing>>
history  == <<acked, told>>
budgets  == <<crashes, faults>>
vars == <<durable, recovery, work, compensating, history, budgets>>

-----------------------------------------------------------------------------

Terminal == {"completed", "failed", "cancelled"}
Statuses == Terminal \cup {"none", "in_progress"}
\* working: resumable; uncertain: a tool that may not be replayed may have
\* run; answered: final_answer is set; stopped: a reason that ends the Turn.
Checkpoints == {"none", "working", "uncertain", "answered", "stopped"}
Phases == {"none", "reserved", "starting", "running", "cancelling",
           "committing", "resolving"}
Stages == {"idle", "beginning", "begun", "unbegin", "invoking", "barrier",
           "preparing", "graph", "persist", "seal", "delete", "publish",
           "refused", "left", "aborted"}

TypeOK ==
    /\ status \in [Turns -> Statuses]
    /\ checkpoint \in [Turns -> Checkpoints]
    /\ changes \in [Turns -> {"none", "open", "sealed"}]
    /\ mode \in {"down", "reconciling", "up"}
    /\ todo \subseteq Turns /\ settled \subseteq Turns
    /\ recoverable \subseteq Turns
    /\ asking \in Turns \cup {Nobody}
    /\ owner \in Turns \cup {Nobody}
    /\ phase \in Phases
    /\ kind \in {"none", "submit", "retry", "resume"}
    /\ stage \in Stages
    /\ target \in Terminal \cup {"none"}
    /\ sealing \in BOOLEAN
    /\ compensating \in [Turns -> {"none", "failed", "cancelled", "requeue"}]
    /\ acked \subseteq Turns
    /\ told \in [Turns -> Terminal \cup {"none", "refused"}]
    /\ crashes \in 0..MaxCrashes
    /\ faults \in 0..MaxFaults

\* A freshly installed workspace with nothing to recover.
Init ==
    /\ status = [t \in Turns |-> "none"]
    /\ checkpoint = [t \in Turns |-> "none"]
    /\ changes = [t \in Turns |-> "none"]
    /\ mode = "up" /\ todo = {} /\ settled = {}
    /\ recoverable = {} /\ asking = Nobody
    /\ owner = Nobody /\ phase = "none" /\ kind = "none" /\ stage = "idle"
    /\ target = "none" /\ sealing = FALSE
    /\ compensating = [t \in Turns |-> "none"]
    /\ acked = {} /\ told = [t \in Turns |-> "none"]
    /\ crashes = 0 /\ faults = 0

-----------------------------------------------------------------------------
(* The stores and the foreground.                                          *)

InProgress(t) == status[t] = "in_progress"

\* _begin_turn: one in-progress Turn per Thread.
ThreadFree(t) ==
    \A u \in Turns : ThreadOf[u] = ThreadOf[t] => ~InProgress(u)

\* update_terminal_turn and complete_turn write over in-progress only.
Write(t, to) == status' = [status EXCEPT ![t] = to]

Fault == faults < MaxFaults /\ faults' = faults + 1

Idle ==
    /\ owner' = Nobody /\ phase' = "none" /\ kind' = "none" /\ stage' = "idle"
    /\ target' = "none" /\ sealing' = FALSE

Take(t, k, p, s) ==
    /\ mode = "up" /\ owner = Nobody
    /\ owner' = t /\ kind' = k /\ phase' = p /\ stage' = s
    /\ target' = "none" /\ sealing' = FALSE

At(t, s) == mode = "up" /\ owner = t /\ stage = s

Go(s) == stage' = s /\ UNCHANGED <<owner, phase, kind, target, sealing>>

\* _present_next_recovery: one interaction at a time, none while one waits.
AskNext(queue) ==
    IF queue = {} THEN asking' = Nobody ELSE asking' \in queue

-----------------------------------------------------------------------------
(* submit_turn, retry_turn and resume_unfinished, up to the Operation.     *)

\* reserve() for a new Turn, refused while a recovery interaction waits.  A
\* retry materializes a Thread of its own.
Submit(t, k) ==
    /\ status[t] = "none" /\ asking = Nobody
    /\ k \in {"submit", "retry"}
    /\ k = "retry" => \A u \in Turns \ {t} :
                         ThreadOf[u] = ThreadOf[t] => status[u] = "none"
    /\ Take(t, k, "reserved", "beginning")
    /\ UNCHANGED <<durable, recovery, compensating, history, budgets>>

\* begin_turn or prepare_retry became durable.  It is shielded: a request
\* cancelled meanwhile waits for it and compensates.
BeginTurn(t) ==
    /\ At(t, "beginning") /\ ThreadFree(t)
    /\ Write(t, "in_progress")
    /\ \/ Go("begun")
       \/ Go("unbegin")
    /\ UNCHANGED <<checkpoint, changes, recovery, compensating, history,
                   budgets>>

\* TurnBusy, an unreadable Thread, a cancellation before the write, or a
\* write that raised (durable or not): the reservation is aborted.
BeginFails(t) ==
    /\ At(t, "beginning")
    /\ \/ UNCHANGED <<status, faults>>
       \/ ThreadFree(t) /\ Fault /\ Write(t, "in_progress")
    /\ Idle
    /\ UNCHANGED <<checkpoint, changes, recovery, compensating, history,
                   crashes>>

\* _cancel_begun_turn and _cancel_prepared_retry, then abort().
CancelBegunTurn(t) ==
    /\ At(t, "unbegin")
    /\ \/ InProgress(t) /\ Write(t, "cancelled") /\ UNCHANGED faults
       \/ Fault /\ UNCHANGED status
    /\ Idle
    /\ UNCHANGED <<checkpoint, changes, recovery, compensating, history, crashes>>

\* resume_unfinished with continuation and claim: the checkpoint is verified,
\* the interaction and the queue entry are consumed under the reservation.
ClaimRecovery(t) ==
    /\ asking = t /\ InProgress(t) /\ checkpoint[t] # "none"
    /\ Take(t, "resume", "reserved", "begun")
    /\ recoverable' = recoverable \ {t}
    /\ asking' = Nobody
    /\ told' = [told EXCEPT ![t] = "none"]
    /\ acked' = acked \ {t}
    /\ UNCHANGED <<durable, mode, todo, settled, compensating, budgets>>

\* start_reserved up to the publication of operation.started.
StartReserved(t) ==
    /\ At(t, "begun") /\ phase = "reserved"
    /\ phase' = "starting"
    /\ UNCHANGED <<owner, kind, stage, target, sealing, durable, recovery,
                   compensating, history, budgets>>
\* Faulty: a resumed Turn is compensated like a new one, and offered again.
StartFails_CompensatesResume(t) ==
    /\ At(t, "begun") /\ Idle
    /\ \E to \in {"failed", "cancelled"} :
          compensating' = [compensating EXCEPT ![t] = to]
    /\ IF kind = "resume"
       THEN recoverable' = recoverable \cup {t} /\ asking' = t
       ELSE UNCHANGED <<recoverable, asking>>
    /\ UNCHANGED <<durable, mode, todo, settled, history, budgets>>

\* Faulty: a claimed recovery that does not start is forgotten.
StartFails_DropsRecovery(t) ==
    /\ At(t, "begun") /\ Idle
    /\ IF kind = "resume"
       THEN UNCHANGED compensating
       ELSE \E to \in {"failed", "cancelled"} :
                compensating' = [compensating EXCEPT ![t] = to]
    /\ UNCHANGED <<durable, recovery, history, budgets>>

\* The publication raised or the request was cancelled.  The lease is gone
\* before the request cleans up: a resumed Turn is to go back to the queue, a
\* new one is to be finished.
StartFails(t) ==
    /\ At(t, "begun") /\ Idle
    /\ \E to \in IF kind = "resume" THEN {"requeue"} ELSE {"failed", "cancelled"} :
          compensating' = [compensating EXCEPT ![t] = to]
    /\ UNCHANGED <<durable, recovery, history, budgets>>

\* _recovery_is_in_progress, and the Turn goes back to the queue and is asked
\* about; if the read raises nobody will ask.
Requeue(t) ==
    /\ mode = "up" /\ compensating[t] = "requeue"
    /\ \/ /\ InProgress(t)
          /\ recoverable' = recoverable \cup {t}
          /\ asking' = IF asking = Nobody THEN t ELSE asking
          /\ UNCHANGED faults
       \/ ~InProgress(t) /\ UNCHANGED <<recoverable, asking, faults>>
       \/ Fault /\ UNCHANGED <<recoverable, asking>>
    /\ compensating' = [compensating EXCEPT ![t] = "none"]
    /\ UNCHANGED <<durable, mode, todo, settled, work, history, crashes>>

\* _terminalize_unstarted_turn, beside whatever owns the foreground by now.
Compensate(t) ==
    /\ mode = "up" /\ compensating[t] \in {"failed", "cancelled"}
    /\ \/ InProgress(t) /\ Write(t, compensating[t]) /\ UNCHANGED faults
       \/ ~InProgress(t) /\ UNCHANGED <<status, faults>>
       \/ Fault /\ UNCHANGED status
    /\ compensating' = [compensating EXCEPT ![t] = "none"]
    /\ UNCHANGED <<checkpoint, changes, recovery, work, history, crashes>>

\* operation.started is out and invoke() takes its first step, unless a
\* cancellation was accepted while starting: the factory never runs then.
InvokeStarts(t) ==
    /\ At(t, "begun") /\ phase \in {"starting", "cancelling"}
    /\ IF phase = "starting"
       THEN /\ phase' = "running" /\ UNCHANGED target
            /\ stage' = IF kind = "retry" THEN "barrier" ELSE "preparing"
       ELSE stage' = "refused" /\ target' = "cancelled" /\ UNCHANGED phase
    /\ UNCHANGED <<owner, kind, sealing, durable, recovery, compensating,
                   history, budgets>>

\* The cancellation of such a start is published, and invoke() raises before
\* its try: the foreground is never given up.  Only a request that was itself
\* cancelled meanwhile does it in its place, and compensates.  (The start of a
\* resumed Turn is only cancelled by a shutdown, which is a death here.)
Announce(t) ==
    /\ At(t, "refused")
    /\ told' = [told EXCEPT ![t] = "refused"]
    /\ \/ Go("left") /\ UNCHANGED compensating
       \/ /\ kind # "resume" /\ Idle
          /\ compensating' = [compensating EXCEPT ![t] = "cancelled"]
    /\ UNCHANGED <<durable, recovery, acked, budgets>>

-----------------------------------------------------------------------------
(* The factory: execute() and _execute_turn.                               *)

\* cancel() returns true.  (The loop turn between create_task and the first
\* step of invoke() belongs to OperationController.)
Cancel(t) ==
    /\ mode = "up" /\ owner = t
    /\ \/ phase = "starting"
       \/ phase = "running" /\ stage \in {"barrier", "preparing", "graph"}
    /\ phase' = "cancelling"
    /\ acked' = acked \cup {t}
    /\ UNCHANGED <<owner, kind, stage, target, sealing, durable, recovery,
                   compensating, told, budgets>>

\* started() has published the retry: the barrier opens.
BarrierOpens(t) ==
    /\ At(t, "barrier") /\ phase = "running"
    /\ Go("preparing")
    /\ UNCHANGED <<durable, recovery, compensating, history, budgets>>

\* started() failed, and _cancel_blocked_prepared_turn cancels the Operation.
BarrierFails(t) ==
    /\ At(t, "barrier") /\ phase = "running"
    /\ phase' = "cancelling"
    /\ UNCHANGED <<owner, kind, stage, target, sealing, durable, recovery,
                   compensating, history, budgets>>

\* The barrier is cancelled: _terminalize_unstarted_turn inside the factory.
BarrierCancelled(t) ==
    /\ At(t, "barrier") /\ phase = "cancelling"
    /\ target' = "cancelled" /\ stage' = "publish"
    /\ \/ InProgress(t) /\ Write(t, "cancelled") /\ UNCHANGED faults
       \/ Fault /\ UNCHANGED status
    /\ UNCHANGED <<owner, phase, kind, sealing, checkpoint, changes, recovery,
                   compensating, history, crashes>>

\* turn.started, the input, the extensions and the runtime are ready.
Prepared(t) ==
    /\ At(t, "preparing") /\ phase = "running"
    /\ Go("graph")
    /\ UNCHANGED <<durable, recovery, compensating, history, budgets>>

\* A checkpoint is saved; the tools may have changed the workspace.  A
\* ChangeSet sealed at an earlier startup is followed by a new one.
GraphSteps(t) ==
    /\ At(t, "graph") /\ phase = "running"
    /\ checkpoint[t] \in {"none", "working", "uncertain"}
    /\ \E c \in {"working", "uncertain"} :
          checkpoint' = [checkpoint EXCEPT ![t] = c]
    /\ \/ changes' = [changes EXCEPT ![t] = "open"]
       \/ UNCHANGED changes
    /\ UNCHANGED <<status, recovery, work, compensating, history, budgets>>

\* The last checkpoint: an answer, or a reason to stop without one.  (A budget
\* interruption leaves a checkpoint that a restart may still resume: working.)
GraphConcludes(t) ==
    /\ At(t, "graph") /\ phase = "running"
    /\ checkpoint[t] \in {"working", "uncertain"}
    /\ \E c \in {"answered", "stopped"} :
          checkpoint' = [checkpoint EXCEPT ![t] = c]
    /\ UNCHANGED <<status, changes, recovery, work, compensating, history,
                   budgets>>
\* ainvoke returned an answer (commit_completed), returned none or raised
\* (commit_failed).  Past this point a cancellation is refused.
CommitBegins(t) ==
    /\ At(t, "graph") /\ phase = "running"
    /\ phase' = "committing" /\ stage' = "persist" /\ sealing' = TRUE
    /\ \/ checkpoint[t] = "answered" /\ target' = "completed"
       \/ target' = "failed"
    /\ UNCHANGED <<owner, kind, durable, recovery, compensating, history,
                   budgets>>

\* Something raised before the graph ran: commit_failed without sealing.
PreparationFails(t) ==
    /\ At(t, "preparing") /\ phase = "running"
    /\ phase' = "committing" /\ stage' = "persist" /\ sealing' = FALSE
    /\ target' = "failed"
    /\ UNCHANGED <<owner, kind, durable, recovery, compensating, history,
                   budgets>>

\* The CancelledError surfaces: _finish_cancelled_turn.
CancelDelivered(t) ==
    /\ phase = "cancelling"
    /\ At(t, "preparing") \/ At(t, "graph")
    /\ stage' = "persist" /\ target' = "cancelled" /\ sealing' = TRUE
    /\ UNCHANGED <<owner, phase, kind, durable, recovery, compensating,
                   history, budgets>>

\* Unwinding a cancelled graph raised something else: _require_running turns
\* it into the cancellation, past _finish_cancelled_turn.
UnwindingFails(t) ==
    /\ At(t, "graph") /\ phase = "cancelling"
    /\ Fault
    /\ stage' = "publish" /\ target' = "cancelled"
    /\ UNCHANGED <<owner, phase, kind, sealing, durable, recovery,
                   compensating, history, crashes>>

\* _persist_terminal_write: written, or raised and found written.
Persist(t) ==
    /\ At(t, "persist") /\ InProgress(t)
    /\ Write(t, target)
    /\ stage' = IF sealing THEN "seal" ELSE "delete"
    /\ UNCHANGED <<owner, phase, kind, target, sealing, checkpoint, changes,
                   recovery, compensating, history, budgets>>
\* Faulty: the clean-up runs whether or not the status became durable.
PersistFails_CleansUp(t) ==
    /\ At(t, "persist")
    /\ Fault /\ (UNCHANGED status \/ (InProgress(t) /\ Write(t, target)))
    /\ stage' = IF sealing THEN "seal" ELSE "delete"
    /\ target' = IF target = "cancelled" THEN "cancelled" ELSE "failed"
    /\ UNCHANGED <<owner, phase, kind, sealing, checkpoint, changes, recovery,
                   compensating, history, crashes>>
\* It raised, and the written status was not found (or could not be read):
\* no clean-up, and the Operation is failed or stays cancelled.
PersistFails(t) ==
    /\ At(t, "persist")
    /\ Fault /\ (UNCHANGED status \/ (InProgress(t) /\ Write(t, target)))
    /\ stage' = "publish"
    /\ target' = IF target = "cancelled" THEN "cancelled" ELSE "failed"
    /\ UNCHANGED <<owner, phase, kind, sealing, checkpoint, changes, recovery,
                   compensating, history, crashes>>

\* _cleanup_turn: seal, and whatever came of it delete the checkpoint.
SealChanges(t) ==
    /\ At(t, "seal") /\ Go("delete")
    /\ \/ changes' = [changes EXCEPT ![t] = IF @ = "open" THEN "sealed" ELSE @]
          /\ UNCHANGED faults
       \/ Fault /\ UNCHANGED changes
    /\ UNCHANGED <<status, checkpoint, recovery, compensating, history, crashes>>

DeleteCheckpoint(t) ==
    /\ At(t, "delete") /\ Go("publish")
    /\ \/ checkpoint' = [checkpoint EXCEPT ![t] = "none"] /\ UNCHANGED faults
       \/ Fault /\ UNCHANGED checkpoint
    /\ UNCHANGED <<status, changes, recovery, compensating, history, crashes>>

\* The terminal event is out and the lease is free.  A resumed factory has
\* presented the next recovery on its way out.
Release(t) ==
    /\ At(t, "publish")
    /\ told' = [told EXCEPT ![t] = target]
    /\ Idle
    /\ IF kind = "resume" THEN AskNext(recoverable) ELSE UNCHANGED asking
    /\ UNCHANGED <<durable, mode, todo, settled, recoverable, compensating, acked,
                   budgets>>

-----------------------------------------------------------------------------
(* Recovery decisions taken by the user.                                   *)

\* abort_recovery, or a resume that finds the checkpoint unusable: the Turn
\* fails first, its checkpoint goes second.
FailRecovery(t) ==
    /\ asking = t /\ InProgress(t)
    /\ \E p \in {"resolving", "reserved"} : Take(t, "resume", p, "aborted")
    /\ Write(t, "failed")
    /\ UNCHANGED <<checkpoint, changes, recovery, compensating, history, budgets>>

\* The status write raised: the decision can be taken again.
FailRecoveryFails(t) ==
    /\ asking = t /\ InProgress(t) /\ mode = "up" /\ owner = Nobody
    /\ Fault /\ (UNCHANGED status \/ Write(t, "failed"))
    /\ UNCHANGED <<checkpoint, changes, recovery, work, compensating, history,
                   crashes>>

\* The checkpoint is deleted.  Only an abort reports that it was not, and
\* leaves its interaction in place.
RecoveryCleaned(t) ==
    /\ At(t, "aborted") /\ Idle
    /\ \/ checkpoint' = [checkpoint EXCEPT ![t] = "none"] /\ UNCHANGED faults
       \/ Fault /\ UNCHANGED checkpoint
    /\ IF phase = "resolving" /\ checkpoint'[t] # "none"
       THEN UNCHANGED <<recoverable, asking>>
       ELSE recoverable' = recoverable \ {t} /\ AskNext(recoverable \ {t})
    /\ UNCHANGED <<status, changes, mode, todo, settled, compensating, history,
                   crashes>>

\* recovery_stale: the Turn is no longer in progress.
RecoveryStale(t) ==
    /\ asking = t /\ ~InProgress(t) /\ mode = "up" /\ owner = Nobody
    /\ recoverable' = recoverable \ {t} /\ AskNext(recoverable \ {t})
    /\ UNCHANGED <<durable, mode, todo, settled, work, compensating, history,
                   budgets>>

-----------------------------------------------------------------------------
(* Death of the process and reconcile_startup.                             *)

Volatile ==
    /\ todo' = {} /\ settled' = {} /\ recoverable' = {} /\ asking' = Nobody
    /\ compensating' = [t \in Turns |-> "none"]
    /\ Idle

Crash ==
    /\ mode # "down" /\ crashes < MaxCrashes
    /\ crashes' = crashes + 1
    /\ mode' = "down"
    /\ Volatile
    /\ UNCHANGED <<durable, history, faults>>

\* reconcile_changes seals what was left open; then every Turn is looked at.
Restart ==
    /\ mode = "down"
    /\ mode' = "reconciling"
    /\ todo' = {t \in Turns : status[t] # "none"}
    /\ changes' = [t \in Turns |-> IF changes[t] = "open" THEN "sealed"
                                   ELSE changes[t]]
    /\ UNCHANGED <<status, checkpoint, settled, recoverable, asking, work,
                   compensating, history, budgets>>

\* One Turn after the other: one just made terminal is cleaned up first.
Looking(t) ==
    /\ mode = "reconciling" /\ t \in todo
    /\ todo \cap settled \subseteq {t}

\* A Turn found terminal: its checkpoint, if any, is left over from a clean-up.
\* (If the deletion raises, so does the startup: ReconcileFails.)
ReconcileTerminal(t) ==
    /\ Looking(t) /\ t \notin settled /\ ~InProgress(t)
    /\ checkpoint' = [checkpoint EXCEPT ![t] = "none"]
    /\ todo' = todo \ {t}
    /\ UNCHANGED <<status, changes, mode, settled, recoverable, asking, work,
                   compensating, history, budgets>>

\* What reconcile_startup makes of an unfinished Turn it ends: failed without a
\* usable checkpoint (missing, corrupt, another identity, a conflicting
\* snapshot) or with a reason that ended it, completed with the answer it had.
Settle(t) ==
    \/ Write(t, "failed")
    \/ checkpoint[t] = "answered" /\ Write(t, "completed")

\* An unfinished Turn is ended, or kept for the user.
ReconcileInProgress(t) ==
    /\ Looking(t) /\ InProgress(t)
    /\ \/ /\ Settle(t)
          /\ settled' = settled \cup {t}
          /\ UNCHANGED <<todo, recoverable>>
       \/ /\ checkpoint[t] \in {"working", "uncertain"}
          /\ recoverable' = recoverable \cup {t}
          /\ todo' = todo \ {t}
          /\ UNCHANGED <<status, settled>>
    /\ UNCHANGED <<checkpoint, changes, mode, asking, work, compensating,
                   history, budgets>>

\* Faulty: the checkpoint of a Turn that was just ended stays.
CleanSettled_Forgets(t) ==
    /\ Looking(t) /\ t \in settled
    /\ todo' = todo \ {t}
    /\ UNCHANGED <<durable, mode, settled, recoverable, asking, work,
                   compensating, history, budgets>>

\* _cleanup_committed_turn of a Turn that was just ended: whatever it raises is
\* logged, and the startup goes on.
CleanSettled(t) ==
    /\ Looking(t) /\ t \in settled
    /\ \/ checkpoint' = [checkpoint EXCEPT ![t] = "none"] /\ UNCHANGED faults
       \/ Fault /\ UNCHANGED checkpoint
    /\ todo' = todo \ {t}
    /\ UNCHANGED <<status, changes, mode, settled, recoverable, asking, work,
                   compensating, history, crashes>>

\* A store raised, its write durable or not: the workspace is not activated.
ReconcileFails ==
    /\ mode = "reconciling" /\ Fault
    /\ \/ UNCHANGED <<status, checkpoint>>
       \/ \E t \in Turns : /\ Looking(t) /\ InProgress(t) /\ Settle(t)
                            /\ UNCHANGED checkpoint
       \/ \E t \in Turns : /\ Looking(t) /\ ~InProgress(t)
                            /\ checkpoint' = [checkpoint EXCEPT ![t] = "none"]
                            /\ UNCHANGED status
    /\ mode' = "down" /\ Volatile
    /\ UNCHANGED <<changes, history, crashes>>

\* The runtime is published and the first recovery is presented.
Activate ==
    /\ mode = "reconciling" /\ todo = {}
    /\ mode' = "up"
    /\ AskNext(recoverable)
    /\ UNCHANGED <<durable, todo, settled, recoverable, work, compensating,
                   history, budgets>>

-----------------------------------------------------------------------------

RequestNext(t) ==
    \/ \E k \in {"submit", "retry"} : Submit(t, k)
    \/ BeginTurn(t) \/ BeginFails(t) \/ CancelBegunTurn(t) \/ ClaimRecovery(t)
    \/ StartReserved(t) \/ StartFails(t) \/ Requeue(t) \/ Compensate(t)
    \/ InvokeStarts(t) \/ Announce(t)

FactoryNext(t) ==
    \/ Cancel(t) \/ BarrierOpens(t) \/ BarrierFails(t) \/ BarrierCancelled(t)
    \/ Prepared(t) \/ GraphSteps(t) \/ GraphConcludes(t) \/ CommitBegins(t)
    \/ PreparationFails(t) \/ CancelDelivered(t) \/ UnwindingFails(t)
    \/ Persist(t) \/ PersistFails(t) \/ SealChanges(t) \/ DeleteCheckpoint(t)
    \/ Release(t)

RecoveryNext(t) ==
    \/ FailRecovery(t) \/ FailRecoveryFails(t) \/ RecoveryCleaned(t)
    \/ RecoveryStale(t) \/ ReconcileTerminal(t) \/ ReconcileInProgress(t)
    \/ CleanSettled(t)

Next ==
    \/ \E t \in Turns : RequestNext(t) \/ FactoryNext(t) \/ RecoveryNext(t)
    \/ Crash \/ Restart \/ ReconcileFails \/ Activate

Spec == Init /\ [][Next]_vars

-----------------------------------------------------------------------------
(* Safety.                                                                 *)

\* Whoever executes a Turn is the only one to finish it: from its first
\* durable write to its terminal one the owner's Turn is in progress, and
\* after it terminal.  Neither a compensation running beside it, nor a
\* recovery decision, nor an earlier process finishes it under its hands, so
\* require_turn_transition never refuses the owner.
OwnedTurnIsOpen ==
    \A t \in Turns : owner = t =>
        /\ stage = "beginning" => status[t] = "none"
        /\ stage \in {"begun", "unbegin", "invoking", "barrier", "preparing",
                      "graph", "persist", "refused", "left"} => InProgress(t)
        /\ stage \in {"seal", "delete", "aborted"} => status[t] \in Terminal

\* A Thread has at most one unfinished Turn, through compensations that run
\* after the lease was released, orphans of failed writes, and restarts.
OneTurnPerThread ==
    \A t, u \in Turns :
        ThreadOf[t] = ThreadOf[u] /\ InProgress(t) /\ InProgress(u) => t = u

\* An acknowledged cancellation is not overtaken by a completion of the same
\* process.  (A crash before the cancellation is durable loses it: a restart
\* completes a Turn whose checkpoint holds the answer.)
AckedNeverCompletes ==
    crashes = 0 => \A t \in acked : status[t] # "completed"

\* Whose hands a Turn is in, together: one owner, one unfinished Turn per
\* Thread, and an acknowledged cancellation that stays one.
TurnsInOneHand == OwnedTurnIsOpen /\ OneTurnPerThread /\ AckedNeverCompletes

\* As long as every write succeeds, an unfinished Turn in a running process is
\* in somebody's hands: executed, being cleaned up after, or waiting for the
\* user's decision.  Otherwise its Thread answers TurnBusy until a restart.
\* (A Turn whose cancellation was accepted while starting stays its owner's:
\* then every Thread is busy until a restart.)
Stranded(t) ==
    InProgress(t) /\ owner # t /\ compensating[t] = "none" /\ t \notin recoverable
NoStrandedTurn == mode = "up" /\ faults = 0 => \A t \in Turns : ~Stranded(t)

\* While unfinished Turns wait and nobody works, the user is asked about one,
\* or one is about to go back to the queue, or was lost on the way there.
RecoveryIsAsked ==
    /\ asking # Nobody => asking \in recoverable
    /\ mode = "up" /\ owner = Nobody /\ recoverable # {} =>
          \/ asking # Nobody
          \/ \E t \in Turns : compensating[t] = "requeue" \/ Stranded(t)

\* The terminal event and the stored status agree; a completion is never told
\* before it is durable, whatever fails.
ToldAgrees ==
    \A t \in Turns : told[t] \in Terminal =>
        /\ told[t] = "completed" => status[t] = "completed"
        /\ faults = 0 => status[t] = told[t]

\* When every write succeeds, a finished Turn leaves nothing behind when it
\* gives up the foreground: its changes are sealed, so they can be undone, and
\* its checkpoint is gone.
CleanWhenReleased ==
    mode = "up" /\ faults = 0 =>
        \A t \in Turns : status[t] \in Terminal /\ owner # t =>
            changes[t] # "open" /\ checkpoint[t] = "none"

\* In a running process whose writes succeed nothing is left behind: no Turn
\* nobody works on, no question nobody asks, no terminal event that disagrees
\* with the store, no change unsealed and no checkpoint of a finished Turn.
NothingLeftBehind ==
    NoStrandedTurn /\ RecoveryIsAsked /\ ToldAgrees /\ CleanWhenReleased

\* A checkpoint is deleted only after its Turn's terminal status is durable:
\* a crash in between never turns resumable work into a lost Turn.
CheckpointKept ==
    [][\A t \in Turns : checkpoint[t] # "none" /\ checkpoint'[t] = "none"
          => status[t] \in Terminal]_vars

\* A startup that activates the workspace has settled every Turn: unfinished
\* ones have a checkpoint with work left to do and wait for a decision, no
\* ChangeSet is open, and finished ones have no checkpoint.  The exception is a
\* Turn this startup ended itself and whose clean-up failed: the next startup
\* finds it finished and deletes its checkpoint.
StartupSettles ==
    [][mode = "reconciling" /\ mode' = "up" => \A t \in Turns :
          /\ status[t] \in Terminal =>
                checkpoint[t] = "none" \/ (t \in settled /\ faults > 0)
          /\ InProgress(t) => /\ checkpoint[t] \in {"working", "uncertain"}
                              /\ t \in recoverable'
          /\ changes[t] # "open"]_vars

\* What a crash may cost: never a checkpoint that still has work, and nothing
\* at all that the next startup has not settled.
CrashesSettle == CheckpointKept /\ StartupSettles
=============================================================================
