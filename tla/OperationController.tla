------------------------- MODULE OperationController -------------------------
(***************************************************************************)
(* Foreground ownership and the life of one Operation:                     *)
(* application/foreground.py and application/operations.py.                *)
(*                                                                         *)
(* Everything runs on one asyncio loop, so the code between two awaits is  *)
(* one atomic step, and other tasks step in between.  The actors are       *)
(*   - one request task per Operation (submit_turn, execute_direct, ...):  *)
(*     it reserves, prepares, publishes operation.started, creates the     *)
(*     Operation task and waits for its first step;                        *)
(*   - the Operation task invoke(), which runs the factory;                *)
(*   - exclusive tasks (state-changing commands, interaction resolutions); *)
(*   - the client, which cancels by Operation ID;                          *)
(*   - the task that closes the application.                               *)
(*                                                                         *)
(* Delivery of an event never changes this state (every terminal event is  *)
(* published under a ten-second bound and its failure is swallowed), so    *)
(* `published` records the publications a task performs.                   *)
(***************************************************************************)
EXTENDS Naturals, Sequences

CONSTANTS Ops,          \* Operation identifiers, one request task each
          Exclusives,   \* tasks that take the lease with acquire_exclusive()
          Nobody        \* None

ASSUME OpsAssumption ==
    /\ Ops \cap Exclusives = {}
    /\ Nobody \notin Ops \cup Exclusives

VARIABLES
    lease,        \* ForegroundArbiter._lease, by its holder
    closing,      \* ForegroundArbiter._closing
    activeId,     \* OperationController._active_id
    phase,        \* _active_phase
    committed,    \* _committed_terminal
    starterTask,  \* _starter_task
    request,      \* where each Operation's request task is
    reqCancel,    \* request tasks with a cancellation pending
    task,         \* where each Operation task is
    taskCancel,   \* Operation tasks with a cancellation pending
    exclusive,    \* where each exclusive task is
    exclCancel,   \* exclusive tasks with a cancellation pending
    ackedIn,      \* the phase in which cancel() returned true, if it did
    outcome,      \* the terminal committed for each Operation, ever
    published,    \* the lifecycle events published for each Operation
    shutdown      \* where the closing task is

control   == <<activeId, phase, committed>>
requests  == <<request, reqCancel, starterTask>>
tasks     == <<task, taskCancel>>
exclusives == <<exclusive, exclCancel>>
history   == <<ackedIn, outcome, published>>
closer    == <<closing, shutdown>>
vars == <<lease, control, requests, tasks, exclusives, history, closer>>

-----------------------------------------------------------------------------

Phases == {"reserved", "starting", "running", "cancelling", "committing",
           "committed"}
Terminals == {"completed", "failed"}
Events == Terminals \cup {"started", "cancelled"}

\* Where a request task can be.  "ready" waits for invoke()'s first step,
\* "joining" awaits the Operation task after a cancellation, "cleanup" does
\* in its place what the Operation task did not.
RequestStates == {"idle", "reserved", "emitting", "ready", "joining", "cleanup",
                  "rejected", "aborted", "raised", "returned"}
RequestOver == {"rejected", "aborted", "raised", "returned"}
\* Where the Operation task can be.  "dead": cancelled before its first step,
\* so neither its body nor its finally clause runs.  "announcing" publishes a
\* cancellation accepted while starting; that branch lies before the try, so
\* the task ends "left", its finally clause never entered either.
TaskStates == {"none", "created", "announcing", "running", "committing",
               "publishing", "finalizing", "done", "left", "dead"}
TaskOver == {"done", "left", "dead"}
ShutdownStates == {"open", "draining", "starter", "task", "idle", "closed"}

TypeOK ==
    /\ lease \in Ops \cup Exclusives \cup {Nobody}
    /\ closing \in BOOLEAN
    /\ activeId \in Ops \cup {Nobody}
    /\ phase \in Phases \cup {"none"}
    /\ committed \in Terminals \cup {"none"}
    /\ starterTask \in Ops \cup {Nobody}
    /\ request \in [Ops -> RequestStates]
    /\ reqCancel \subseteq Ops
    /\ task \in [Ops -> TaskStates]
    /\ taskCancel \subseteq Ops
    /\ exclusive \in [Exclusives -> {"idle", "held", "over"}]
    /\ exclCancel \subseteq Exclusives
    /\ ackedIn \in [Ops -> {"never", "starting", "running"}]
    /\ outcome \in [Ops -> Terminals \cup {"none"}]
    /\ published \in [Ops -> Seq(Events)]
    /\ shutdown \in ShutdownStates

Init ==
    /\ lease = Nobody
    /\ closing = FALSE
    /\ activeId = Nobody
    /\ phase = "none"
    /\ committed = "none"
    /\ starterTask = Nobody
    /\ request = [o \in Ops |-> "idle"]
    /\ reqCancel = {}
    /\ task = [o \in Ops |-> "none"]
    /\ taskCancel = {}
    /\ exclusive = [x \in Exclusives |-> "idle"]
    /\ exclCancel = {}
    /\ ackedIn = [o \in Ops |-> "never"]
    /\ outcome = [o \in Ops |-> "none"]
    /\ published = [o \in Ops |-> <<>>]
    /\ shutdown = "open"

-----------------------------------------------------------------------------
(* The arbiter, and the clean-up every path ends in.                       *)

\* _acquire: refused while closing or while any lease is held.
CanAcquire == ~closing /\ lease = Nobody

\* ForegroundLease.release: once only, so a second release of the same lease
\* leaves whoever holds it by then alone.
Release(holder) == lease' = IF lease = holder THEN Nobody ELSE lease

\* The fields every exit path resets, whoever is active by then.
ClearActive ==
    /\ activeId' = Nobody
    /\ phase' = "none"
    /\ committed' = "none"

Publish(o, event) == published' = [published EXCEPT ![o] = Append(@, event)]

Move(pc, a, to) == [pc EXCEPT ![a] = to]

-----------------------------------------------------------------------------
(* The request task of Operation o.                                        *)

\* reserve(): the lease and the reservation in one step.
Reserve(o) ==
    /\ request[o] = "idle"
    /\ shutdown # "draining"
    /\ activeId = Nobody /\ CanAcquire
    /\ lease' = o
    /\ activeId' = o
    /\ phase' = "reserved"
    /\ starterTask' = o
    /\ request' = Move(request, o, "reserved")
    /\ UNCHANGED <<committed, reqCancel, tasks, exclusives, history, closer>>

\* reserve() raises OperationBusy: somebody is active, the application is
\* closing, or the admission gate sees a pending interaction (the lease it
\* was taken for is released in the same step).
Reject(o) ==
    /\ request[o] = "idle"
    /\ shutdown # "draining"
    /\ request' = Move(request, o, "rejected")
    /\ UNCHANGED <<lease, control, reqCancel, starterTask, tasks, exclusives,
                   history, closer>>

\* The preparation between reserve() and start_reserved() failed or was
\* cancelled: every caller then calls abort().
Abort(o) ==
    /\ request[o] = "reserved"
    /\ request' = Move(request, o, "aborted")
    /\ reqCancel' = reqCancel \ {o}
    /\ IF activeId = o
       THEN ClearActive /\ starterTask' = Nobody
       ELSE UNCHANGED <<control, starterTask>>
    /\ Release(o)
    /\ UNCHANGED <<tasks, exclusives, history, closer>>

\* start_reserved() up to the publication of operation.started.
StartReserved(o) ==
    /\ request[o] = "reserved"
    /\ o \notin reqCancel
    /\ activeId = o
    /\ phase' = "starting"
    /\ request' = Move(request, o, "emitting")
    /\ UNCHANGED <<lease, activeId, committed, reqCancel, starterTask, tasks,
                   exclusives, history, closer>>

\* operation.started is out: the Operation task is created, not yet run.
EmitStarted(o) ==
    /\ request[o] = "emitting"
    /\ o \notin reqCancel
    /\ Publish(o, "started")
    /\ phase' = IF phase = "starting" THEN "running" ELSE phase
    /\ request' = Move(request, o, "ready")
    /\ task' = Move(task, o, "created")
    /\ UNCHANGED <<lease, activeId, committed, reqCancel, starterTask,
                   taskCancel, exclusives, ackedIn, outcome, closer>>

\* The publication raised or was cancelled; the line may be out even so.
EmitStartedFails(o) ==
    /\ request[o] = "emitting"
    /\ \/ Publish(o, "started")
       \/ UNCHANGED published
    /\ ClearActive
    /\ starterTask' = Nobody
    /\ Release(o)
    /\ request' = Move(request, o, "raised")
    /\ reqCancel' = reqCancel \ {o}
    /\ UNCHANGED <<tasks, exclusives, ackedIn, outcome, closer>>

\* ready.wait() returned: invoke() has taken its first step.
RequestReturns(o) ==
    /\ request[o] = "ready"
    /\ task[o] \notin {"created", "dead"}
    /\ o \notin reqCancel
    /\ starterTask' = Nobody
    /\ request' = Move(request, o, "returned")
    /\ UNCHANGED <<lease, control, reqCancel, tasks, exclusives, history, closer>>

\* ready.wait() was cancelled.  The factory has not passed its first await
\* (the waiter is woken before it), so the phase is running or cancelling and
\* the branch for a committed phase is not taken.
RequestCancelled(o) ==
    /\ request[o] = "ready"
    /\ o \in reqCancel
    /\ reqCancel' = reqCancel \ {o}
    /\ request' = Move(request, o, "joining")
    /\ IF phase = "running"
       THEN phase' = "cancelling" /\ taskCancel' = taskCancel \cup {o}
       ELSE UNCHANGED <<phase, taskCancel>>
    /\ UNCHANGED <<lease, activeId, committed, starterTask, task, exclusives,
                   history, closer>>

\* The awaited Operation task is over.  If its finally clause never ran, the
\* Operation is still active and this task owns the clean-up.
RequestJoined(o) ==
    /\ request[o] = "joining"
    /\ task[o] \in TaskOver
    /\ reqCancel' = reqCancel \ {o}
    /\ IF activeId = o
       THEN request' = Move(request, o, "cleanup") /\ UNCHANGED starterTask
       ELSE request' = Move(request, o, "raised") /\ starterTask' = Nobody
    /\ UNCHANGED <<lease, control, tasks, exclusives, history, closer>>

\* The clean-up publication is done (or refused, out of the cancelling phase).
\* After a task that has announced its cancellation it is the second one.
RequestCleanup(o) ==
    /\ request[o] = "cleanup"
    /\ IF activeId = o /\ phase = "cancelling"
       THEN Publish(o, "cancelled")
       ELSE UNCHANGED published
    /\ ClearActive
    /\ starterTask' = Nobody
    /\ Release(o)
    /\ request' = Move(request, o, "raised")
    /\ reqCancel' = reqCancel \ {o}
    /\ UNCHANGED <<tasks, exclusives, ackedIn, outcome, closer>>

-----------------------------------------------------------------------------
(* The Operation task of o: invoke().                                      *)

\* Faulty: the first step goes straight to the factory.
InvokeStarts_Always(o) ==
    /\ task[o] = "created"
    /\ o \notin taskCancel
    /\ task' = Move(task, o, "running")
    /\ UNCHANGED <<lease, control, requests, taskCancel, exclusives, history,
                   closer>>

\* The first step: ready.set(), then either the factory or, for a
\* cancellation accepted while starting, the publication of the cancellation.
InvokeStarts(o) ==
    /\ task[o] = "created"
    /\ o \notin taskCancel
    /\ task' = Move(task, o,
                    IF phase = "cancelling" THEN "announcing" ELSE "running")
    /\ UNCHANGED <<lease, control, requests, taskCancel, exclusives, history,
                   closer>>

\* asyncio throws a cancellation into a task that has not started: the body
\* never runs, ready is never set and the finally clause is never entered.
InvokeDies(o) ==
    /\ task[o] = "created"
    /\ o \in taskCancel
    /\ task' = Move(task, o, "dead")
    /\ taskCancel' = taskCancel \ {o}
    /\ UNCHANGED <<lease, control, requests, exclusives, history, closer>>

\* The request task waiting for the first step is woken before the factory
\* resumes from its first await: the loop's ready queue is first in, first out.
StarterWoken(o) == request[o] # "ready"

\* The bounded publication of a cancellation accepted while starting, and the
\* raise behind it: the try with the finally clause is further down, so the
\* Operation stays active and the lease held.
AnnounceCancelled(o) ==
    /\ task[o] = "announcing" /\ StarterWoken(o)
    /\ Publish(o, "cancelled")
    /\ task' = Move(task, o, "left")
    /\ UNCHANGED <<lease, control, requests, taskCancel, exclusives, ackedIn,
                   outcome, closer>>

\* Faulty: _require_running forgets the cancelling phase.
CommitBegins_Cancelling(o) ==
    /\ task[o] = "running" /\ StarterWoken(o)
    /\ activeId = o /\ phase \in {"running", "cancelling"}
    /\ phase' = "committing"
    /\ task' = Move(task, o, "committing")
    /\ UNCHANGED <<lease, activeId, committed, requests, taskCancel, exclusives,
                   history, closer>>

\* commit_completed() or commit_failed(): _require_running, then COMMITTING.
CommitBegins(o) ==
    /\ task[o] = "running" /\ StarterWoken(o)
    /\ activeId = o /\ phase = "running"
    /\ phase' = "committing"
    /\ task' = Move(task, o, "committing")
    /\ UNCHANGED <<lease, activeId, committed, requests, taskCancel, exclusives,
                   history, closer>>

\* The durable action is over, whatever cancels the caller: completed if it
\* was a success that became durable, failed otherwise.
CommitEnds(o) ==
    /\ task[o] = "committing"
    /\ \E terminal \in Terminals :
          /\ committed' = terminal
          /\ outcome' = [outcome EXCEPT ![o] = terminal]
    /\ phase' = "committed"
    /\ task' = Move(task, o, "running")
    /\ UNCHANGED <<lease, activeId, requests, taskCancel, exclusives, ackedIn,
                   published, closer>>

\* The factory returns, raises or is cancelled.  Only a running Operation
\* still chooses its outcome: return commits completed, an exception commits
\* failed, a cancellation makes it cancelling.
FactoryExits(o) ==
    /\ task[o] = "running" /\ StarterWoken(o)
    /\ task' = Move(task, o, "publishing")
    /\ taskCancel' = taskCancel \ {o}
    /\ IF phase = "running"
       THEN \/ \E terminal \in Terminals :
                  /\ phase' = "committed"
                  /\ committed' = terminal
                  /\ outcome' = [outcome EXCEPT ![o] = terminal]
            \/ /\ phase' = "cancelling"
               /\ UNCHANGED <<committed, outcome>>
       ELSE UNCHANGED <<phase, committed, outcome>>
    /\ UNCHANGED <<lease, activeId, requests, exclusives, ackedIn, published,
                   closer>>

\* The bounded publication of the terminal event the phase calls for.
PublishTerminal(o) ==
    /\ task[o] = "publishing" /\ StarterWoken(o)
    /\ Publish(o, IF phase = "cancelling" THEN "cancelled" ELSE committed)
    /\ task' = Move(task, o, "finalizing")
    /\ UNCHANGED <<lease, control, requests, taskCancel, exclusives, ackedIn,
                   outcome, closer>>

\* The finally clause of invoke(), around everything but AnnounceCancelled.
Finalize(o) ==
    /\ task[o] = "finalizing"
    /\ ClearActive
    /\ Release(o)
    /\ task' = Move(task, o, "done")
    /\ UNCHANGED <<requests, taskCancel, exclusives, history, closer>>

-----------------------------------------------------------------------------
(* The client, the exclusive tasks and the closing task.                   *)

\* cancel() returns true.  Elsewhere it returns false and changes nothing.
Cancel(o) ==
    /\ activeId = o
    /\ \/ phase = "starting" /\ UNCHANGED taskCancel
       \/ /\ phase = "running"
          /\ task[o] # "none"
          /\ taskCancel' = taskCancel \cup {o}
    /\ phase' = "cancelling"
    /\ ackedIn' = [ackedIn EXCEPT ![o] = phase]
    /\ UNCHANGED <<lease, activeId, committed, requests, task, exclusives,
                   outcome, published, closer>>

\* acquire_exclusive() or acquire_interaction_resolution().
ExclusiveAcquires(x) ==
    /\ exclusive[x] = "idle"
    /\ shutdown # "draining"
    /\ CanAcquire
    /\ lease' = x
    /\ exclusive' = Move(exclusive, x, "held")
    /\ UNCHANGED <<control, requests, tasks, exclCancel, history, closer>>

\* Leaving `async with lease`: the work is done, failed or was cancelled.
ExclusiveReleases(x) ==
    /\ exclusive[x] = "held"
    /\ Release(x)
    /\ exclusive' = Move(exclusive, x, "over")
    /\ exclCancel' = exclCancel \ {x}
    /\ UNCHANGED <<control, requests, tasks, history, closer>>

\* serve_stdio: a shutdown request or the end of the input cancels every
\* background request and gathers them; nothing is read meanwhile.
DrainRequests ==
    /\ shutdown = "open"
    /\ shutdown' = "draining"
    /\ reqCancel' = reqCancel \cup
           {o \in Ops : request[o] \notin RequestOver \cup {"idle"}}
    /\ exclCancel' = exclCancel \cup {x \in Exclusives : exclusive[x] = "held"}
    /\ UNCHANGED <<lease, control, request, starterTask, tasks, exclusive,
                   history, closing>>

\* close_application and OperationController.shutdown up to its first await.
BeginClosing ==
    /\ \/ shutdown = "open"
       \/ /\ shutdown = "draining"
          /\ \A o \in Ops : request[o] \in RequestOver \cup {"idle"}
          /\ \A x \in Exclusives : exclusive[x] # "held"
    /\ closing' = TRUE
    /\ shutdown' = "starter"
    /\ reqCancel' = reqCancel \cup ({starterTask} \ {Nobody})
    /\ UNCHANGED <<lease, control, request, starterTask, tasks, exclusives,
                   history>>

\* The starter is over: cancel the Operation if it is still running.
StarterJoined ==
    /\ shutdown = "starter"
    /\ starterTask = Nobody
    /\ shutdown' = "task"
    /\ IF activeId # Nobody /\ phase = "running"
       THEN phase' = "cancelling" /\ taskCancel' = taskCancel \cup {activeId}
       ELSE UNCHANGED <<phase, taskCancel>>
    /\ UNCHANGED <<lease, activeId, committed, requests, task, exclusives,
                   history, closing>>

\* Faulty: the exclusive owner is not cancelled.
TaskJoined_SparesExclusive ==
    /\ shutdown = "task"
    /\ \A o \in Ops : task[o] \in TaskOver \cup {"none"}
    /\ shutdown' = "idle"
    /\ UNCHANGED <<lease, control, requests, tasks, exclusives, history, closing>>

\* The Operation task is over; an exclusive owner is cancelled.
TaskJoined ==
    /\ shutdown = "task"
    /\ \A o \in Ops : task[o] \in TaskOver \cup {"none"}
    /\ shutdown' = "idle"
    /\ exclCancel' = exclCancel \cup ({lease} \cap Exclusives)
    /\ UNCHANGED <<lease, control, requests, tasks, exclusive, history, closing>>

\* wait_idle() returned.  The resources are torn down from here on.
IdleReached ==
    /\ shutdown = "idle"
    /\ lease = Nobody
    /\ shutdown' = "closed"
    /\ UNCHANGED <<lease, control, requests, tasks, exclusives, history, closing>>

-----------------------------------------------------------------------------

RequestNext(o) ==
    \/ Reserve(o) \/ Reject(o) \/ Abort(o) \/ StartReserved(o)
    \/ EmitStarted(o) \/ EmitStartedFails(o) \/ RequestReturns(o)
    \/ RequestCancelled(o) \/ RequestJoined(o) \/ RequestCleanup(o)

TaskNext(o) ==
    \/ InvokeStarts(o) \/ InvokeDies(o) \/ AnnounceCancelled(o)
    \/ CommitBegins(o) \/ CommitEnds(o)
    \/ FactoryExits(o) \/ PublishTerminal(o) \/ Finalize(o)

ShutdownNext ==
    DrainRequests \/ BeginClosing \/ StarterJoined \/ TaskJoined \/ IdleReached

\* o is over and so is its request, but its lease was never given up: nobody
\* is left who could.
Stranded(o) == activeId = o /\ task[o] = "left" /\ request[o] = "returned"

\* The process ends once the application is closed, or waits in wait_idle()
\* for the lease of a stranded Operation until it is killed.
Ended ==
    /\ \/ shutdown = "closed"
       \/ shutdown = "idle" /\ \E o \in Ops : Stranded(o)
    /\ UNCHANGED vars

Next ==
    \/ \E o \in Ops : RequestNext(o) \/ TaskNext(o) \/ Cancel(o)
    \/ \E x \in Exclusives : ExclusiveAcquires(x) \/ ExclusiveReleases(x)
    \/ ShutdownNext
    \/ Ended

Spec == Init /\ [][Next]_vars

(***************************************************************************)
(* Fairness.  The loop runs every ready task, publications and joined tasks *)
(* are bounded, a durable action ends, and a factory or an exclusive        *)
(* handler that was cancelled unwinds; so does a factory whose outcome is   *)
(* committed.  Nothing is assumed of a factory or a handler nobody          *)
(* cancelled: a model call or an approval may stay unanswered.              *)
(***************************************************************************)
RequestProceeds(o) ==
    \/ Abort(o) \/ StartReserved(o) \/ EmitStarted(o) \/ EmitStartedFails(o)
    \/ RequestReturns(o) \/ RequestCancelled(o) \/ RequestJoined(o)
    \/ RequestCleanup(o)

TaskProceeds(o) ==
    \/ InvokeStarts(o) \/ InvokeDies(o) \/ AnnounceCancelled(o) \/ CommitEnds(o)
    \/ PublishTerminal(o) \/ Finalize(o)
    \/ phase # "running" /\ FactoryExits(o)

ShutdownProceeds ==
    \/ shutdown = "draining" /\ BeginClosing
    \/ StarterJoined \/ TaskJoined \/ IdleReached

Fairness ==
    /\ \A o \in Ops : WF_vars(RequestProceeds(o)) /\ WF_vars(TaskProceeds(o))
    /\ \A x \in Exclusives : WF_vars(x \in exclCancel /\ ExclusiveReleases(x))
    /\ WF_vars(ShutdownProceeds)

FairSpec == Spec /\ Fairness

-----------------------------------------------------------------------------
(* Safety.                                                                 *)

InForeground(o) ==
    task[o] \in {"announcing", "running", "committing", "publishing", "finalizing"}

\* Nothing changes the workspace beside the lease holder: a factory, its
\* durable commit and its publications run only while their own Operation is
\* active and holds the lease, and an exclusive handler only while it does.
ForegroundExclusion ==
    /\ \A o \in Ops : InForeground(o) => activeId = o /\ lease = o
    /\ \A x \in Exclusives : exclusive[x] = "held" => lease = x

\* The controller's identity and the arbiter's lease never part: an Operation
\* holds the lease exactly while it is the active one.
ActiveHoldsLease ==
    /\ activeId # Nobody => lease = activeId
    /\ lease \in Ops => activeId = lease

\* Whoever holds the lease still has a task that will give it up, with the one
\* exception of an Operation whose cancellation was accepted while starting.
LeaseIsInUse ==
    \A o \in Ops :
        lease = o /\ request[o] \in RequestOver /\ task[o] \in TaskOver \cup {"none"}
        => Stranded(o) /\ ackedIn[o] = "starting"

\* A true acknowledgement is final: that Operation never commits an outcome
\* and never publishes one, whatever its factory does afterwards.
AcknowledgedCancelWins ==
    \A o \in Ops : ackedIn[o] # "never" =>
        /\ outcome[o] = "none"
        /\ \A i \in 1..Len(published[o]) : published[o][i] \notin Terminals

\* A cancellation accepted between operation.started and the acceptance
\* response keeps the factory from running at all.
CancelledStartNeverRuns ==
    \A o \in Ops : ackedIn[o] = "starting" => task[o] \notin {"running", "committing"}

\* A terminal event of o is out; a second one is.
Told(o) == Len(published[o]) > 1
ToldTwice(o) == Len(published[o]) > 2

\* operation.started comes first and a terminal event follows it that names
\* the committed outcome (cancelled only if there is none).  Only an Operation
\* cancelled while starting is told a second time that it was cancelled, by
\* the clean-up of a request that was cancelled too.
TerminalTellsOutcome ==
    \A o \in Ops :
        LET log == published[o] IN
        /\ Len(log) <= 3
        /\ Len(log) > 0 => log[1] = "started"
        /\ Told(o) => log[2] = IF outcome[o] = "none" THEN "cancelled"
                               ELSE outcome[o]
        /\ ToldTwice(o) => /\ log[3] = log[2]
                           /\ ackedIn[o] = "starting" /\ request[o] = "raised"

\* Whoever gives the lease up has published its terminal event first, if its
\* Operation task was created.
ReleasedAfterTerminal ==
    \A o \in Ops : task[o] # "none" /\ lease # o => Told(o)

\* What holds of the foreground in every state, together: one worker, a lease
\* that agrees with it and is in use, a cancellation that is final, and a
\* terminal event that tells the outcome before the lease is given up.
ForegroundSound ==
    /\ ForegroundExclusion /\ ActiveHoldsLease /\ LeaseIsInUse
    /\ AcknowledgedCancelWins /\ CancelledStartNeverRuns
    /\ TerminalTellsOutcome /\ ReleasedAfterTerminal

\* Once the resources are torn down no request, factory or exclusive handler
\* that could still use them is left.
ClosedIsQuiet ==
    shutdown = "closed" =>
        /\ lease = Nobody /\ activeId = Nobody
        /\ \A o \in Ops : /\ request[o] \in RequestOver \cup {"idle"}
                          /\ task[o] \in TaskOver \cup {"none"}
        /\ \A x \in Exclusives : exclusive[x] # "held"

-----------------------------------------------------------------------------
(* Action and temporal properties.                                         *)

\* Closing ends unless an Operation is stranded: everything else it waits for
\* was cancelled or is past its commit point.
ShutdownCompletes ==
    (shutdown # "open") ~> (shutdown = "closed" \/ \E o \in Ops : Stranded(o))

\* An acknowledged cancellation releases the lease unless the task died before
\* its body or never entered its finally clause.  (The architecture notes say "It
\* then emits `operation.cancelled` and releases the lease" without exception.)
CancelReleasesOrDies ==
    \A o \in Ops : (ackedIn[o] # "never")
                   ~> (lease # o \/ task[o] = "dead" \/ Stranded(o))

\* Both ends come, and what closing leaves is quiet.
EndsQuietly == []ClosedIsQuiet /\ ShutdownCompletes /\ CancelReleasesOrDies

-----------------------------------------------------------------------------
(* What the controller promises, as ForegroundOwner states it.             *)

Fate(o) ==
    IF outcome[o] # "none" THEN outcome[o]
    ELSE IF \/ ackedIn[o] # "never"
            \/ activeId = o /\ phase = "cancelling"
            \/ Told(o)
         THEN "cancelled" ELSE "open"

Promise == INSTANCE ForegroundOwner WITH
    owner <- lease,
    closed <- closing,
    begun <- {o \in Ops : task[o] # "none"},
    fate <- [o \in Ops |-> Fate(o)],
    told <- [o \in Ops |-> IF Told(o) THEN published[o][2] ELSE "open"],
    repeated <- {o \in Ops : ToldTwice(o)}

\* Every behaviour of the controller is one of the abstract owner.
KeepsPromise == Promise!Spec
=============================================================================
