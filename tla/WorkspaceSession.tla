--------------------------- MODULE WorkspaceSession ---------------------------
(***************************************************************************)
(* The application layer of one Core: the selected Thread, the permission  *)
(* session, the one pending question, the recovery queue and the workspace *)
(* runtimes, driven by requests that run concurrently and suspend at every *)
(* await.  An action is what a handler does between two awaits: whatever   *)
(* it read before the await may have changed when its next step runs.      *)
(*                                                                         *)
(* The foreground lease is derived from its holders (its own interleavings *)
(* are those of OperationController), and what an Operation does inside a  *)
(* tool call is ToolExecution's.                                           *)
(***************************************************************************)
EXTENDS Naturals, Sequences, FiniteSets, SequencesExt

CONSTANTS
  Threads,        \* the Threads of the workspace
  Found,          \* the Turns found in progress at activation, in order
  Home,           \* the Thread of each of them
  Slots,          \* requests the server runs at once; the lowest free one is taken
  Capabilities,   \* what a tool call may need; a subset of KnownCapabilities
  NoThread, NoTurn,
  MaxAsks,        \* requests other than answers and cancellations
  MaxRuntime,     \* publications of a new runtime
  MaxFaults       \* awaited calls and deliveries that fail

Unfinished == ToSet(Found)
KnownCapabilities == {"workspace.write", "network.read", "mcp"}

\* A Turn has one Thread and is found once.
ASSUME WorkspaceAssumption ==
  /\ Home \in [Unfinished -> Threads]
  /\ Found \in Seq(Unfinished)
  /\ \A i, j \in 1 .. Len(Found) : Found[i] = Found[j] => i = j
  /\ IsFiniteSet(Slots)
  /\ MaxRuntime \in Nat
  /\ Capabilities \subseteq KnownCapabilities
  /\ NoThread \notin Threads /\ NoTurn \notin Unfinished

VARIABLES
  runtime,      \* the published runtime
  selected,     \* the current Thread of each runtime's commands
  permission,   \* the permission session; owner and asked are explained below
  pending,      \* the question of the coordinator, and the decision it holds
  operation,    \* the Operation that holds the foreground
  request,      \* what each request slot is running
  queue,        \* Turns whose recovery must still be asked
  status,       \* in_progress, settled, or stranded (see RecoveryRequeued)
  undelivered,  \* a recovery resolution the client was not told
  deferred,     \* recovery found another question open and was not asked
  orphaned,     \* /retry selected its Thread after its Operation had ended
  asks, faults  \* what is left of MaxAsks and MaxFaults

vars == <<runtime, selected, permission, pending, operation, request, queue,
          status, undelivered, deferred, orphaned, asks, faults>>
workspace == <<runtime, selected>>
recovery == <<queue, status, undelivered, deferred>>

(***************************************************************************)
(* Records                                                                 *)
(***************************************************************************)

NoQuestion == [id |-> 0, kind |-> "none", thread |-> NoThread, turn |-> NoTurn,
               decision |-> "none"]
Question(id, kind, t, u) ==
  [id |-> id, kind |-> kind, thread |-> t, turn |-> u, decision |-> "none"]

NoOperation ==
  [stage |-> "none", thread |-> NoThread, rt |-> 0, turn |-> NoTurn,
   needs |-> "none", question |-> 0, heard |-> "none",
   seen |-> NoThread, published |-> TRUE]

\* An admitted Operation; heard and seen are history: the decision the user
\* gave to its question and the Thread selected when the user gave it.  One
\* whose cancellation was accepted while it was starting is dying: unless the
\* start fails it never gives the foreground up.
Reserved(t, rt, u) ==
  [NoOperation EXCEPT !.stage = "reserved", !.thread = t, !.rt = rt, !.turn = u,
                      !.published = (u = NoTurn)]

\* turn is the Turn that a failed recovery is to put back into the queue.
NoRequest == [kind |-> "none", stage |-> "none", rt |-> 0, thread |-> NoThread,
              id |-> 0, decision |-> "none", turn |-> NoTurn]
Running(kind, stage, t, id, d) ==
  [kind |-> kind, stage |-> stage, rt |-> runtime, thread |-> t, id |-> id,
   decision |-> d, turn |-> NoTurn]
At(s, kinds, stage) == request[s].kind \in kinds /\ request[s].stage = stage
Becomes(s, stage) == request' = [request EXCEPT ![s].stage = stage]
Idle(s) == request[s] = NoRequest /\ \A r \in Slots : r < s => request[r] # NoRequest
Returns(s) == request' = [request EXCEPT ![s] = NoRequest]

\* A question's id is never reused while a question, an Operation, a permission
\* session or a request still names it.
FreshId ==
  CHOOSE id \in 1 .. Cardinality(Slots) + 4 :
    id \notin {pending.id, operation.question, permission.asked}
                \cup {request[s].id : s \in Slots}

\* An awaited call, or every attempt of a delivery, fails.
Fails == faults > 0 /\ faults' = faults - 1

(***************************************************************************)
(* The foreground and the bootstrap lock                                   *)
(***************************************************************************)

StartKinds == {"start", "retry"}
CommandKinds == {"select", "mode", "full", "publish", "revoke"}

\* ForegroundKind.EXCLUSIVE and RESOLVING_INTERACTION
HoldsExclusive(s) ==
  \/ request[s].kind \in CommandKinds
  \/ request[s].stage \in {"acknowledged", "aborting", "aborted"}
ForegroundFree ==
  operation.stage = "none" /\ \A s \in Slots : ~HoldsExclusive(s)
BootstrapFree ==
  \A s \in Slots :
    request[s].stage \notin {"aborting", "aborted", "resuming", "starting_recovery",
                             "requeueing", "resumed", "flushing"}

\* The admission gate: a pending question admits only its own continuation.
Admitted(id) ==
  IF pending.id = 0 THEN id = 0
  ELSE pending.kind = "recovery_decision" /\ pending.id = id

(***************************************************************************)
(* The permission session.  owner is history: the Thread for which the     *)
(* user raised the mode or gave a grant.  asked is the full access         *)
(* question created since the last set_mode, while it is pending: its      *)
(* generation is current exactly when it is that one.                      *)
(***************************************************************************)

FreshPermission ==
  [mode |-> "request_approval", writes |-> FALSE, network |-> {},
   owner |-> NoThread, asked |-> 0]

Moded(mode, t) == [FreshPermission EXCEPT !.mode = mode, !.owner = t]
SetMode(mode, t) == permission' = Moded(mode, t)

\* PermissionPolicy.evaluate: "mcp" stands for every unknown capability.
Standing(needs, t) ==
  \/ needs = "network.read" /\ t \in permission.network
  \/ needs = "workspace.write"
       /\ (permission.writes \/ permission.mode \in {"accept_edits", "full_access"})

\* _on_thread_selected: a full access question dies with the Thread it is about.
\* Claiming a recovery also discards the recovery question (left).
Withdrawn(q) ==
  IF q.kind = "full_access_confirmation" THEN NoQuestion ELSE q
OnThreadSelected(left) == SetMode("request_approval", NoThread) /\ pending' = Withdrawn(left)

(***************************************************************************)
(* Recovery questions                                                      *)
(***************************************************************************)

RecoveryQuestion(u) == Question(FreshId, "recovery_decision", Home[u], u)
AsksHead(p, q) == p.kind = "recovery_decision" /\ p.turn = Head(q)

\* _present_next_recovery over the values the step leaves behind.
PresentNext(p, q, blocked) ==
  LET presents == ~blocked /\ q # <<>>
      creates == presents /\ p = NoQuestion
  IN  /\ pending' = IF creates THEN RecoveryQuestion(Head(q)) ELSE p
      /\ deferred' = IF creates THEN FALSE
                     ELSE deferred \/ (presents /\ ~AsksHead(p, q))

\* _bound_recovery: the question still is the pending one, about the head.
Bound(id) ==
  /\ pending.id = id
  /\ pending.kind = "recovery_decision"
  /\ queue # <<>> /\ Head(queue) = pending.turn

Discarded(id) == IF pending.id = id THEN NoQuestion ELSE pending

(***************************************************************************)
(* Activation: the first runtime is published, reconcile_startup found the *)
(* Turns of the queue, and the first of them is asked.                     *)
(***************************************************************************)

Init ==
  /\ runtime = 0
  /\ selected = [r \in 0 .. MaxRuntime |-> NoThread]
  /\ permission = FreshPermission
  /\ operation = NoOperation
  /\ request = [s \in Slots |-> NoRequest]
  /\ queue = Found
  /\ status = [u \in Unfinished |-> "in_progress"]
  /\ pending = IF queue = <<>> THEN NoQuestion
               ELSE Question(1, "recovery_decision", Home[Head(queue)], Head(queue))
  /\ undelivered = FALSE /\ deferred = FALSE /\ orphaned = FALSE
  /\ asks = MaxAsks /\ faults = MaxFaults

(***************************************************************************)
(* Turns and shell commands (which call no tool under the policy).  The    *)
(* selected Thread and the pending question are read on entry; the         *)
(* foreground is taken some awaits later, on the runtime of entry, and     *)
(* only the admission gate is consulted again.                             *)
(***************************************************************************)

SubmitRequest(s) ==
  /\ Idle(s)
  /\ selected[runtime] # NoThread
  /\ pending = NoQuestion
  /\ request' = [request EXCEPT ![s] =
                   Running("start", "checked", selected[runtime], 0, "none")]
  /\ UNCHANGED <<workspace, permission, pending, operation, recovery, orphaned, faults>>

\* OperationController.reserve, also for /retry after its guard.
Reserve(s) ==
  /\ At(s, StartKinds, "checked")
  /\ IF ForegroundFree /\ Admitted(0)
     THEN /\ operation' = Reserved(request[s].thread, request[s].rt, NoTurn)
          /\ Becomes(s, "reserved")
     ELSE UNCHANGED operation /\ Returns(s)
  /\ UNCHANGED <<workspace, permission, pending, recovery, orphaned, faults>>
\* Faulty: /retry keeps the permission session of the Thread it leaves.
StartReserved_Kept(s) ==
  /\ At(s, StartKinds, "reserved")
  /\ operation' = [operation EXCEPT !.stage = "starting"]
  /\ Becomes(s, "starting")
  /\ UNCHANGED <<workspace, permission, pending, recovery, orphaned, faults>>

\* The Turn was begun; start_reserved emits operation.started.  /retry runs
\* before_start first: its new Thread starts with a fresh permission session.
StartReserved(s) ==
  /\ At(s, StartKinds, "reserved")
  /\ operation' = [operation EXCEPT !.stage = "starting"]
  /\ Becomes(s, "starting")
  /\ IF request[s].kind = "retry"
     THEN OnThreadSelected(pending) /\ orphaned' = FALSE
     ELSE UNCHANGED <<permission, pending, orphaned>>
  /\ UNCHANGED <<workspace, recovery, faults>>

\* The start returned.  The work of an Operation that was cancelled meanwhile
\* never runs; the handler of /retry goes on all the same.
Started(s) ==
  /\ At(s, StartKinds, "starting")
  /\ LET retry == request[s].kind = "retry"
     IN  /\ operation' = IF operation.stage = "dying" THEN operation
                         ELSE [operation EXCEPT
                                 !.stage = IF retry THEN "barrier" ELSE "running"]
         /\ IF retry THEN Becomes(s, "publishing") ELSE Returns(s)
  /\ UNCHANGED <<workspace, permission, pending, recovery, orphaned, faults>>

StartFails(s) ==
  /\ Fails
  /\ \E stage \in {"reserved", "starting"} : At(s, StartKinds, stage)
  /\ operation' = NoOperation
  /\ Returns(s)
  /\ UNCHANGED <<workspace, permission, pending, recovery, orphaned>>

\* started() of /retry: the snapshots were read, the new Thread is selected
\* without another reset, and the Operation is let go, if it waits.
PublishRetry(s) ==
  /\ request[s].stage \in {"publishing", "unowned"}
  /\ selected' = [selected EXCEPT ![request[s].rt] = request[s].thread]
  /\ IF request[s].stage = "publishing"
     THEN /\ operation' = IF operation.stage = "dying" THEN operation
                          ELSE [operation EXCEPT !.stage = "running"]
          /\ UNCHANGED orphaned
     ELSE UNCHANGED operation /\ orphaned' = (orphaned \/ request[s].rt = runtime)
  /\ Returns(s)
  /\ UNCHANGED <<runtime, permission, pending, recovery, faults>>

PublishRetryFails(s) ==
  /\ Fails
  /\ request[s].stage \in {"publishing", "unowned"}
  /\ operation' = IF request[s].stage = "publishing" /\ operation.stage = "barrier"
                  THEN NoOperation ELSE operation
  /\ Returns(s)
  /\ UNCHANGED <<workspace, permission, pending, recovery, orphaned>>

(***************************************************************************)
(* Commands.  All but /retry take the foreground before their first await; *)
(* a question may still appear under it, asked by initialize.              *)
(***************************************************************************)

Command(s, kind, t, mode) ==
  /\ Idle(s)
  /\ ForegroundFree /\ pending = NoQuestion
  /\ kind = "retry" => selected[runtime] # NoThread
  /\ kind = "publish" => runtime < MaxRuntime
  /\ request' = [request EXCEPT ![s] =
                   Running(kind, IF kind = "retry" THEN "checked" ELSE "held", t, 0, mode)]
  /\ UNCHANGED <<workspace, permission, pending, operation, recovery, orphaned, faults>>

\* /new, /resume and /fork, their snapshots read
SelectThread(s) ==
  /\ At(s, {"select"}, "held")
  /\ selected' = [selected EXCEPT ![request[s].rt] = request[s].thread]
  /\ OnThreadSelected(pending) /\ orphaned' = FALSE
  /\ Returns(s)
  /\ UNCHANGED <<runtime, operation, recovery, faults>>

\* /permissions request_approval and /permissions accept_edits
ChangeMode(s) ==
  /\ At(s, {"mode"}, "held")
  /\ LET t == selected[request[s].rt]
     IN IF t # NoThread /\ pending = NoQuestion
        THEN SetMode(request[s].decision,
                     IF request[s].decision = "accept_edits" THEN t ELSE NoThread)
        ELSE UNCHANGED permission
  /\ Returns(s)
  /\ UNCHANGED <<workspace, pending, operation, recovery, orphaned, faults>>

\* /permissions full_access: the question is created, then announced.
AskFullAccess(s) ==
  /\ At(s, {"full"}, "held")
  /\ LET t == selected[request[s].rt]
     IN IF t # NoThread /\ pending = NoQuestion /\ permission.mode # "full_access"
        THEN /\ pending' = Question(FreshId, "full_access_confirmation", t, NoTurn)
             /\ permission' = [permission EXCEPT !.asked = FreshId]
             /\ request' = [request EXCEPT ![s].stage = "asking", ![s].id = FreshId]
        ELSE UNCHANGED <<permission, pending>> /\ Returns(s)
  /\ UNCHANGED <<workspace, operation, recovery, orphaned, faults>>

FullAccessAsked(s) ==
  /\ At(s, {"full"}, "asking")
  /\ \/ UNCHANGED <<permission, pending, faults>>
     \/ /\ Fails
        /\ pending' = Discarded(request[s].id)
        /\ permission' = [permission EXCEPT !.asked = 0]
  /\ Returns(s)
  /\ UNCHANGED <<workspace, operation, recovery, orphaned>>

\* /web revoke
RevokeNetwork(s) ==
  /\ At(s, {"revoke"}, "held")
  /\ permission' = [permission EXCEPT !.network = @ \ {selected[request[s].rt]}]
  /\ Returns(s)
  /\ UNCHANGED <<workspace, pending, operation, recovery, orphaned, faults>>

\* /web on|off, /model and the credential dialog build a candidate runtime from
\* the Thread selected now, and publish it when it is built.
BuildRuntime(s) ==
  /\ At(s, {"publish"}, "held")
  /\ request' = [request EXCEPT ![s].stage = "building", ![s].thread = selected[runtime]]
  /\ UNCHANGED <<workspace, permission, pending, operation, recovery, orphaned, faults>>

PublishRuntime(s) ==
  /\ At(s, {"publish"}, "building")
  /\ IF operation.stage = "none"
     THEN /\ runtime' = runtime + 1
          /\ selected' = [selected EXCEPT ![runtime + 1] = request[s].thread]
          /\ permission' = [permission EXCEPT !.network = {}]
     ELSE UNCHANGED <<workspace, permission>>
  /\ Returns(s)
  /\ UNCHANGED <<pending, operation, recovery, orphaned, faults>>

CommandFails(s) ==
  /\ Fails
  /\ request[s].kind \in CommandKinds /\ request[s].stage \in {"held", "building"}
  /\ Returns(s)
  /\ UNCHANGED <<workspace, permission, pending, operation, recovery, orphaned>>

(***************************************************************************)
(* interaction.respond.  The answer is to the question the user saw; the   *)
(* consistency check is awaited before the question is looked up.          *)
(***************************************************************************)

Offered ==
  CASE pending.kind = "tool_approval" ->
         {"allow_once", "deny"}
           \cup (IF operation.needs = "workspace.write" THEN {"allow_thread_writes"} ELSE {})
           \cup (IF operation.needs = "network.read" THEN {"allow_thread_network"} ELSE {})
    [] pending.kind = "full_access_confirmation" -> {"enable_full_access", "deny"}
    [] pending.kind = "recovery_decision" -> {"retry", "abort"}

Respond(s, d) ==
  /\ Idle(s)
  /\ pending # NoQuestion /\ d \in Offered
  /\ \A r \in Slots : request[r].kind # "respond"
  /\ request' = [request EXCEPT ![s] =
                   Running("respond", "checked", selected[runtime], pending.id, d)]
  /\ UNCHANGED <<workspace, permission, pending, operation, recovery, orphaned, faults>>

Answering(s, kind) ==
  /\ At(s, {"respond"}, "checked")
  /\ pending.id = request[s].id /\ pending.kind = kind

RespondNotFound(s) ==
  /\ At(s, {"respond"}, "checked") /\ pending.id # request[s].id
  /\ Returns(s)
  /\ UNCHANGED <<workspace, permission, pending, operation, recovery, orphaned, faults>>
\* Faulty: the selected Thread is not rechecked.
ApprovalCurrent_AnyThread(s) ==
  /\ operation.question = pending.id
  /\ pending.thread = operation.thread
  /\ pending.turn = operation.turn

\* What resolve() of a tool approval rechecks
ApprovalCurrent(s) ==
  /\ operation.question = pending.id
  /\ pending.thread = selected[request[s].rt]
  /\ pending.thread = operation.thread
  /\ pending.turn = operation.turn

RespondToolApproval(s) ==
  /\ Answering(s, "tool_approval")
  /\ IF ~ApprovalCurrent(s)
     THEN pending' = NoQuestion /\ UNCHANGED operation
     ELSE IF pending.decision = "none"
     THEN /\ pending' = [pending EXCEPT !.decision = request[s].decision]
          /\ operation' = [operation EXCEPT !.heard = request[s].decision,
                                            !.seen = request[s].thread]
     ELSE UNCHANGED <<pending, operation>>
  /\ Returns(s)
  /\ UNCHANGED <<workspace, permission, recovery, orphaned, faults>>

\* The decision is taken and acknowledged to the client before it takes effect.
RespondFullAccess(s) ==
  /\ Answering(s, "full_access_confirmation")
  /\ LET current == pending.thread = selected[request[s].rt]
                      /\ permission.asked = pending.id
     IN CASE ~ForegroundFree -> UNCHANGED pending /\ Returns(s)
          [] ForegroundFree /\ current -> pending' = NoQuestion /\ Becomes(s, "acknowledged")
          [] OTHER -> pending' = NoQuestion /\ Returns(s)
  /\ permission' = [permission EXCEPT !.asked = IF pending' = NoQuestion THEN 0 ELSE @]
  /\ UNCHANGED <<workspace, operation, recovery, orphaned, faults>>

EnableFullAccess(s) ==
  /\ request[s].stage = "acknowledged"
  /\ \/ /\ request[s].decision = "enable_full_access"
        /\ SetMode("full_access", request[s].thread)
        /\ UNCHANGED faults
     \/ /\ request[s].decision = "deny"
        /\ UNCHANGED <<permission, faults>>
     \/ Fails /\ UNCHANGED permission
  /\ Returns(s)
  /\ UNCHANGED <<workspace, pending, operation, recovery, orphaned>>

(***************************************************************************)
(* Recovery decisions, under the bootstrap lock                            *)
(***************************************************************************)

RespondAbort(s) ==
  /\ Answering(s, "recovery_decision") /\ request[s].decision = "abort"
  /\ BootstrapFree
  /\ IF ForegroundFree /\ Bound(request[s].id) THEN Becomes(s, "aborting") ELSE Returns(s)
  /\ UNCHANGED <<workspace, permission, pending, operation, recovery, orphaned, faults>>

\* abort_recovery failed the Turn; the question and the queue forget it.
RecoveryAborted(s) ==
  /\ request[s].stage = "aborting"
  /\ \/ /\ status' = [status EXCEPT ![Head(queue)] = "settled"]
        /\ pending' = Discarded(request[s].id)
        /\ queue' = Tail(queue)
        /\ undelivered' = TRUE
        /\ Becomes(s, "aborted")
        /\ UNCHANGED faults
     \/ Fails /\ Returns(s) /\ UNCHANGED <<pending, queue, status, undelivered>>
  /\ UNCHANGED <<workspace, permission, operation, deferred, orphaned>>

RespondRetry(s) ==
  /\ Answering(s, "recovery_decision") /\ request[s].decision = "retry"
  /\ BootstrapFree
  /\ IF Bound(request[s].id) /\ ForegroundFree /\ Admitted(request[s].id)
     THEN /\ operation' = Reserved(pending.thread, request[s].rt, pending.turn)
          /\ Becomes(s, "resuming")
     ELSE UNCHANGED operation /\ Returns(s)
  /\ UNCHANGED <<workspace, permission, pending, recovery, orphaned, faults>>

\* The checkpoint was verified: claim() selects the Thread, answers the question
\* and takes the Turn off the queue; the Operation is being started.
ClaimRecovery(s) ==
  /\ request[s].stage = "resuming" /\ Bound(request[s].id)
  /\ selected' = [selected EXCEPT ![request[s].rt] = operation.thread]
  /\ OnThreadSelected(NoQuestion) /\ orphaned' = FALSE
  /\ queue' = Tail(queue)
  /\ operation' = [operation EXCEPT !.stage = "starting"]
  /\ Becomes(s, "starting_recovery")
  /\ UNCHANGED <<runtime, status, undelivered, deferred, faults>>

\* The checkpoint is missing or corrupt: the Turn fails and the next is asked.
RejectRecovery(s) ==
  /\ request[s].stage = "resuming" /\ faults > 0
  /\ faults' = faults - 1
  /\ status' = [status EXCEPT ![operation.turn] = "settled"]
  /\ operation' = NoOperation
  /\ queue' = Tail(queue)
  /\ PresentNext(Discarded(request[s].id), queue', undelivered)
  /\ Returns(s)
  /\ UNCHANGED <<workspace, permission, undelivered, orphaned>>

\* Any other failure before the claim leaves the question as it was.
ResumeFails(s) ==
  /\ Fails
  /\ request[s].stage = "resuming"
  /\ operation' = NoOperation
  /\ Returns(s)
  /\ UNCHANGED <<workspace, permission, pending, recovery, orphaned>>

\* The Operation started.  If it was cancelled meanwhile its work never runs, and
\* its Turn stays in progress.
RecoveryStarted(s) ==
  /\ request[s].stage = "starting_recovery"
  /\ operation' = IF operation.stage = "dying" THEN operation
                  ELSE [operation EXCEPT !.stage = "running"]
  /\ undelivered' = TRUE
  /\ Becomes(s, "resumed")
  /\ UNCHANGED <<workspace, permission, pending, queue, status, deferred, orphaned, faults>>

\* The start failed after the claim.  The foreground is free again before the
\* handler reads whether the Turn is still in progress.
RecoveryStartFails(s) ==
  /\ Fails
  /\ request[s].stage = "starting_recovery"
  /\ operation' = NoOperation
  /\ request' = [request EXCEPT ![s].stage = "requeueing", ![s].turn = operation.turn]
  /\ UNCHANGED <<workspace, permission, pending, recovery, orphaned>>
\* Faulty: the claimed Turn is not put back.
RecoveryRequeued_Dropped(s) ==
  /\ request[s].stage = "requeueing"
  /\ PresentNext(pending, queue, undelivered)
  /\ Returns(s)
  /\ UNCHANGED <<workspace, permission, operation, queue, status, undelivered, orphaned, faults>>

\* It is (nobody else may settle it), and goes back to the head of the queue; if
\* the read itself fails nobody is left to ask about it.
RecoveryRequeued(s) ==
  /\ request[s].stage = "requeueing"
  /\ \/ /\ queue' = <<request[s].turn>> \o queue
        /\ PresentNext(pending, queue', undelivered)
        /\ UNCHANGED <<status, faults>>
     \/ /\ Fails
        /\ status' = [status EXCEPT ![request[s].turn] = "stranded"]
        /\ UNCHANGED <<pending, queue, deferred>>
  /\ Returns(s)
  /\ UNCHANGED <<workspace, permission, operation, undelivered, orphaned>>

\* interaction.resolved reached the client, or every attempt failed; either way
\* the resumed Operation is told that the answer was published.
ResumePublished(s) ==
  /\ request[s].stage = "resumed"
  /\ \/ undelivered' = FALSE /\ UNCHANGED faults
     \/ Fails /\ UNCHANGED undelivered
  /\ operation' = [operation EXCEPT !.published = TRUE]
  /\ Returns(s)
  /\ UNCHANGED <<workspace, permission, pending, queue, status, deferred, orphaned>>

\* initialize on an activated workspace first delivers what is undelivered.
Initialize(s) ==
  /\ Idle(s) /\ BootstrapFree
  /\ IF undelivered
     THEN /\ request' = [request EXCEPT ![s] =
                           Running("initialize", "flushing", NoThread, 0, "none")]
          /\ UNCHANGED <<pending, deferred>>
     ELSE PresentNext(pending, queue, FALSE) /\ UNCHANGED request
  /\ UNCHANGED <<workspace, permission, operation, queue, status, undelivered, orphaned, faults>>

\* The resolution of an abort, or the one initialize found, is delivered; the
\* next question follows it, and never overtakes it.
Deliver(s) ==
  /\ request[s].stage \in {"aborted", "flushing"}
  /\ \/ undelivered' = FALSE /\ PresentNext(pending, queue, FALSE) /\ UNCHANGED faults
     \/ Fails /\ UNCHANGED <<pending, undelivered, deferred>>
  /\ Returns(s)
  /\ UNCHANGED <<workspace, permission, operation, queue, status, orphaned>>

(***************************************************************************)
(* The Operation.  The gateway of a retired runtime refuses its Turn, so   *)
(* it can only end.                                                        *)
(***************************************************************************)

\* The session keeps what the requests own.
OperationFrame == UNCHANGED <<workspace, queue, undelivered, orphaned>>

CallTool(c) ==
  /\ operation.stage = "running" /\ operation.rt = runtime
  /\ IF Standing(c, operation.thread)
     THEN /\ operation' = [operation EXCEPT !.stage = "tool", !.needs = c]
          /\ UNCHANGED pending
     ELSE /\ pending = NoQuestion
          /\ pending' = Question(FreshId, "tool_approval", operation.thread, operation.turn)
          /\ operation' = [operation EXCEPT !.stage = "asking", !.needs = c,
                                            !.question = FreshId]
  /\ UNCHANGED <<permission, request, status, deferred, faults>>
  /\ OperationFrame

Resumed == [operation EXCEPT !.stage = "running", !.needs = "none", !.question = 0,
                             !.heard = "none", !.seen = NoThread]

\* interaction.required could not be delivered: the call fails, not the Turn.
AskFails ==
  /\ Fails
  /\ operation.stage = "asking" /\ pending.id = operation.question
  /\ pending' = NoQuestion
  /\ operation' = Resumed
  /\ UNCHANGED <<permission, request, status, deferred>>
  /\ OperationFrame

\* wait() returns the decision and clears the question; grants outlive the call.
HearDecision ==
  /\ operation.stage = "asking" /\ pending.id = operation.question
  /\ pending.decision # "none"
  /\ pending' = NoQuestion
  /\ operation' = IF pending.decision = "deny" THEN Resumed
                  ELSE [Resumed EXCEPT !.stage = "tool", !.needs = operation.needs]
  /\ permission' =
       CASE pending.decision = "allow_thread_writes" ->
              [permission EXCEPT !.writes = TRUE, !.owner = operation.thread]
         [] pending.decision = "allow_thread_network" ->
              [permission EXCEPT !.network = @ \cup {operation.thread},
                                 !.owner = operation.thread]
         [] OTHER -> permission
  /\ UNCHANGED <<request, status, deferred, faults>>
  /\ OperationFrame

ToolEnds ==
  /\ operation.stage = "tool"
  /\ operation' = Resumed
  /\ UNCHANGED <<permission, pending, request, status, deferred, faults>>
  /\ OperationFrame

\* What the end of the work leaves: a resumed Turn still runs finished().
Ends ==
  /\ operation' = IF operation.turn = NoTurn THEN NoOperation
                  ELSE [Resumed EXCEPT !.stage = "finishing"]
  /\ status' = IF operation.turn = NoTurn THEN status
               ELSE [status EXCEPT ![operation.turn] = "settled"]

OperationFinishes ==
  /\ operation.stage = "running"
  /\ Ends
  /\ UNCHANGED <<permission, pending, request, deferred, faults>>
  /\ OperationFrame

\* operation.cancel, shutdown, or a question discarded under the waiting call:
\* wait() leaves no question of this Operation behind.
OperationCancelled ==
  /\ operation.stage \in {"running", "asking", "tool"}
  /\ Ends
  /\ pending' = Discarded(operation.question)
  /\ UNCHANGED <<permission, request, deferred, faults>>
  /\ OperationFrame

Dropped == operation.stage = "asking" /\ pending.id # operation.question

\* The retried Operation is cancelled while it waits for its Thread to be shown.
BarrierCancelled ==
  /\ operation.stage = "barrier"
  /\ operation' = NoOperation
  /\ request' = [s \in Slots |-> IF request[s].stage = "publishing"
                                 THEN [request[s] EXCEPT !.stage = "unowned"]
                                 ELSE request[s]]
  /\ UNCHANGED <<permission, pending, status, deferred, faults>>
  /\ OperationFrame

StartCancelled ==
  /\ operation.stage = "starting"
  /\ operation' = [operation EXCEPT !.stage = "dying"]
  /\ UNCHANGED <<permission, pending, request, status, deferred, faults>>
  /\ OperationFrame
\* Faulty: the end of a resumed Turn asks nothing.
RecoveryFinished_Silent ==
  /\ operation.stage = "finishing" /\ operation.published
  /\ operation' = NoOperation
  /\ UNCHANGED <<permission, pending, deferred, request, status, faults>>
  /\ OperationFrame

\* finished() of a resumed Turn, with the foreground still held: the next
\* question is asked once the answer to this one was published.
RecoveryFinished ==
  /\ operation.stage = "finishing" /\ operation.published
  /\ PresentNext(pending, queue, undelivered)
  /\ operation' = NoOperation
  /\ UNCHANGED <<permission, request, status, faults>>
  /\ OperationFrame

Drained == operation = NoOperation /\ \A s \in Slots : request[s] = NoRequest

(***************************************************************************)
(* The specification                                                       *)
(***************************************************************************)

Modes == {"request_approval", "accept_edits"}
Decisions == {"allow_once", "allow_thread_writes", "allow_thread_network", "deny",
              "enable_full_access", "retry", "abort"}

UserAsks(s) ==
  \/ SubmitRequest(s)
  \/ \E t \in Threads, kind \in {"select", "retry"} : Command(s, kind, t, "none")
  \/ \E mode \in Modes : Command(s, "mode", NoThread, mode)
  \/ \E kind \in {"full", "publish", "revoke"} : Command(s, kind, NoThread, "none")
  \/ Initialize(s)

UserAnswers == \E s \in Slots, d \in Decisions : Respond(s, d)

RequestStep(s) ==
  \/ Reserve(s) \/ StartReserved(s) \/ Started(s) \/ PublishRetry(s)
  \/ SelectThread(s) \/ ChangeMode(s) \/ AskFullAccess(s) \/ FullAccessAsked(s)
  \/ RevokeNetwork(s) \/ BuildRuntime(s) \/ PublishRuntime(s)
  \/ RespondNotFound(s) \/ RespondToolApproval(s) \/ RespondFullAccess(s)
  \/ EnableFullAccess(s) \/ RespondAbort(s) \/ RecoveryAborted(s) \/ RespondRetry(s)
  \/ ClaimRecovery(s) \/ RecoveryStarted(s) \/ RecoveryRequeued(s) \/ ResumePublished(s)
  \/ Deliver(s)

RequestFails(s) ==
  \/ StartFails(s) \/ PublishRetryFails(s) \/ CommandFails(s)
  \/ RejectRecovery(s) \/ ResumeFails(s) \/ RecoveryStartFails(s)

OperationStep == HearDecision \/ ToolEnds \/ RecoveryFinished \/ (Dropped /\ OperationCancelled)

UserCancels == OperationCancelled \/ BarrierCancelled \/ StartCancelled

Step ==
  \/ \E s \in Slots : RequestStep(s) \/ RequestFails(s)
  \/ UserAnswers
  \/ \E c \in Capabilities : CallTool(c)
  \/ OperationStep \/ OperationFinishes \/ AskFails
  \/ UserCancels

Next ==
  \/ \E s \in Slots : UserAsks(s) /\ asks > 0 /\ asks' = asks - 1
  \/ Step /\ UNCHANGED asks

Spec == Init /\ [][Next]_vars

\* A request and a tool call end on their own; a Turn's budgets end its loop of
\* calls; and the user answers in the end.
FairSpec ==
  /\ Spec
  /\ \A s \in Slots : WF_vars(RequestStep(s) /\ UNCHANGED asks)
  /\ WF_vars(OperationStep /\ UNCHANGED asks)
  /\ SF_vars(OperationFinishes /\ UNCHANGED asks)
  /\ SF_vars(UserAnswers /\ UNCHANGED asks)

(***************************************************************************)
(* Properties                                                              *)
(***************************************************************************)

\* A tool starts only on the user's authority: the user allowed this very call,
\* with its Thread selected, or a mode or grant given for that Thread covers it;
\* a call of unknown capability is allowed one at a time.  An Operation in a
\* Thread that is not selected (a request that straddled a change) can only use
\* what the selected Thread was given.
ToolStarts == operation.stage # "tool" /\ operation'.stage = "tool"
ConsentGiven ==
  [][ToolStarts =>
       \/ /\ operation.stage = "asking"
          /\ operation.heard \notin {"none", "deny"}
          /\ ~orphaned => operation.seen = operation.thread
       \/ /\ operation'.needs # "mcp"
          /\ permission.owner # NoThread
          /\ ~orphaned => permission.owner \in {operation.thread, selected[runtime]}]_vars

\* A raised mode or a grant belongs to the selected Thread, whatever selected
\* it; the exception is the Thread that /retry selects after its Operation ended.
AuthorityFollowsThread ==
  ~orphaned =>
    /\ (permission.mode # "request_approval" \/ permission.writes) =>
         permission.owner = selected[runtime]
    /\ permission.network \subseteq {selected[runtime]}

\* What stops the series of recovery questions until the next initialize: a
\* resolution that could not be delivered, or another question that was open when
\* the next one was to be asked; and until the next process: a Turn that could
\* not be put back, a foreground that is never given up.
Interrupted ==
  \/ undelivered \/ deferred
  \/ \E u \in Unfinished : status[u] = "stranded"
  \/ operation.stage = "dying"

\* No unfinished Turn is forgotten: it is queued, being resumed or on its way back
\* to the queue until it is settled (or cannot be put back); and when nothing
\* runs, the head of the queue is being asked, unless the series was interrupted.
NoRecoveryForgotten ==
  /\ \A u \in Unfinished :
       status[u] = "in_progress" =>
         \/ u \in ToSet(queue)
         \/ operation.turn = u
         \/ \E s \in Slots : request[s].stage = "requeueing" /\ request[s].turn = u
  /\ Drained /\ queue # <<>> /\ ~Interrupted =>
       AsksHead(pending, queue)

\* With a user who answers, from any moment on every unfinished Turn is settled in
\* the end or the series of questions is interrupted.
RecoveriesSettle ==
  []<>(Interrupted \/ \A u \in Unfinished : status[u] = "settled")

=============================================================================
