# Awesome Agent: TLA+ specifications

TLA+ models of Awesome Agent, a local coding agent: a Python application
(`src/src/awesome_agent`) that owns conversations, files, models and tools, and a
terminal client (`src/tui/src`) that talks to it over JSON-RPC on standard input
and output. Paths below are relative to `src/src/awesome_agent` unless they start
with `src/`.

The models are about what the code does when things overlap or break: cancellations
that race a commit, a process that dies between two durable writes, writes that
raise after they took effect, a user who edits the same files, several processes
on one home directory, a thread and an event loop closing at the same time.

Contents: [inventory](#1-inventory), [plan](#2-plan), [the modules](#3-the-modules),
[runs and bounds](#4-runs-and-bounds), [fairness](#5-fairness), [proofs](#6-proofs),
[disagreements between code and documents](#7-disagreements), [what is not
modelled](#8-what-is-not-modelled), [running it](#9-running-it).

## 1. Inventory

### 1.1 Components, their state and their operations

| Component | State it keeps | Operations that change it | Hard behaviour | Module |
|---|---|---|---|---|
| Foreground arbiter (`application/foreground.py`) and operation controller (`application/operations.py`) | the one lease, the closing flag; active id, phase, committed terminal, starter task | reserve, abort, start_reserved, the Operation task, commit_completed, cancel, shutdown; acquire_exclusive, release | two tasks per Operation, cancellation at every `await`, a commit point, shutdown | `OperationController` |
| Turn service (`application/turns.py`) and startup recovery (`composition.py`) | Turn rows, checkpoints, ChangeSet lifecycle, recovery queue | submit, retry, resume, decide recovery, execute, terminal writes, clean-up, reconcile_startup | three stores and no common transaction; crashes; compensation outside the lease | `TurnLifecycle` |
| Application composition (`composition.py`, `conversation_commands.py`, `web_commands.py`), interactions (`interactions.py`), permission session (`core/tools/permissions.py`) | selected Thread, published runtime, the one pending question, mode and grants, recovery queue | start, /new, /resume, /retry, /permissions, publication, resolve, initialize | requests that straddle a selection; answers chosen against one state and applied to another | `WorkspaceSession` |
| Agent loop (`agent/`), context (`application/context.py`, `context/`), gateway (`modeling/`) | messages, budgets, checkpoint, Thread summary, one streamed attempt | prepare, call, run a tool, compress, finalize, recover | budgets under retries, replay from a checkpoint that lags, a summary another process overtakes | `AgentLoop`, `ContextAssembly`, `ModelGateway` |
| Tool executor (`core/tools/executor.py`), processes (`process.py`, `_process_supervisor.py`), MCP manager (`extensions/mcp/`) | one activity per call, its deadline; a process group; sessions and tool generations | execute, approve, run, time out, audit; spawn, supervise, kill; connect, call, restart, enable, close | a handler that finishes in its grace, cancellation between audit writes, a server that never answers, Core dying | `ToolExecution`, `CommandProcess`, `McpManager` |
| Protocol server (`protocol/`, `core/events.py`, `application/events.py`, `facade.py`) | requests in flight, frames waiting for the writer, the sequence number | read, dispatch, answer, emit, cancel, leave | a number is taken before the sink is awaited; a full pipe; end of input with work running | `ProtocolServer` |
| Terminal client (`src/tui/src`) | the view, the delta batch, the retry gate, the input queue, cancellation, approval and exit controllers | receive, reduce, queue, promote, recall, cancel, answer, exit | events before the answer that explains them, a queue that drains into a busy Core, exit under load | `TerminalSurface`, `ClientSession` |
| Change journal (`core/changes/`, `application/change_scope.py`, `storage/changes.py`) | files, records, pending mutations, lifecycle | edit, execute observation, undo, redo, rollback, seal, discard, startup reconciliation | write-ahead evidence, partial undo, user edits, startup dying | `ChangeJournal` |
| Conversations (`conversation/`, `storage/conversations.py`) | Threads, Entries, Turns, activities, summaries | create, fork, retry, begin, complete, fail, cancel, append, compact, page | a view read in one transaction and committed in another, by two processes | `Conversations` |
| Model transaction (`application/provider_configuration.py`, `config/model_transaction.py`) | `config.yaml` default, the Thread's model, a one-record journal, the recovery fence | persist_model, finalize_model, compensate, resolve, reconcile_startup | two stores, several processes, lock released before commit | `ModelTransaction` |
| Credential transaction (`config/credential_transaction.py`, `application/provider_configuration.py`) | `.env`, its backup, the credential source, a journal, the runtime's keys | save, delete, select, undo, reconcile, publish | two files and a backup, a worker that outlives its cancelled caller, hand edits | `CredentialTransaction` |
| Skill packages (`extensions/skills/package_manager.py`) | package directory, stages, quarantines, a marker | install, replace, remove, list, recover | renames and a crash or error between them; the user in the same directory | `SkillPackages` |
| Application database worker (`storage/application_sqlite.py`) | state, permits, bounded queue, futures, the connection, the close future | submit, run, aclose, the worker loop, failure and drain | event loop and thread, cancellation of durable calls, failure while closing | `ApplicationSQLite` |
| External memory (`memory/`) | best-effort calls around a Turn | prefetch, distil | bounded, after the answer | the memory sources in `ContextAssembly`, the distillation in `AgentLoop` |
| State lease, migration, reset (`storage/state_lease.py`, `migrations.py`, `state_recovery.py`) | shared and exclusive leases, schema version, backups | acquire, downgrade, migrate, reset | two processes starting together, a crash inside a rename | not modelled |
| Built-in tools, safe file access, Skills discovery, configuration merge, diagnostics, export, redaction, rendering, installers | none of their own | pure functions and reads | - | not modelled |

### 1.2 How they interact

* The terminal writes requests to the Core's standard input and reads answers and
  events, in one order, from its standard output. **Messages over two bounded pipes.**
* A JSON-RPC request becomes an asyncio task. A submitting request calls
  `reserve()`, writes the Turn, and calls `start_reserved()`; that creates the
  Operation task, which runs the Turn's factory. **Calls and shared fields.**
* The Turn's factory writes Conversations, checkpoints and ChangeSets one after
  the other. Each conversation write is one item of the database worker's queue.
  **Messages through a bounded queue to a thread.**
* The factory runs the Agent graph; a node awaits the provider, a tool call or the
  Conversation; a tool call may await the user through the one pending question.
* Tools change files through the change journal, under the workspace lock, while
  their Operation holds the foreground. Undo and redo are Operations too.
* Commands that change configuration take the foreground exclusively, then run
  the model (or credential) transaction: database transaction outside, lock of
  `config.yaml` inside. **Locks between processes.**
* At startup the composition reconciles, in order, the configuration journal,
  the change journal and the Turns; only then is the workspace activated.
* At shutdown the server cancels its background requests, the composition shuts
  the operation controller down, waits for the arbiter to be idle, and closes the
  database. **Callbacks and joins, in an order that could deadlock.**

### 1.3 What makes each component correct

* Foreground: one owner; a true acknowledgement of a cancellation is final; a
  terminal event before the lease is given up; no lease without somebody to give it up (one
  path breaks this, section 7); shutdown then ends and leaves nothing running.
* Turns: finished exactly once, by their owner; one unfinished Turn per Thread;
  a checkpoint outlives its Turn's unfinished status; no Turn nobody owns.
* Change journal: evidence before every effect; files and records agree between
  operations, after any crash; startup settles everything the program did.
* Model transaction: both values change or neither; the record on disk always
  explains the stores; startup converges; a healthy process is never fenced.
* Database worker: nothing admitted is lost; answers tell the truth about the
  commit; service in order; every call and close returns.
* Workspace session: authority the user gave in one Thread is not used in another;
  an answer resolves what it was shown for; no unfinished Turn is forgotten.
* Agent: requests the provider accepts, inside the Turn's budget; no history lost to
  a summary; what cannot be repeated is not repeated unasked; the loop ends.
* Tools: result, activity and event tell one story; a call reaches only the session
  its tool came from; nothing of a command survives its call; locks are freed.
* Protocol and terminal: what is shown is what happened; typed input is kept, once
  and in order; the screen turns fatal only with a cause; what is awaited ends.
* Conversations: gapless transcripts, one unfinished Turn, decisions that stay,
  forks equal to their source when they commit, pages without holes.
* Credentials: key and source change together; callers are told the truth; recovery
  refuses only what somebody else changed; what was committed is served.
* Skill packages: no package anybody relies on is destroyed before its successor
  is durable; recovery refuses nothing the program left but more packages than it counts to.

The file `PROJECT.json` lists the forty hazards the properties are for, each with its
line. Those the code is exposed to and no property can cover are in sections 7 and 8.

## 2. Plan

The components whose mistakes lose a user's work or block the application came first,
then those other components rely on, then the layers above them and the client.

| # | Modules | Built from | Abstract specification | Checked by | Proved |
|---|---|---|---|---|---|
| 1 | `OperationController` | - | `ForegroundOwner` | `operation` | 11 theorems |
| 2 | `TurnLifecycle` | - | - | `turn` | 9 theorems |
| 3 | `ChangeJournal` | - | - | `journal` | 6 theorems |
| 4 | `ApplicationSQLite` | - | `SerialStore` | `sqlite` | 9 theorems |
| 5 | `ModelTransaction` | - | `ModelRegister` | `model_change` | 5 theorems |
| 6 | `WorkspaceSession` | - | - | `workspace` | 3 theorems |
| 7 | `AgentLoop` | EXTENDS `ModelGateway`, `ContextAssembly` | - | `agent` | 4 theorems |
| 8 | `ToolExecution` | EXTENDS `McpManager`, `CommandProcess` | - | `tools` | 3 theorems |
| 9 | `ClientSession` | EXTENDS `TerminalSurface`, which EXTENDS `ProtocolServer` | - | `session` | - |
| 10 | `CredentialTransaction` | - | the mapped value of its `AtomicChange` | `credentials` | 5 theorems |
| 11 | `SkillPackages` | - | - | `skills` | 4 theorems |
| 12 | `Conversations` | - | - | `conversations` | 6 theorems |

What is left of the plan is proof: the safety properties of `ClientSession`, and of
`AgentLoop` those that are about the contents of a context. No module declares a
`RECURSIVE` operator.

## 3. The modules

Every module has the same shape: constants with a named `ASSUME`; variables with
the program's own names; `Init`; one action per operation or step between two
`await`s; `Next`; properties. Most modules proved about have a `TypeOK`; what plays its part for
`WorkspaceSession`, `ToolExecution` and `AgentLoop` is in their modules of proofs. Components that
are proved about in one module share its name space: there `Init`, `Next`, `Spec` and `vars`
carry a prefix (`ModelInit`, `PackageInit`, `TranscriptInit`), and a few definitions a longer name
(`PublishModel`, `FinalizeModel`, `StartRequest`, `ProcessDies`, `OpenTurn`, `TerminalTurns`). A definition whose name ends in `_Something` and is introduced by
"Faulty:" is a deliberately wrong variant of the definition after it; it is used only to show that a property can fail, and is not
part of any specification.

### 3.1 OperationController

Models `ForegroundArbiter`, `OperationController` and the slices of the server and
the composition that close them. Asyncio runs one task at a time, so an action is
what one task does between two suspension points.

* `lease`, `closing` are the arbiter; `activeId`, `phase`, `committed` and
  `starterTask` are the controller's fields; `request`, `task` and `exclusive` say
  where the request task, the Operation task and an exclusive handler are;
  `reqCancel`, `taskCancel`, `exclCancel` are the cancellations requested of them.
  `ackedIn`, `outcome` and `published` record what clients were told.
* `Reserve .. RequestCleanup` are the code of a request (`reserve`, `abort`,
  `start_reserved`), `InvokeStarts .. Finalize` that of `invoke()` with
  `commit_completed` and the publication of the terminal event, `Cancel` the client's
  cancel, `DrainRequests .. IdleReached` the shutdown in its order. `InvokeDies` is
  asyncio's rule that a task cancelled before its first step never enters its body.
* A cancellation accepted while starting is announced by a branch of `invoke()` that lies
  before its `try` (`AnnounceCancelled`): the task has then `left`, its `finally` never
  entered. Unless its request was cancelled too, and cleans up in its place, telling the
  cancellation again, nobody ever gives up the lease (`Stranded`, section 7): every later
  `Reserve` is a `Reject`, and a shutdown waits in `idle` until it is killed (`Ended`).

`ForegroundOwner` is the promise to clients: take, begin, decide, tell, leave. It lets a
cancellation be told a second time by whoever leaves in the owner's place (`repeated`), and does
not promise that an owner leaves. `KeepsPromise` maps the phase, the committed terminal and the
publications to it.

### 3.2 TurnLifecycle

Models `application/turns.py` with the stores it writes and the startup recovery.
`status`, `checkpoint` and `changes` are durable; everything else dies in `Crash`.
A checkpoint is reduced to what recovery reads of it: resumable, uncertain (an
unreplayable tool may have run), answered, or stopped.

* A durable write may fail, or take effect and raise: both spend one of `faults`.
* `owner`, `stage`, `phase` follow the one Turn in the foreground through
  `BeginTurn`, `StartReserved`, `InvokeStarts`, the memory barrier, the preparation,
  the graph, `CommitBegins`, `Persist`, `SealChanges`, `DeleteCheckpoint`, `Release`.
* `told` is what clients were told of a Turn; `"refused"` is a Turn whose Operation was
  cancelled while starting: its factory never runs, and after the announcement its
  stage stays `left`, with the foreground, until the process dies (section 7).
* `Compensate` is the task that finishes a Turn whose start failed, after the
  lease was given up; `Requeue` is what takes its place for a resumed Turn: it goes back to
  the recovery queue if a read still finds it unfinished, and the read may raise.
* `ClaimRecovery`, `FailRecovery` and `RecoveryCleaned` are the decisions on a recoverable
  Turn; `ReconcileTerminal`, `ReconcileInProgress`, `CleanSettled` and `Activate` are startup.
  `settled` are the Turns it has made terminal itself: their clean-up may fail and is
  swallowed, so startup goes on.

The Agent graph is a call that checkpoints, answers, raises or is cancelled; 3.7 is
its inside.

### 3.3 ChangeJournal

Models an edit (intent, effect, record, clear), undo and redo over several paths
with one lifecycle commit, the rollback of a half-done one, sealing and
discarding, and the reconciliation at startup. A path's content stands for node
type, bytes and mode, `Absent` included; `before`, `after` and `recorded` are the
merged record of a ChangeSet; `pending` are the mutation rows. The user replaces
files at any time (`edits`). Every durable write can raise before or after it took
effect; startup itself can crash or fail.

Abstractions to know of. A file is identified by its content, so a user who
restores exactly what the program wrote cannot be told from the program. A user's
write into the same inode between the snapshot and the atomic replacement of a
restore is not modelled (the journal does not detect it). Blob files are correct
once written. Limits (1,000 records, 50 MiB) appear as the conflict they raise.

### 3.4 ApplicationSQLite

The event loop's actions (`Admit`, `Refuse`, `Cancel`, `Answer`, `BeginClose`,
`CloseReturns`) interleave with the worker thread's (`Take` .. `Drain`). A critical
section under the state lock is one action. A transaction ends in a result, in an
error after a proven rollback, or unproven, which is fatal to the worker. `SerialStore`
is the promise: requests settle one at a time, in the order of their admission.

### 3.5 ModelTransaction

Every writing step runs in a database write transaction and, inside it, under the
lock of `config.yaml`; the lock is released before the commit. `step[p]` is where
process `p` is, `mine[p]` the record it works on, `fenced[p]` its
`_recovery_required`. A running process may crash anywhere; a restart goes through
`check`, `reconcile`, `store`, `clear`. `ModelRegister` is the promise: default and
Thread model change together. The value `None` of a default or a Thread's model is
one of `Models`; nothing the transaction does depends on it.

### 3.6 WorkspaceSession

The application layer between the server and the Operations. `request[s]` is what a
concurrent request is doing; a handler is one action per stretch between two awaits, so
that what it read can be stale when its next action runs. `selected` is per runtime,
because the conversation commands belong to a runtime and a publication makes new
ones. `pending` is the coordinator's one question with the decision it holds;
`operation` the Operation in the foreground, which may call tools that ask.

* Starts (`UserAsks` .. `StartReserved`), selection (`/new`, `/resume`, `/retry`), the mode
  and its confirmation, revocation, publication by `/web`, the answers, the recovery
  queue with its claim, its failure and its delivery, and `initialize` are all there.
* A claimed recovery that does not start gives up its lease, and only then reads the Turn to put
  it back (`RecoveryRequeued`): other requests step in between, and when the read raises the
  Turn is `stranded`. An Operation cancelled while starting stays `dying`, with the foreground.
* `seen` and `heard` record for which Thread a question was answered and how;
  `permission.owner` and `.asked` whose authority the mode and its question are; `deferred`,
  `orphaned` and the status `stranded` mark the exceptions section 7 describes. None guides the program.
* A direct command is a start whose Operation calls no tool. One answer is in flight
  at a time, requests take the lowest free slot, and emitting a recovery question is
  part of creating it. Closing is `OperationController`'s.

### 3.7 AgentLoop, ContextAssembly, ModelGateway

`ModelGateway` folds the chunks of one streamed response into a completed turn or a
failure, and says when an attempt may be repeated. `ContextAssembly` is the pure part of a
request: what compression may summarise, the order of sources, duplicates, the share of
memory, what is mandatory, what is cut, and the frozen manifest with its validation. It
counts sizes and names contents by what they stand for; a summary is the set of
Entries it tells of. `AgentLoop` runs the nodes of the graph over both.

* `state` is what the running node works on, `latest` the last checkpoint the graph made,
  `saved` the one the database holds: checkpoints are written beside the next node,
  so a crash goes back to one or the other.
* After a crash `Verdict(saved)` is what recovery makes of the checkpoint; a resumption
  needs the user's consent, and with it that of repeating an uncertain call.
* `acted`, `repeated`, `consented` and `sent` are ghosts for the properties.

### 3.8 ToolExecution, McpManager, CommandProcess

`CommandProcess` is the POSIX runner: Core's coroutine, the supervisor, the command and
its descendants, the lease pipe between them, and their signals. `McpManager` is one MCP
server: its sessions, the generation its tools are registered under, the one lock, and
the administration that restarts or closes it while calls wait. `ToolExecution` is the
executor around either: it announces, asks the policy, runs the handler in a task under
a deadline, grants a grace, records and announces. An operation may be cancelled at any
await; a handler that does not stop is left behind and may end later.

### 3.9 ProtocolServer, TerminalSurface, ClientSession

The Core's reader, request tasks, writer and event numbering, and the terminal's guard,
batcher, reducer, retry gate, reconciliation, input queue and controllers, joined by two
pipes. `surface` is the connected surface: its synchronous callbacks are functions from
surface to surface, because JavaScript runs them without interruption. `held` are frames
that ask for the writer; its head will be written whatever happens to its sender.

* An input is named by its place in the script, and so is the Operation it starts.
  Request ids are the smallest number not in use; the code counts upwards, which nothing
  tells apart.
* An Operation cancelled while starting tells its cancellation and keeps the foreground
  (`left`): every later submission is answered busy.
* Delivery in each pipe is first in, first out; the Core may die with frames in both.
* `turn.started` is `TurnBegun`; the projector's other events are `Bodies`.

### 3.10 Conversations

Two processes share the database. A service call reads a Thread (`call[c]` keeps the
view), decides, and commits in one transaction that looks again; anything may be
committed in between. A Turn is named by its user Entry. `reader` is a client that pages
backwards. An activity of a tool call is a row with its own sequence.

### 3.11 CredentialTransaction

One change runs on a worker thread under two file locks taken in one order, so one lock
stands for both. `disk` has `.env`, its backup, the journal and the source of each
service; `call` is the coroutine that awaits the worker and may be cancelled while the
worker, which cannot be, goes on; `runtime` and `snap` are the keys the process runs
with and those its last committed change loaded. The user may edit `.env` at any time.

### 3.12 SkillPackages

One package name, with the stage and the quarantine each operation may leave. Renames are
atomic; writing a stage and removing a directory are not (`whole`). Every step may raise
before or after its effect, the process may die between any two, and the user may change
the package directory itself. Of the other packages in the directory only their number
matters (`others`, which any install or removal of one changes): recovery refuses more
than `MaxEntries` of them (512 in the code), an install does not look at that bound.

### 3.13 How the modules fit together

`TurnLifecycle` assumes of the foreground exactly what `ForegroundOwner` says (one
owner, one decided fate, told before release), and of each conversation write what
`SerialStore` says (a transaction that is applied whole, or not, and answered, or
lost with the process). `ChangeJournal` assumes that one journal operation runs at a
time, which the foreground lease and the workspace lock give. `ModelTransaction` and
`Conversations` assume the database's write transaction excludes other processes.
`WorkspaceSession` derives the lease from its holders and leaves the inside of a tool call
to `ToolExecution`. `AgentLoop` sees a tool call as an observation that comes, once, or is lost
with the process; `ToolExecution` shows that it comes. `ProtocolServer` keeps of the foreground
what a client can see, in the order `OperationController` establishes.

## 4. Runs and bounds

One run per component. A property that is a conjunction of named parts says so in its
comment; each part is a definition of its own and can be checked alone.

| Run | Bounds | Shows |
|---|---|---|
| `operation` | 3 requests, 1 exclusive handler | `ForegroundSound`: one owner, the lease and the active Operation agree, the lease is in use unless its Operation was cancelled while starting, an acknowledged cancellation is final, one terminal that tells the outcome before release. `KeepsPromise`: the controller implements `ForegroundOwner`. `EndsQuietly`: shutdown ends, unless an Operation is stranded, and leaves nothing; a cancellation releases the lease, or the task died before its body, or is stranded |
| `turn` | 3 Turns in 2 Threads, 1 crash, 1 fault | `TurnsInOneHand`: finished once, by the owner, one unfinished per Thread. `NothingLeftBehind`: clean at release, no Turn in nobody's hands, what is told is stored. `CrashesSettle`: checkpoints outlive unfinished Turns; startup settles what it finds, but for a Turn it ended itself and could not clean up |
| `journal` | 2 ChangeSets, 2 paths, 3 operations, 2 crashes, 1 fault, 1 user edit | `WriteAhead`: evidence before every effect. `JournalSound`: files and records agree; a discarded ChangeSet had no effect. `WorkSettles`: startup recovers what only the program did, and no operation is ever stuck |
| `sqlite` | 2 writes, a read and a reset, queue of 2, 2 closers: a failing worker may find the queue full | `RequestsServed`: nothing admitted is lost, a verdict tells the commit, a durable outcome is known, a closed worker is drained (`RequestsAccounted`), and the worker implements `SerialStore` (`ServesInOrder`). `CallsReturn`: every call and every close returns |
| `model_change` | 2 processes, 2 Threads, 2 models, 2 changes, 2 crashes, 2 faults | `ChangeIsWhole`: the two values change together (`ModelRegister`), the record explains the stores, a startup converges |
| `credentials` | 2 processes, 2 services, 2 keys, 2 requests, 2 mishaps | `AtomicChange`, `ToldTruth`, `RefusalHasReason`, `AppliedOrFenced` |
| `workspace` | 2 Threads, 2 unfinished Turns, 2 slots, 2 requests, 1 publication, 2 faults | `ConsentGiven`, `AuthorityFollowsThread`. `NoRecoveryForgotten`: a Turn is queued, resumed, or on its way back. `RecoveriesSettle`: it is settled in the end, unless the series is interrupted |
| `agent` | 4 model calls, 2 tool calls, 1 retry, 1 compression; 7 responses; 3 Threads, 3 captures; 1 mishap | `RequestsWellFormed`: the provider's rules about calls and observations. `BudgetsKept`: what is sent was charged. `HistoryWhole`: every Entry that is due is in the context once, verbatim or through the summary, unless there is no room for it, also when another process compacts meanwhile. `SafeToResume`: no unrepeatable call again without consent, and what was going on is not given up. `TurnSettles` |
| `tools` | 2 calls: one command, or two MCP calls; 2 sessions, 2 administrations, 1 cut | `OneTruth`, `ToolsFollowSession`, `GroupEndsWithCall`, `ToolsEnd` |
| `session` | 5 scripts of up to 4 inputs, pipes of 2 frames, queue of 2 | `ToldTruth`, `InputsKept`, `FatalHasCause`, `SessionSettles` |
| `conversations` | 2 processes, 2 Threads, 4 Entries, 6 calls, pages of 2 | `TranscriptWellFormed`, `DecisionsKept`, `MaterializedIsPrefix`, `PagesComplete` |
| `skills` | 3 operations, 1 user edit, 2 crashes, 2 faults, room for 1 other package | `NothingLost`, `ToldTruth`, `RecoveryConverges` |

Why these bounds are enough to be interesting:

* Three requests: one cleans up while a second holds the lease and a third reserves.
* Three Turns: one compensated beside one executed on the same Thread, and one elsewhere.
* Two paths are the least that make an undo half done; three operations are an edit, its
  undo and its redo; two ChangeSets make one path the subject of both.
* Two crashes let a startup die and start again. One fault that may fall on any write,
  before or after its effect, meets every compensation once; two where a compensation
  may fail in turn.
* Three database requests exceed the queue; two closers race.
* Two unfinished Turns: the second must still be asked about after the first. Two slots
  are the least in which one request straddles another; two faults let a recovery fail to start
  and to be put back.
* A budget of four calls leaves one for a summary, one for its retry and one in reserve.
  The input limit is small enough for a long Thread and a captured file to need compression
  or a cut; `Captures` has a file that fits some requests and one that fits none.
* A queue of two is full while its head is promoted (`MAX_PENDING_INPUTS` is three); a pipe of two frames
  fills while a Turn emits. The Core dies in one script only (`Frail`): the others are
  about order, that one about loss.
* Two processes: each property of `Conversations` and the two transactions needs one
  reader and one writer in between. Six calls make and finish a Turn and fork from it.
* Three package operations are an install, its replacement and its removal. Room for one other
  package has a directory below, at and above the bound of recovery.

Left out of `session`, since no property tells them apart or another bound subsumes them:
busy limits, duplicate ids, malformed frames, the writer's five-second stall, overflow of the
retry gate's buffer, startup and handshake, headless mode and `refreshApplication`.

Deadlock is checked in `operation` and `agent`, whose end states stutter explicitly,
and in `skills`, where the other packages always may change. In the
others the system may stop: its bounds are spent, its process stays down, or its worker
has closed.

Symmetry: the Turns of one Thread, paths and ChangeSets, processes, Threads, models, keys
and callers are interchangeable (`turn`, `journal`, `model_change`, `credentials`,
`conversations`). None of these runs has a liveness property: what stands under their
`PROPERTIES` are action properties, safety refinements and invariants under a box.

## 5. Fairness

* `OperationController`: a ready asyncio task is run, so a request and an
  Operation task proceed once nothing holds them, and a *cancelled* handler ends.
  A factory nobody cancelled may run for ever; nothing forces it. Publication is
  bounded by a timeout in the code (`_publish_bounded`), so it is a step that happens.
* `ApplicationSQLite`: the thread runs and SQLite returns (its busy timeout is five
  seconds); the event loop delivers futures that are set. No caller is assumed to
  submit or to close.
* `AgentLoop`: a node that runs goes on (a provider call has a deadline, a tool call ends
  by `ToolsEnd`), a restarted process recovers, and the user answers its question.
* `ToolExecution`: tasks that are ready run, deadlines pass, a killed process dies.
  Nothing is assumed of the handler's work, of the server or of the user.
* `ProtocolServer` and `TerminalSurface`: request tasks, the Operation's own steps, the writing
  thread, the client's machine and its exit timer proceed. The user owes nothing.
* `WorkspaceSession`: a request and a tool call end; a Turn's budgets end its loop of
  calls (strong fairness of `OperationFinishes`, which `TurnSettles` justifies); the user answers
  in the end (strong, because a question may be withdrawn and asked anew).
* `SkillPackages`: the worker thread runs on, and every start of the program recovers.
  Nothing is assumed of the other packages: the user need not make room.
* `ChangeJournal`, `TurnLifecycle`, `ModelTransaction`, `CredentialTransaction` and
  `Conversations` state no fairness: what must not remain undone is stated as `ENABLED`, as an
  action property, or about the states startup ends in.

## 6. Proofs

All proofs are checked by TLAPS for every value of the constants satisfying the
modules' `ASSUME`s: any number of Turns, paths, processes, requests, any capacity.

| Module | Theorems | Argument |
|---|---|---|
| `Foreground_proofs`, operations | `TypeCorrect`, `Soundness`, `Exclusion`, `LeaseAgrees`, `LeaseUsed`, `CancelWins`, `StartCancelHolds`, `TerminalsTell`, `ToldBeforeRelease`, `ClosedQuiet`, `Implements` | `IInv` = types, `Ownership`, `Coupling`, `PhaseInv`, `AckInv`, `PublishedInv`; `Closing` beside it |
| `Foreground_proofs`, /model | `ModelTypeCorrect`, `ModelWhole`, `EvidenceKept`, `StartupConverges`, `ModelAtomic` | `ModelInv` = types, `Custody`, `Progress`, `Fresh`, `EvidenceExplains`, `RestartConverges` |
| `Turns_proofs`, lifecycle | `TypeCorrect`, `InOneHand`, `OwnedOpen`, `OneUnfinished`, `AckHolds`, `CheckpointsKept`, `NothingLeft`, `StartupsSettle`, `CrashesAreSettled` | `IInv` = types, `Custody`, `OwnedTurnIsOpen`, `Decided`, `OneTurnPerThread`, `AckKept`; `LInv` = `IInv`, `Untouched`, `Written`, `Settling`, `Asked` and what `NothingLeftBehind` says |
| `Turns_proofs`, transcripts | `ConversationInvariant`, `TranscriptTypes`, `Transcripts`, `Pages`, `Decisions`, `Copied` | `ConversationInv` = every row is `Sound` (types, `Gapless`, `Owning`, `Owned`, `Sequential`, `Tallied`, `Named`, `Short`), `Reading` of each call, `Paged`; every step `Grows` the rows |
| `ChangeJournal_proofs` | `TypeCorrect`, `EvidenceFirst`, `SoundAlways`, `RecordIsTrue`, `AlwaysRecoverable`, `StartupSucceeds` | `IInv` = types, `Evidence`, `StillBound`; `Sound` = `IInv`, `Numbered`, `Shaped`, `Meant`, `Single`, `Wrote`, `Replaced`, `Finished`, `Founded`, `Told`, `Owned`; `Recoverable` beside it |
| `ApplicationSQLite_proofs` | `TypeCorrect`, `Accounted`, `QueueBounded`, `AdmittedKept`, `VerdictsHold`, `OutcomeKnown`, `CloseDrains`, `InOrder`, `Serves` | `IInv` = types, `Counts`, `CloseLast`, `Phases`, `Once`, `NothingLost`, `Committed`, `DurableOutcomeKnown`, `Ending`; `Admitted` beside it |
| `CredentialTransaction_proofs` | `TypeCorrect`, `Served`, `Truth`, `Refusals`, `Atomic` | `Core` = types, `Hands`, `Asked`, `Stages`; `Synced`, `Explained`, `Reasons` |
| `Extensions_proofs`, tools | `Truth`, `SessionTools`, `GroupsEnd` | `ToolInv` = types, `Linked`, `Grouped`, `Unlaunched`, `Stories`, `Earned` |
| `Extensions_proofs`, Skills | `SkillInvariant`, `QuarantineExplained`, `PackagesKept`, `AnswersTrue` | `SkillInv` = types, `Working`, `Numbered`, `Marking`, `Quarantined`, `StagedWhole`, `Result` |
| `WorkspaceSession_proofs` | `Authority`, `Consent`, `NoneForgotten` | `Sound` = types, `Shaped`, `Alone`, `Driven`, `Admission`, `Asked`, `Rights`, `Queued`, `Series` |
| `AgentLoop_proofs` | `AgentInvariant`, `AgentRequests`, `AgentBudgets`, `AgentRepeats` | `AgentInv` = `Places`, `Charged`, `Waiting`, `Known`, `RepeatsConsented`, `Judged` |

The properties of the runs that hold for every value of the constants are these.

| Run | Proved | Only checked |
|---|---|---|
| `operation` | `ForegroundSound` (`Soundness`), `KeepsPromise` (`Implements`) | `EndsQuietly`, but for its safety half (`ClosedQuiet`) |
| `turn` | `TurnsInOneHand` (`InOneHand`), `NothingLeftBehind` (`NothingLeft`), `CrashesSettle` (`CrashesAreSettled`) | - |
| `journal` | `WriteAhead`, `JournalSound` (`EvidenceFirst`, `RecordIsTrue`), `WorkSettles` but for `NeverStuck` (`StartupSucceeds`) | `NeverStuck` in `WorkSettles` |
| `sqlite` | `RequestsServed` (`Serves`, from `Accounted` and `InOrder`) | `CallsReturn` |
| `model_change` | `ChangeIsWhole` (`ModelWhole`) | - |
| `credentials` | `AppliedOrFenced`, `ToldTruth`, `RefusalHasReason`, `AtomicChange` (`Served`, `Truth`, `Refusals`, `Atomic`) | - |
| `tools` | `OneTruth`, `ToolsFollowSession`, `GroupEndsWithCall` (`Truth`, `SessionTools`, `GroupsEnd`) | `ToolsEnd` |
| `workspace` | `AuthorityFollowsThread`, `ConsentGiven`, `NoRecoveryForgotten` (`Authority`, `Consent`, `NoneForgotten`) | `RecoveriesSettle` |
| `agent` | `RequestsWellFormed`, `BudgetsKept` (`AgentRequests`, `AgentBudgets`), of `SafeToResume` that no call is repeated unasked (`AgentRepeats`) | `HistoryWhole`, of `SafeToResume` that the checkpoint is accepted, `TurnSettles` |
| `conversations` | `TranscriptWellFormed`, `PagesComplete`, `MaterializedIsPrefix`, `DecisionsKept` (`Transcripts`, `Pages`, `Copied`, `Decisions`) | - |
| `skills` | `NothingLost`, `ToldTruth` (`PackagesKept`, `AnswersTrue`) | `RecoveryConverges` |
| `session` | - | all |

The other theorems are their parts, and types.

Why the invariants need their parts:

* *Operations.* That only the lease holder works does not follow from itself: the
  request task clears `activeId` when the Operation task died, so one must know that
  an Operation is active exactly while one of its two tasks still has to clean up
  (`Ownership`), how far apart those tasks can be (`Coupling`) and which phases each
  point can see (`PhaseInv`). A cancellation is final because an acknowledged
  Operation stays in `cancelling` until it is cleared (`AckInv`). `Implements` maps the
  lease, the fate and what was told to `ForegroundOwner`: each step is one of its steps or
  a stutter. That no lease is left with nobody to give it up, but by a cancellation while
  starting (`LeaseUsed`), and that such a lease is the active Operation's, follow from `Ownership`
  too. That nothing is active when the resources are torn down needs what each
  stage of closing has already waited for (`Closing`).
* *Turns.* The owner's Turn stays open because nobody else may have it: a Turn being
  compensated, or put back, is neither owned nor on offer for recovery, an owned one is not on
  offer, and what a startup settled is finished (`Custody`). An acknowledged cancellation is not overtaken because the stages
  after it exclude the target `completed` (`Decided`, `AckKept`). That nothing is left
  behind needs four more: a Turn that was not begun has neither checkpoint nor changes
  (`Untouched`); what the owner's stage has written so far (`Written`); what a startup has
  settled of the Turns it already looked at (`Settling`); and that a recovery on offer is
  asked about, or somebody will ask (`Asked`).
* *Journal.* Before an effect its intent is pending (`Evidence`); the path still holds
  what the intent says unless it was written or replaced since (`StillBound`). Together they
  give evidence for every change, in edits, undos, rollbacks and startup alike. That the
  record is true needs what each intent means until it is cleared: an edit is of an open
  ChangeSet and its path is as written or as recorded before, an undo or redo leads from one
  side of the merged record to the other (`Meant`), and a ChangeSet has one edit at a time
  (`Single`). Then a path is as recorded or its change is pending (`Told`): evidence
  is withdrawn only where the user has replaced the path (`Replaced`), and cleared only
  where disk and record agree (`Finished`), since what the job wrote is what it intended
  (`Wrote`). Without a record, what a ChangeSet wrote is a pending edit (`Owned`), so one that
  is deleted wrote nothing. Startup succeeds after a mere crash because at
  most one operation is then unsettled (`OneUnsettled`, `InHand`), and each of its paths holds
  what it found or what it writes (`Explainable`).
* *Database.* Queue items, the one in hand and free permits add up (`Counts`); the close
  item comes last (`CloseLast`); the worker's position bounds the state (`Phases`); a
  request is in one place (`Once`). A result implies a commit because a committed write is
  answered, or about to be, and no other answer can be (`Committed`). That a close leaves
  nothing needs what the thread has done before it tells (`Ending`). `InOrder` maps what the
  thread executes and what waits to the line of `SerialStore`: the request is settled when
  its execution ends, or when a failed worker takes it from the queue.
* *Model.* Being inside the write transaction is what serialises processes
  (`Custody`); transaction ids make another process's record distinguishable from
  one's own (`Fresh`); so a removal never takes a record still needed, and both stores always are
  at values the record explains. `ModelAtomic` maps the values to what a startup
  would make of them: the register changes when the record becomes committed.
* *Credentials.* A worker that is not idle holds the locks (`Hands`), for the change its
  caller asked for (`Asked`), and each of its steps knows how much of the record is on disk
  (`Stages`). Unless somebody else edited the files, `.env` and the source are then the
  record's before or after values (`Explained`), which is what makes a refusal
  somebody's doing (`Reasons`). A process without a fence and without work serves its snapshot
  (`Synced`). `Atomic` says, as for the model, that what a recovery would make of the files
  changes at the commit only.
* *Transcripts.* What a call decides on is a view that may be old when it commits. Rows only grow
  (`Grows`): Entries stay, a Turn stays under its question and is final once it ended. So what
  was read is a part of what there is (`Reading`), the Turn a call works on is still there, and
  the number check is a check that nothing was appended. Turns do not cross (`Sequential`): each
  ends before the next begins, which is why the Entries a fork takes along, chosen Turn by Turn,
  are exactly a prefix, and why renumbering them changes nothing. That two plans of the same
  fingerprint have the same transcript makes it the prefix of what is there at the commit. A
  client that pages holds the end of its first transcript because the row before its
  cursor has the cursor's number (`Gapless`, `Paged`).
* *Agent.* What a crash goes back to is a checkpoint, so everything said about the state of a
  node is said about `latest` and `saved` too (`Places`): which node may follow which pending
  batch, and that the open chain is a series of batches, all observed but the last, whose
  pending calls are the ones not observed yet. A request is sent only when no call is pending.
  What was sent is what the counters say plus the retries of the step that waits (`Charged`,
  `Waiting`), and the limits the step was given leave room for them. A call that acted has
  a result, or the user consented to it, or it is the next one and runs, or will not (`Known`);
  recovery forgets only calls the checkpoint does not know of (`Judged`).
* *Tools.* Client, catalog and registry belong to one session, and one actor works on the
  server (`Linked`); the process group is bounded by the runner's step (`Grouped`); a call
  has no handler before it was allowed (`Unlaunched`), tells what its step can know
  (`Stories`), and a success is its handler's (`Earned`).
* *Skills.* A quarantine holds the original of the one change the marker tells of
  (`Quarantined`, `Marking`), operations are numbered afresh, so a rest of another one is
  never taken for it (`Numbered`); what is published was staged whole (`StagedWhole`). At each
  step the original is in place or in quarantine, and the new package in the stage or in place
  (`Working`), which gives what an answer may say (`Result`).
* *Workspace.* Requests suspend anywhere, so each thing one read must be tied to what may
  have changed since. One request holds the foreground, one the bootstrap lock (`Alone`), and
  it is where the Operation it drives is (`Driven`, `Shaped`, `Admission`); the pending question
  is about what it asks for (`Asked`). Then authority can only be the selected Thread's: what was
  given is, and every request or decision that may still give some is about that Thread, or
  the Thread would have been selected by a retry that lost its Operation (`Rights`). Recovery
  keeps account of each Turn, with the one being put back (`Queued`), and of who asks about the
  next one (`Series`).

The assumptions on the constants are named in the modules. Besides disjoint names and
natural bounds: `CredentialTransaction` assumes that a missing file and a missing record are
neither file contents nor records; `SkillPackages` that the absent marker, request and answer is
none of them; `ToolExecution` that calls are numbered from one; `AgentLoop` that the calls of
an assembled reply are a tuple, and that no reason to end a Turn is the absent one;
`WorkspaceSession` that the requests the server runs at once are finitely many, and that
the Turns startup found (rows of one table) are found once each, with one Thread.

Only model-checked: liveness (`EndsQuietly`, `CallsReturn`, `TurnSettles`, `ToolsEnd`,
`SessionSettles`, `RecoveriesSettle`, `RecoveryConverges`) and what is stated with `ENABLED`
(`NeverStuck` in `WorkSettles`), which are out of the prover's reach; what is about sums and
selections over sequences of any length - the sizes and sources of a context, in `HistoryWhole` and
in the acceptance of a checkpoint -, since that is induction over data; and every property of
`ClientSession`. Nothing is proved by induction over data: where a proof needs the rows of a
transcript or the calls of a batch, the model names them by their places
(`Older`, `Included`, `EveryCallObserved`).

## 7. Disagreements

Where the code does something else than a document, a comment or a reader would expect.
The models contain the behaviour, and the properties of section 4 say what holds all the
same: a ghost or a disjunct names the exception. Each was met as a counterexample to the
stronger property; to see one, strengthen the property as said.

**Foreground and Turns**

1. `application/operations.py:312`. A cancellation acknowledged after the Operation task
   was created and before its first step kills the task before its body. No terminal event
   is published and the lease stays held until whoever waits for the task is done
   (`docs/architecture/request-lifecycles.md:273,281` promise a terminal). `EndsQuietly` allows a `dead` task.
2. `application/operations.py:212`. A cancellation accepted while starting publishes
   `operation.cancelled` and raises at line 224, before the `try` whose `finally` gives everything
   up. The lease, the active id and the phase `CANCELLING` stay: every later request is refused as
   busy, the inputs queued behind it wait, and the `wait_idle()` of shutdown never returns
   (`request-lifecycles.md:273`: "It then emits `operation.cancelled` and releases the lease.").
   The factory, the only one to cancel the Turn, never ran, so the Turn stays in progress until a
   restart finds it. If the request is cancelled as well, its clean-up (327-345) gives the lease up
   and publishes `operation.cancelled` a second time. This is a defect, and the properties
   hold only with it excepted: `Stranded` in `LeaseIsInUse`, `ShutdownCompletes` and
   `CancelReleasesOrDies` (without it TLC shows, with two requests already, the acknowledged
   cancellation and the lease nobody releases), `ToldTwice` in `TerminalTellsOutcome`, the
   owner that never leaves in `NothingLeftBehind`, `Interrupted` in `NoRecoveryForgotten` and
   `RecoveriesSettle`, and a foreground that stays busy in `ClientSession`.
3. `application/turns.py:1129`. When startup makes a Turn terminal, the clean-up that follows is
   allowed to fail unnoticed: the workspace is activated with a finished Turn that still has its
   checkpoint, which the next startup deletes (`request-lifecycles.md:274` says as much of
   cancellation). `StartupSettles` excepts a Turn in `settled`.
4. `application/composition.py:1553`. A claimed recovery that could not be started gives its lease
   up first and reads the Turn next, before it puts it back into the queue. Another request may
   step in, so the question is asked later; if the read raises, the Turn is in no queue and
   nobody asks about it until the next start. `Interrupted` and the status `stranded` name it.

**Storage and configuration**

5. `core/changes/operations.py:241`. A redo may start beside the pending rows of an undo
   whose clean-up failed. A crash in its effects leaves two operations startup can settle neither
   of (`docs/architecture/tools-and-changes.md:321-323`). `RestartRecovers` allows it after a fault.
6. `core/changes/journal.py:468`. A rollback leaves a pending row behind; a file the user has
   meanwhile brought to the planned content is taken for the program's at the next startup. Files
   are identified by content in `ChangeJournal`, so it cannot tell the two apart. Nor does it model
   an editor that writes in place between snapshot and replacement (`filesystem.py:209`).
7. `application/provider_configuration.py:594`. The lock of `config.yaml` is released with the
   committed record on disk; another process that checks in between requires recovery
   although nothing failed (`docs/architecture/storage-and-recovery.md:290-304`).
8. `config/loader.py` loads `config.yaml` and `.env` at startup without the locks, while another
   process's change may be pending; and `_select_source` that fails to load after its write
   tells an error with the new source in the file. `CredentialTransaction` has both
   (`LoadAtStart`, the fault of `WriteSelected`): `AppliedOrFenced` is about the last change that
   was committed and loaded, so it says nothing of a pending one read at startup.
9. `extensions/skills/package_manager.py:388,816`. When the removal of a stage dies half way,
   a later recovery may publish what is left of it: `context-model-and-extensions.md` says an
   install publishes a fully validated stage. Add `~Absent(target) => target.whole` to `skills`.
10. `extensions/skills/package_manager.py:758`. Recovery refuses a directory with more than 512
   ordinary entries, and an install (334-463) never looks at that bound. After the program's own
   513th install every recovery, list, install and removal answers `package_too_large`, and so does the
   start of a session (`composition.py:2980`), until somebody removes an entry by hand.
   `RecoveryConverges` excepts `TooMany`.

**Tools and the agent**

11. `core/tools/process.py:350`. Core's SIGTERM ends the supervisor and, if Core then dies before
   its SIGKILL, nobody ends the group (`ARCHITECTURE.md:733`). `ToolsEnd` excepts `Unguarded`.
12. `agent/nodes.py:168`, `application/context.py:450`. When the provider refuses the context after a
   batch of tool calls, compression measures a context without the open chain and may give
   the Turn up although there was something to summarise
   (`docs/architecture/application-and-agent.md:235`, `tests/unit/agent/test_graph.py:510`).
13. The estimate of a request grows in the loop without being checked again; the retry of a
    provider call may use the call reserved for the answer; compression does not charge
    active time, which the documents say it does. A crash after a summary was stored and
    before its checkpoint makes the repeated compression a no-op. A checkpoint with its pending
    calls cleared and a tail is refused (`SafeToResume` lists what may be refused).

**Protocol and terminal**

14. `application/turns.py:1275-1307`. Startup announces Turns it settled without an
    `operation.started` (`docs/reference/cli.md:265-268`): the screen turns fatal. So it does when
    an Operation is cancelled before its `turn.started` was shown, and when an event is cancelled
    waiting for the writer after it took its number (`core/events.py:349`). These are the causes
    `FatalHasCause` names.
15. `composition.py:2543`, `reducer.ts:321`, `App.tsx:528`. An Operation cancelled while its approval
    is shown leaves the panel without a question behind it; the inputs queued behind it
    wait for ever (`docs/concepts/workspace-thread-turn.md:159`).

**Workspace**

16. `conversation_commands.py:199`. /retry selects its Thread some awaits after the reset and does
    not reset again: a mode raised in between moves along (`workspace-thread-turn.md:68-70`).
    `AuthorityFollowsThread` excepts `orphaned`.
17. `composition.py:1106-1125`. `start_turn` checks the selected Thread on entry and takes the
    foreground some awaits later: after a /new, /resume or publication in between it runs in
    a Thread nobody selected (`workspace-thread-turn.md:150-152`). `ConsentGiven` bounds what it may do.
18. The series of recovery questions stops until the next `initialize` when a resolution
    could not be delivered (tested so), when another question is open as the next is due, or when
    a resumed Operation is cancelled while starting (its `finished` callback never runs, and its
    foreground is never given up, so no `initialize` resumes the series). `Interrupted` names them.
19. A /retry that straddles /web selects in the old runtime's commands only.

Two facts that are not disagreements but worth knowing. A cancellation that was acknowledged and
then lost to a crash may be overtaken at restart: a checkpoint that holds the answer completes
the Turn (`AckedNeverCompletes` is about one process life). A startup refuses when the user
changed a file under an interrupted operation; the evidence is kept (`RestartRecovers` excludes it).

## 8. What is not modelled

* *State lease, migration and reset.* Operating-system locks and one-off schema changes. Two
  hazards remain uncovered: on Windows the exclusive lease is released before the shared one is
  taken (`storage/state_lease.py:78`), and a crash inside a reset leaves the only copy of the
  state under a staging name nothing looks for (`storage/state_recovery.py:29`).
* *Composition.* Building a runtime, trust, and the order of closing outside the foreground.
* *Direct operations*: their foreground, ChangeSet, Entry and surface are in the modules of those.
* *Pure data*: classification of shell commands, diffs, redaction, configuration merging,
  citations, token usage, titles, exports, opaque cursors, Skill manifests.
* *Operating-system detail*: descriptor-relative path resolution, Windows jobs, HTTP and
  the wire formats of providers. Their callers' models contain what they guarantee.
* *Memory*: the local file and the cloud adapter; best-effort calls that decide nothing.
* *Terminal*: reconnection, pickers, headless mode, rendering; installers, release scripts
  and the site.

`PROJECT.json` says component by component what of it is modelled.

## 9. Running it

`tlc -config <Run>.cfg <MC module>` for a run of section 4 (`PROJECT.json` names the
module and file of each), `tlapm <name>_proofs.tla` for the modules of section 6. The longest runs are
`journal` (6.4 million states, under two minutes), `turn` (3.9 million) and `skills` (2.2 million).
