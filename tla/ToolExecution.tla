---------------------------- MODULE ToolExecution ----------------------------
(***************************************************************************)
(* The tool calls of operations: core/tools/executor.py, with a handler     *)
(* that is either a shell command (CommandProcess) or a call of an MCP      *)
(* server (McpManager).                                                     *)
(*                                                                          *)
(* A call announces itself, asks the permission policy and perhaps the      *)
(* user, runs its handler in a task of its own under a deadline, records an *)
(* activity, announces its end and returns.  The operation may be cancelled *)
(* at any await, and a handler that does not stop in time is left behind.   *)
(***************************************************************************)
EXTENDS McpManager, CommandProcess

CONSTANTS Workloads,  \* bound: the kinds of tool an operation uses, call by call
          MaxCuts     \* bound: cancellations of an operation that take effect

ASSUME ExecutorAssumption ==
    /\ Calls \subseteq Nat \ {0} /\ MaxCuts \in Nat
    /\ Workloads \subseteq [Calls -> {"command", "mcp", "none"}]

VARIABLES
    work,     \* the workload
    call,     \* ToolExecutor.execute for each call
    cuts      \* cancellations so far

vars == <<managerVars, processVars, crashed, work, call, cuts>>

-----------------------------------------------------------------------------

\* "broken" is a callback that breaks its contract or raises something else.
Event == [success |-> "completed", error |-> "failed", broken |-> "failed",
          cancelled |-> "cancelled"]
Activity == [success |-> "success", error |-> "error", broken |-> "error",
             cancelled |-> "cancelled"]

NoCall == [pc |-> "idle", kind |-> "none", tool |-> 0,
           outcome |-> "none", cut |-> FALSE, late |-> FALSE,
           audit |-> "none", terminal |-> "none", answer |-> "none"]

Init ==
    /\ ManagerInit
    /\ ProcessInit(Calls)
    /\ work \in Workloads
    /\ call = [p \in Calls |-> NoCall]
    /\ cuts = 0

HandlerOver(p) == RunnerOver(p) /\ req[p].pc \in {"none", "ended"}
HandlerResult(p) == IF call[p].kind = "command" THEN run[p].res ELSE req[p].res

\* handler_task.cancel()
CancelHandler(p) ==
    /\ run' = [run EXCEPT ![p].cancel = run[p].pc \notin {"none", "ended"}]
    /\ req' = [req EXCEPT ![p].cancel = req[p].pc \notin {"none", "ended"}]
    /\ UNCHANGED <<server, sessions, admin, group>>

Handlers == <<managerVars, processVars>>
Set(p, c) == call' = [call EXCEPT ![p] = c]
To(p, pc) == [call[p] EXCEPT !.pc = pc]
Outcome(p, out) == [call[p] EXCEPT !.pc = "audit", !.outcome = out]
CutShort(p) == [call[p] EXCEPT !.pc = "cancel_audit", !.outcome = "cancelled"]
Answered(p, answer) == [call[p] EXCEPT !.pc = "done", !.answer = answer]
Cut == cuts < MaxCuts /\ cuts' = cuts + 1

-----------------------------------------------------------------------------
(* Up to the handler.                                                       *)

\* resolve(); the executor keeps nothing of the calls before.
Begin(p) ==
    /\ call[p].pc = "idle" /\ work[p] # "none"
    /\ \A q \in Calls : q < p => call[q].pc = "done"
    /\ call' = [q \in Calls |->
                   CASE q < p -> [NoCall EXCEPT !.pc = "done"]
                     [] q = p -> [NoCall EXCEPT !.pc = "starting", !.kind = work[p],
                                    !.tool = IF work[p] = "mcp" THEN server.registry ELSE 0]
                     [] OTHER -> call[q]]
    /\ UNCHANGED <<Handlers, cuts>>

\* The handler task is created.
Launch(p, c) ==
    /\ Set(p, [c EXCEPT !.pc = "waiting", !.tool = 0])
    /\ IF call[p].kind = "command"
       THEN run' = [run EXCEPT ![p].pc = "record"] /\ UNCHANGED <<managerVars, group>>
       ELSE Submit(p, call[p].tool) /\ UNCHANGED <<server, sessions, admin, processVars>>

Unknown(c) == c.kind = "mcp" /\ c.tool = 0

\* The started event is out.  The tool may be unknown, its arguments wrong or
\* one of its callbacks broken; otherwise the policy allows, denies or asks.
Started(p) ==
    LET c == call[p] IN
    /\ call[p].pc = "starting"
    /\ \/ /\ \E out \in IF Unknown(c) THEN {"error"} ELSE {"error", "broken"} :
                Set(p, [c EXCEPT !.pc = "audit", !.outcome = out])
          /\ UNCHANGED Handlers
       \/ /\ ~Unknown(c)
          /\ \/ c.kind = "command" /\ Launch(p, c)
             \/ Set(p, [c EXCEPT !.pc = "asking"]) /\ UNCHANGED Handlers
    /\ UNCHANGED cuts

\* The sink of the started event fails: nothing more is said of the call.
StartedFails(p) ==
    /\ call[p].pc = "starting"
    /\ Set(p, Answered(p, "raised"))
    /\ UNCHANGED <<Handlers, cuts>>

StartedCut(p) ==
    /\ call[p].pc = "starting" /\ Cut
    /\ Set(p, CutShort(p))
    /\ UNCHANGED Handlers

Asked(p) ==
    /\ call[p].pc = "asking"
    /\ \/ Launch(p, call[p])
       \/ \E out \in {"error", "broken"} : Set(p, Outcome(p, out)) /\ UNCHANGED Handlers
    /\ UNCHANGED cuts

AskedCut(p) ==
    /\ call[p].pc = "asking" /\ Cut
    /\ Set(p, CutShort(p))
    /\ UNCHANGED Handlers

-----------------------------------------------------------------------------
(* The handler and its deadline.                                            *)

OutcomeOf(res) ==
    CASE res = "ok" -> {"success", "broken"}
      [] res \in {"expected", "uncertain"} -> {"error"}
      [] OTHER -> {"broken"}

\* The handler is done before its deadline; its output is validated.
Returns(p) ==
    /\ call[p].pc = "waiting" /\ HandlerOver(p)
    /\ \E out \in OutcomeOf(HandlerResult(p)) : Set(p, Outcome(p, out))
    /\ UNCHANGED <<Handlers, cuts>>

Overdue(p) ==
    /\ call[p].pc = "waiting"
    /\ Set(p, [To(p, "overdue") EXCEPT !.late = TRUE])
    /\ CancelHandler(p)
    /\ UNCHANGED cuts

OverdueCut(p) ==
    /\ call[p].pc = "overdue" /\ ~call[p].cut /\ Cut
    /\ Set(p, [call[p] EXCEPT !.cut = TRUE])
    /\ UNCHANGED Handlers

\* Faulty: a handler that finishes within the grace is believed.
LateOutcome_Believed(p) ==
    IF HandlerOver(p) /\ HandlerResult(p) = "ok" THEN "success" ELSE "error"

\* Whatever the handler says within the grace, the call has timed out.
LateOutcome(p) == "error"

\* At most half a second, whether the handler has stopped or not.
OverdueEnds(p) ==
    /\ call[p].pc = "overdue"
    /\ IF call[p].cut THEN Set(p, CutShort(p)) ELSE Set(p, Outcome(p, LateOutcome(p)))
    /\ UNCHANGED <<Handlers, cuts>>

WaitCut(p) ==
    /\ call[p].pc = "waiting" /\ Cut
    /\ Set(p, To(p, "grace"))
    /\ CancelHandler(p)

\* At most ten seconds; further cancellations are kept away from the wait.
GraceEnds(p) ==
    /\ call[p].pc = "grace"
    /\ Set(p, CutShort(p))
    /\ UNCHANGED <<Handlers, cuts>>

-----------------------------------------------------------------------------
(* The activity, the terminal event, the answer.                            *)

\* finish_cancellation_safe: the write is awaited to its end.
Audit(p) ==
    LET c == call[p]  kept == [c EXCEPT !.audit = Activity[c.outcome]]
        lost == [c EXCEPT !.audit = "lost"] IN
    /\ c.pc = "audit"
    /\ \E r \in {kept, lost} :
          Set(p, CASE c.cut -> [r EXCEPT !.pc = "bounded"]
                   [] ~c.cut /\ r = kept -> [r EXCEPT !.pc = "terminal"]
                   [] OTHER -> [r EXCEPT !.pc = "done", !.answer = "raised"])
    /\ UNCHANGED <<Handlers, cuts>>

AuditCut(p) ==
    /\ call[p].pc = "audit" /\ ~call[p].cut /\ Cut
    /\ Set(p, [call[p] EXCEPT !.cut = TRUE])
    /\ UNCHANGED Handlers

AnswerOf(outcome) == IF outcome = "broken" THEN "raised" ELSE outcome

Terminal(p) ==
    LET c == call[p] IN
    /\ c.pc = "terminal"
    /\ \/ Set(p, [Answered(p, AnswerOf(c.outcome)) EXCEPT !.terminal = Event[c.outcome]])
       \/ Set(p, Answered(p, "raised"))
    /\ UNCHANGED <<Handlers, cuts>>

TerminalCut(p) ==
    /\ call[p].pc = "terminal" /\ Cut
    /\ Set(p, [To(p, "bounded") EXCEPT !.cut = TRUE])
    /\ UNCHANGED Handlers

CancelAudit(p) ==
    /\ call[p].pc = "cancel_audit"
    /\ \E audit \in {"cancelled", "lost"} :
          Set(p, [To(p, "bounded") EXCEPT !.audit = audit])
    /\ UNCHANGED <<Handlers, cuts>>

\* Ten seconds for the terminal event, then the cancellation goes on.
Bounded(p) ==
    /\ call[p].pc = "bounded"
    /\ \E terminal \in {Event[call[p].outcome], "none"} :
          Set(p, [Answered(p, "cancelled") EXCEPT !.terminal = terminal])
    /\ UNCHANGED <<Handlers, cuts>>

-----------------------------------------------------------------------------

ExecutorStep(p) ==
    /\ ~crashed
    /\ \/ Started(p) \/ Returns(p) \/ Overdue(p) \/ OverdueEnds(p) \/ GraceEnds(p)
       \/ Audit(p) \/ Terminal(p) \/ CancelAudit(p) \/ Bounded(p)
    /\ UNCHANGED <<crashed, work>>

Others(p) ==
    /\ ~crashed
    /\ \/ Begin(p) \/ Asked(p) \/ StartedFails(p) \/ StartedCut(p) \/ AskedCut(p)
       \/ OverdueCut(p) \/ WaitCut(p) \/ AuditCut(p) \/ TerminalCut(p)
    /\ UNCHANGED <<crashed, work>>

RunHandler(p) ==
    /\ RunnerStep(p) \/ SupervisorStep(p)
    /\ UNCHANGED <<managerVars, crashed, work, call, cuts>>

Command(p) ==
    /\ CommandStep(p) \/ (~crashed /\ Spawned(p))
    /\ UNCHANGED <<managerVars, crashed, work, call, cuts>>

Request(p) ==
    /\ ~crashed /\ ManagerCall(p)
    /\ UNCHANGED <<processVars, crashed, work, call, cuts>>

ServerReplies(p) ==
    /\ ~crashed /\ Reply(p)
    /\ UNCHANGED <<processVars, crashed, work, call, cuts>>

Administer ==
    /\ ~crashed /\ ManagerAdmin
    /\ UNCHANGED <<processVars, crashed, work, call, cuts>>

AskServer ==
    /\ ~crashed /\ \E p \in Calls : work[p] = "mcp"
    /\ LateLoad \/ \E op \in AdminOps : Ask(op)
    /\ UNCHANGED <<processVars, crashed, work, call, cuts>>

\* Core dies while a command is under way.
Crash ==
    /\ ~crashed /\ \E p \in Calls : ~RunnerOver(p)
    /\ crashed' = TRUE
    /\ UNCHANGED <<Handlers, work, call, cuts>>

Next ==
    \/ \E p \in Calls : \/ ExecutorStep(p) \/ Others(p) \/ RunHandler(p) \/ Command(p)
                        \/ Request(p) \/ ServerReplies(p)
    \/ Administer \/ AskServer \/ Crash

Fairness ==
    /\ \A p \in Calls : /\ WF_vars(ExecutorStep(p))
                        /\ WF_vars(RunHandler(p))
                        /\ WF_vars(Request(p))
    /\ WF_vars(Administer)

Spec == Init /\ [][Next]_vars /\ Fairness

-----------------------------------------------------------------------------
(* Properties.                                                              *)

\* The answer, the activity and the terminal event of a call tell the same
\* story, and success means that the handler ended well before its deadline.
OneTruth ==
    \A p \in Calls : LET c == call[p] IN
        /\ c.answer = "success" =>
              /\ ~c.late /\ HandlerOver(p) /\ HandlerResult(p) = "ok"
              /\ c.terminal = "completed" /\ c.audit = "success"
        /\ c.answer = "error" => c.terminal = "failed" /\ c.audit = "error" /\ ~c.cut
        /\ c.terminal # "none" =>
              c.audit = Activity[c.outcome] \/ (c.audit = "lost" /\ c.answer = "cancelled")
        /\ c.answer = "cancelled" => cuts > 0
        /\ c.terminal = "completed" \/ c.audit = "success" => ~c.late

\* The registered tools are those of the connected client's catalog, and a
\* call reaches only the session whose tool it was resolved to.
ToolsFollowSession ==
    /\ server.registry # 0 =>
          /\ server.client # 0 /\ server.catalog = server.registry
          /\ sessions[server.client].generation = server.registry
          /\ server.status = "connected" /\ ~sessions[server.client].uncertain
    /\ \A s \in DOMAIN sessions : sessions[s].asked \subseteq {sessions[s].generation}

\* When a call of the command tool is over and Core lives, nothing of its
\* process group is left, however the call ended.
GroupEndsWithCall ==
    \A p \in Calls : run[p].pc = "ended" /\ ~crashed =>
        Members(p) = {} /\ group[p].sup \notin {"watch", "closing"}

\* Core's SIGTERM has already ended the supervisor when Core dies.
Unguarded(p) == run[p].pc = "grace"

\* Every call ends once its approval is given, the server's lock is always
\* freed, and the death of Core ends the commands it leaves behind.
ToolsEnd ==
    /\ \A p \in Calls : call[p].pc \notin {"idle", "asking"} ~>
                            call[p].pc \in {"done", "asking"} \/ crashed
    /\ server.owner # Free ~> server.owner = Free \/ crashed
    /\ \A p \in Calls : crashed /\ ~Unguarded(p) ~> Members(p) = {}
=============================================================================
