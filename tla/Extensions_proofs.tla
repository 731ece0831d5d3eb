--------------------------- MODULE Extensions_proofs ---------------------------
(***************************************************************************)
(* What is proved of the extensions: the tool calls with their MCP servers  *)
(* and commands (ToolExecution), then the package manager of the skills     *)
(* (SkillPackages), which share neither state nor names.                    *)
(*                                                                          *)
(* The inductive invariant of ToolExecution, for any number of calls,       *)
(* sessions, administrations and cancellations: Linked is about the MCP     *)
(* server, Grouped about the processes of a command, Stories and Earned     *)
(* about what a call tells, and Unlaunched ties each handler to its call.   *)
(*                                                                          *)
(* The inductive invariant of SkillPackages, for any number of operations,  *)
(* changes by the user, crashes and failures: Working, Numbered and Marking *)
(* say what the process and the marker remember, Quarantined and            *)
(* StagedWhole what lies under the private names, Result what is published. *)
(***************************************************************************)
EXTENDS ToolExecution, SkillPackages, TLAPS

\* The types of the state.
ServerType ==
    [generation : Nat, client : Nat, catalog : Nat, registry : Nat,
     status : {"inactive", "connected", "error"}, effective : BOOLEAN,
     owner : Calls \cup {Admin, Free}]

SessionType ==
    [generation : Nat \ {0}, loading : BOOLEAN, asked : SUBSET Nat, uncertain : BOOLEAN]

RequestType ==
    [pc : {"none", "lock", "sent", "closing", "ended"},
     res : {"none", "ok", "expected", "uncertain", "cancelled"},
     cancel : BOOLEAN, tool : Nat]

AdminType ==
    [pc : {"idle", "lock", "dropping", "connect", "connecting", "discard"},
     op : AdminOps \cup {"none"}, count : Nat]

RunType ==
    [pc : {"none", "record", "spawn", "watch", "late", "drain", "reap", "term", "grace",
           "ended"},
     res : {"none", "ok", "expected", "broken", "cancelled"},
     why : {"ok", "timeout", "cancelled", "broken"}, cancel : BOOLEAN]

GroupType ==
    [sup : {"none", "pending", "born", "watch", "closing", "dead"},
     root : {"none", "alive"}, kin : {"none", "alive"}, told : {"none", "result", "error"}]

CallType ==
    [pc : {"idle", "starting", "asking", "waiting", "overdue", "grace", "audit",
           "terminal", "cancel_audit", "bounded", "done"},
     kind : {"none", "command", "mcp"}, tool : Nat,
     outcome : {"none", "success", "error", "broken", "cancelled"},
     cut : BOOLEAN, late : BOOLEAN,
     audit : {"none", "lost", "success", "error", "cancelled"},
     terminal : {"none", "completed", "failed", "cancelled"},
     answer : {"none", "success", "error", "raised", "cancelled"}]

ManagerTypes ==
    /\ server \in ServerType /\ sessions \in Seq(SessionType)
    /\ req \in [Calls -> RequestType] /\ admin \in AdminType

ProcessTypes ==
    /\ run \in [Calls -> RunType] /\ group \in [Calls -> GroupType]
    /\ crashed \in BOOLEAN

ExecutorTypes ==
    work \in [Calls -> {"command", "mcp", "none"}] /\ call \in [Calls -> CallType] /\ cuts \in Nat

\* Client, catalog and registry are those of one session, and one actor at a
\* time, a call or the administration, works on the server.
Linked ==
    /\ server.client \in 0 .. Len(sessions)
    /\ server.client = 0 => server.catalog = 0 /\ server.registry = 0
    /\ server.client # 0 =>
          /\ server.status = "connected" /\ ~sessions[server.client].uncertain
          /\ server.catalog = sessions[server.client].generation
          /\ server.registry = server.catalog
    /\ admin.pc \in {"dropping", "connect", "connecting", "discard"} =>
          server.owner = Admin /\ server.client = 0
    /\ admin.pc = "connecting" =>
          Len(sessions) # 0 /\ ~sessions[Len(sessions)].uncertain
    /\ \A p \in Calls :
          /\ req[p].pc \in {"sent", "closing"} => server.owner = p
          /\ req[p].pc = "sent" => server.client # 0
    /\ \A s \in 1 .. Len(sessions) : sessions[s].asked \subseteq {sessions[s].generation}

\* The process group of a call, by how far its runner is.
Grouped == \A p \in Calls :
    /\ run[p].pc \in {"none", "record"} => group[p] = NoGroup
    /\ group[p].sup \in {"none", "pending", "born"} =>
          group[p].root = "none" /\ group[p].kin = "none"
    /\ run[p].pc = "ended" /\ ~crashed =>
          /\ group[p].root = "none" /\ group[p].kin = "none"
          /\ group[p].sup \notin {"watch", "closing"}

\* A call has no handler before it is allowed to.
Unlaunched == \A p \in Calls :
    call[p].pc \in {"idle", "starting", "asking"} =>
        run[p].pc = "none" /\ req[p].pc = "none"

\* What a call knows of its outcome and has told of it, by its step;
\* n cancellations have taken effect.
Plausible(c, n) ==
    /\ c.pc \in {"idle", "starting", "asking", "waiting", "overdue", "grace"} =>
          c.outcome = "none" /\ c.audit = "none"
    /\ c.pc \in {"idle", "starting", "asking", "waiting"} => ~c.late
    /\ c.outcome = "success" => ~c.late
    /\ c.pc # "done" => c.terminal = "none" /\ c.answer = "none"
    /\ c.pc \in {"audit", "terminal"} => c.outcome \in {"success", "error", "broken"}
    /\ c.pc \in {"audit", "cancel_audit"} => c.audit = "none"
    /\ c.pc = "terminal" => c.audit = Activity[c.outcome] /\ ~c.cut
    /\ c.pc = "cancel_audit" => c.outcome = "cancelled"
    /\ c.pc = "bounded" =>
          c.outcome # "none" /\ (c.audit = Activity[c.outcome] \/ c.audit = "lost")
    /\ c.pc \in {"grace", "cancel_audit", "bounded"} \/ c.cut \/ c.outcome = "cancelled"
          \/ c.answer = "cancelled" => n > 0
    /\ c.audit = "success" \/ c.terminal = "completed" => c.outcome = "success"
    /\ c.terminal # "none" =>
          /\ c.outcome # "none"
          /\ c.audit = Activity[c.outcome] \/ (c.audit = "lost" /\ c.answer = "cancelled")
    /\ c.answer = "success" => c.terminal = "completed" /\ c.audit = "success"
    /\ c.answer = "error" => c.terminal = "failed" /\ c.audit = "error" /\ ~c.cut

Stories == \A p \in Calls : Plausible(call[p], cuts)

\* A success is what the handler answered.
EarnedBy(p) == call[p].outcome = "success" => HandlerOver(p) /\ HandlerResult(p) = "ok"

Earned == \A p \in Calls : EarnedBy(p)

Typed == ManagerTypes /\ ProcessTypes /\ ExecutorTypes

-----------------------------------------------------------------------------

\* A step of the executor leaves the handlers alone, cancels its handler or
\* starts it.
LEMMA ExecutorEffect ==
    ASSUME ExecutorTypes, NEW p \in Calls, ExecutorStep(p) \/ Others(p)
    PROVE  \/ UNCHANGED Handlers
           \/ CancelHandler(p) /\ call[p].pc = "waiting"
           \/ /\ call[p].pc \in {"starting", "asking"} /\ call'[p].pc = "waiting"
              /\ run' = [run EXCEPT ![p].pc = "record"]
              /\ UNCHANGED <<managerVars, group>>
           \/ /\ call[p].pc \in {"starting", "asking"} /\ call'[p].pc = "waiting"
              /\ Submit(p, call[p].tool)
              /\ UNCHANGED <<server, sessions, admin, processVars>>
  <1>1. ASSUME Launch(p, call[p])
        PROVE  \/ /\ call'[p].pc = "waiting"
                  /\ run' = [run EXCEPT ![p].pc = "record"]
                  /\ UNCHANGED <<managerVars, group>>
               \/ /\ call'[p].pc = "waiting"
                  /\ Submit(p, call[p].tool)
                  /\ UNCHANGED <<server, sessions, admin, processVars>>
    <2>1. call'[p].pc = "waiting"
      BY <1>1 DEF Launch, Set, ExecutorTypes, CallType
    <2>2. QED
      BY <1>1, <2>1 DEF Launch
  <1>2. CASE Started(p)
    BY <1>1, <1>2 DEF Started
  <1>3. CASE Asked(p)
    BY <1>1, <1>3 DEF Asked
  <1>4. CASE \/ Returns(p) \/ OverdueEnds(p) \/ GraceEnds(p) \/ Audit(p) \/ Terminal(p)
             \/ CancelAudit(p) \/ Bounded(p)
    BY <1>4 DEF Returns, OverdueEnds, GraceEnds, Audit, Terminal, CancelAudit, Bounded
  <1>5. CASE \/ Begin(p) \/ StartedFails(p) \/ StartedCut(p) \/ AskedCut(p)
             \/ OverdueCut(p) \/ AuditCut(p) \/ TerminalCut(p)
    BY <1>5 DEF Begin, StartedFails, StartedCut, AskedCut, OverdueCut, AuditCut, TerminalCut
  <1>6. CASE Overdue(p) \/ WaitCut(p)
    BY <1>6 DEF Overdue, WaitCut
  <1>7. QED
    BY <1>2, <1>3, <1>4, <1>5, <1>6 DEF ExecutorStep, Others

\* Who changes the server and the requests.
LEMMA ManagerCases ==
    ASSUME ExecutorTypes, [Next]_vars
    PROVE  \/ UNCHANGED managerVars
           \/ \E p \in Calls :
                 \/ CancelHandler(p)
                 \/ /\ call[p].pc \in {"starting", "asking"} /\ call'[p].pc = "waiting"
                    /\ Submit(p, call[p].tool)
                    /\ UNCHANGED <<server, sessions, admin>>
                 \/ ManagerCall(p) \/ Reply(p)
           \/ ManagerAdmin \/ LateLoad
           \/ \E order \in AdminOps : Ask(order)
  <1>1. ASSUME NEW p \in Calls, ExecutorStep(p) \/ Others(p)
        PROVE  \/ UNCHANGED managerVars \/ CancelHandler(p)
               \/ /\ call[p].pc \in {"starting", "asking"} /\ call'[p].pc = "waiting"
                  /\ Submit(p, call[p].tool)
                  /\ UNCHANGED <<server, sessions, admin>>
    BY <1>1, ExecutorEffect DEF Handlers
  <1>2. ASSUME NEW p \in Calls, RunHandler(p) \/ Command(p) PROVE UNCHANGED managerVars
    BY <1>2 DEF RunHandler, Command
  <1>3. ASSUME NEW p \in Calls, Request(p) \/ ServerReplies(p)
        PROVE  ManagerCall(p) \/ Reply(p)
    BY <1>3 DEF Request, ServerReplies
  <1>4. CASE Administer \/ AskServer
    BY <1>4 DEF Administer, AskServer
  <1>5. CASE Crash \/ UNCHANGED vars
    BY <1>5 DEF Crash, Handlers, vars
  <1>6. QED
    BY <1>1, <1>2, <1>3, <1>4, <1>5 DEF Next

\* Who changes the runners and the process groups.
LEMMA ProcessCases ==
    ASSUME ExecutorTypes, [Next]_vars
    PROVE  \/ UNCHANGED <<processVars, crashed>>
           \/ Crash /\ UNCHANGED processVars
           \/ /\ crashed' = crashed
              /\ \E p \in Calls :
                    \/ CancelHandler(p) /\ ~crashed
                    \/ /\ call[p].pc \in {"starting", "asking"} /\ call'[p].pc = "waiting"
                       /\ run' = [run EXCEPT ![p].pc = "record"] /\ group' = group
                    \/ RunnerStep(p) \/ SupervisorStep(p) \/ CommandStep(p)
                    \/ ~crashed /\ Spawned(p)
  <1>1. ASSUME NEW p \in Calls, ExecutorStep(p) \/ Others(p)
        PROVE  \/ UNCHANGED <<processVars, crashed>>
               \/ /\ crashed' = crashed
                  /\ \/ CancelHandler(p) /\ ~crashed
                     \/ /\ call[p].pc \in {"starting", "asking"} /\ call'[p].pc = "waiting"
                        /\ run' = [run EXCEPT ![p].pc = "record"] /\ group' = group
    <2>1. crashed' = crashed /\ ~crashed
      BY <1>1 DEF ExecutorStep, Others
    <2>2. QED
      BY <1>1, <2>1, ExecutorEffect DEF Handlers, processVars
  <1>2. ASSUME NEW p \in Calls, RunHandler(p) \/ Command(p)
        PROVE  /\ crashed' = crashed
               /\ \/ RunnerStep(p) \/ SupervisorStep(p) \/ CommandStep(p)
                  \/ ~crashed /\ Spawned(p)
    BY <1>2 DEF RunHandler, Command
  <1>3. ASSUME NEW p \in Calls, Request(p) \/ ServerReplies(p)
        PROVE  UNCHANGED <<processVars, crashed>>
    BY <1>3 DEF Request, ServerReplies
  <1>4. CASE Administer \/ AskServer
    BY <1>4 DEF Administer, AskServer
  <1>5. CASE Crash \/ UNCHANGED vars
    BY <1>5 DEF Crash, Handlers, vars
  <1>6. QED
    BY <1>1, <1>2, <1>3, <1>4, <1>5 DEF Next

-----------------------------------------------------------------------------

\* The server's record without its client.
LEMMA InvalidatedType == ASSUME NEW s \in ServerType PROVE Invalidated(s) \in ServerType
  <1>1. s.generation + 1 \in Nat
    BY DEF ServerType
  <1>2. ASSUME NEW g \in Nat
        PROVE  [s EXCEPT !.client = 0, !.catalog = 0, !.generation = g, !.registry = 0]
                  \in ServerType
    BY DEF ServerType
  <1>3. QED
    BY <1>1, <1>2 DEF Invalidated

\* The server's record in other hands or with another status.
LEMMA ServerUpdates ==
    ASSUME NEW s \in ServerType, NEW st \in {"inactive", "connected", "error"},
           NEW o \in Calls \cup {Admin, Free}
    PROVE  /\ [s EXCEPT !.owner = o] \in ServerType
           /\ [s EXCEPT !.status = st] \in ServerType
           /\ [s EXCEPT !.status = st, !.owner = o] \in ServerType
  BY DEF ServerType

\* An MCP server that is enabled or disabled.
LEMMA EffectiveType ==
    ASSUME NEW s \in ServerType, NEW e \in BOOLEAN
    PROVE  [s EXCEPT !.effective = e] \in ServerType
  BY DEF ServerType

\* The server's record when its catalog is published.
LEMMA PublishedType ==
    ASSUME NEW s \in ServerType, NEW g \in Nat, NEW n \in Nat
    PROVE  [s EXCEPT !.generation = g, !.client = n, !.catalog = g, !.registry = g,
                     !.status = "connected", !.owner = Free] \in ServerType
  BY DEF ServerType

\* The sessions, as the manager changes them.
LEMMA SessionUpdates ==
    ASSUME sessions \in Seq(SessionType), NEW n \in 1 .. Len(sessions)
    PROVE  /\ sessions[n] \in SessionType
           /\ \A x \in SessionType :
                 /\ [sessions EXCEPT ![n] = x] \in Seq(SessionType)
                 /\ Len([sessions EXCEPT ![n] = x]) = Len(sessions)
                 /\ [sessions EXCEPT ![n] = x][n] = x
                 /\ \A i \in 1 .. Len(sessions) : i # n => [sessions EXCEPT ![n] = x][i] = sessions[i]
           /\ [sessions[n] EXCEPT !.loading = FALSE] \in SessionType
           /\ [sessions[n] EXCEPT !.uncertain = TRUE] \in SessionType
           /\ \A g \in Nat : [sessions[n] EXCEPT !.asked = @ \cup {g}] \in SessionType
  <1>1. sessions[n] \in SessionType
    OBVIOUS
  <1>2. ASSUME NEW x \in SessionType
        PROVE  /\ [sessions EXCEPT ![n] = x] \in Seq(SessionType)
               /\ Len([sessions EXCEPT ![n] = x]) = Len(sessions)
               /\ [sessions EXCEPT ![n] = x][n] = x
               /\ \A i \in 1 .. Len(sessions) : i # n => [sessions EXCEPT ![n] = x][i] = sessions[i]
    OBVIOUS
  <1>3. /\ [sessions[n] EXCEPT !.loading = FALSE] \in SessionType
        /\ [sessions[n] EXCEPT !.uncertain = TRUE] \in SessionType
        /\ \A g \in Nat : [sessions[n] EXCEPT !.asked = @ \cup {g}] \in SessionType
    BY <1>1 DEF SessionType
  <1>4. QED
    BY <1>1, <1>2, <1>3

\* A request, as its call changes it.
LEMMA RequestUpdates ==
    ASSUME req \in [Calls -> RequestType], NEW p \in Calls
    PROVE  /\ \A res \in {"none", "ok", "expected", "uncertain", "cancelled"} :
                 Requested(p, res) \in [Calls -> RequestType]
           /\ \A b \in BOOLEAN : [req EXCEPT ![p].cancel = b] \in [Calls -> RequestType]
           /\ [req EXCEPT ![p].pc = "sent"] \in [Calls -> RequestType]
           /\ \A res \in {"uncertain", "cancelled"} :
                 [req EXCEPT ![p].pc = "closing", ![p].res = res] \in [Calls -> RequestType]
           /\ \A g \in Nat :
                 [req EXCEPT ![p] = [NoRequest EXCEPT !.pc = "lock", !.tool = g]]
                    \in [Calls -> RequestType]
  BY DEF RequestType, Requested, NoRequest

\* A request that ends, ends for its call alone.
LEMMA OneEnds ==
    ASSUME req \in [Calls -> RequestType], NEW p \in Calls, NEW res
    PROVE  /\ Requested(p, res)[p].pc = "ended" /\ Requested(p, res)[p].res = res
           /\ \A q \in Calls : q # p => Requested(p, res)[q] = req[q]
  BY DEF Requested, NoRequest

\* Every step keeps the types of the server, its sessions and its requests.
LEMMA ManagerTypeStep == ASSUME ExecutorTypes, ManagerTypes, Linked, [Next]_vars PROVE ManagerTypes'
  <1> USE ManagerAssumption DEF ManagerTypes
  <1>1. CASE UNCHANGED managerVars
    BY <1>1 DEF managerVars
  <1>2. ASSUME NEW p \in Calls, CancelHandler(p) PROVE ManagerTypes'
    BY <1>2, RequestUpdates DEF CancelHandler
  <1>3. ASSUME NEW p \in Calls, call[p].pc \in {"starting", "asking"},
               Submit(p, call[p].tool), UNCHANGED <<server, sessions, admin>>
        PROVE  ManagerTypes'
    <2>1. call[p].tool \in Nat
      BY DEF ExecutorTypes, CallType
    <2>2. [req EXCEPT ![p] = [NoRequest EXCEPT !.pc = "ended", !.res = "expected"]]
             \in [Calls -> RequestType]
      BY RequestUpdates DEF Requested
    <2>3. req' \in [Calls -> RequestType]
      BY <1>3, <2>1, <2>2, RequestUpdates DEF Submit
    <2>4. QED
      BY <1>3, <2>3
  <1>4. ASSUME NEW p \in Calls, Acquire(p) PROVE ManagerTypes'
    <2>1. CASE Callable(req[p].tool)
      <3>1. server.client \in 1 .. Len(sessions)
        BY <2>1 DEF Callable, Linked, ServerType
      <3>2. req[p].tool \in Nat
        BY DEF RequestType
      <3>3. sessions' = [sessions EXCEPT ![server.client] =
                            [sessions[server.client] EXCEPT !.asked = @ \cup {req[p].tool}]]
        BY <1>4, <2>1 DEF Acquire
      <3>4. sessions' \in Seq(SessionType)
        BY <3>1, <3>2, <3>3, SessionUpdates
      <3>5. server' = [server EXCEPT !.owner = p] /\ req' = [req EXCEPT ![p].pc = "sent"]
        BY <1>4, <2>1 DEF Acquire
      <3>6. server' \in ServerType /\ req' \in [Calls -> RequestType]
        BY <3>5, ServerUpdates, RequestUpdates
      <3>7. QED
        BY <1>4, <3>4, <3>5, <3>6 DEF Acquire
    <2>2. CASE ~Callable(req[p].tool)
      <3>1. req' = Requested(p, "expected") /\ UNCHANGED <<server, sessions, admin>>
        BY <1>4, <2>2 DEF Acquire
      <3>2. QED
        BY <3>1, RequestUpdates
    <2>3. QED
      BY <2>1, <2>2
  <1>5. ASSUME NEW p \in Calls, CancelLocked(p) PROVE ManagerTypes'
    BY <1>5, RequestUpdates DEF CancelLocked
  <1>6. ASSUME NEW p \in Calls, GiveUp(p) PROVE ManagerTypes'
    <2>1. server.client \in 1 .. Len(sessions)
      BY <1>6 DEF GiveUp, Linked, ServerType
    <2>2. sessions' = [sessions EXCEPT ![server.client] =
                          [sessions[server.client] EXCEPT !.uncertain = TRUE]]
      BY <1>6 DEF GiveUp
    <2>3. sessions' \in Seq(SessionType)
      BY <2>1, <2>2, SessionUpdates
    <2>4. server' \in ServerType
      BY <1>6, InvalidatedType, ServerUpdates DEF GiveUp
    <2>5. req' \in [Calls -> RequestType]
      BY <1>6, RequestUpdates DEF GiveUp
    <2>6. QED
      BY <1>6, <2>3, <2>4, <2>5 DEF GiveUp
  <1>7. ASSUME NEW p \in Calls, CallClosed(p) PROVE ManagerTypes'
    <2>1. req[p].res \in {"none", "ok", "expected", "uncertain", "cancelled"}
      BY DEF RequestType
    <2>2. QED
      BY <1>7, <2>1, RequestUpdates, ServerUpdates DEF CallClosed
  <1>8. ASSUME NEW p \in Calls, Reply(p) PROVE ManagerTypes'
    <2>1. req' = Requested(p, "ok") \/ req' = Requested(p, "expected")
      BY <1>8 DEF Reply, Adapted
    <2>2. QED
      <3>1. /\ Requested(p, "ok") \in [Calls -> RequestType]
            /\ Requested(p, "expected") \in [Calls -> RequestType]
        BY RequestUpdates
      <3>2. server' \in ServerType
        BY <1>8, ServerUpdates DEF Reply
      <3>3. QED
        BY <1>8, <2>1, <3>1, <3>2 DEF Reply
  <1>9. CASE AdminAcquire
    <2>1. server' \in ServerType
      <3>1. server \in ServerType /\ Invalidated(server) \in ServerType
        BY InvalidatedType
      <3>2. [server EXCEPT !.owner = Admin] \in ServerType
             /\ [Invalidated(server) EXCEPT !.owner = Admin] \in ServerType
        BY <3>1, ServerUpdates
      <3>3. server' \in {server, [server EXCEPT !.owner = Admin],
                      [Invalidated(server) EXCEPT !.owner = Admin]}
        BY <1>9 DEF AdminAcquire
      <3>4. QED
        BY <3>1, <3>2, <3>3, Zenon
    <2>2. admin' \in AdminType
      BY <1>9 DEF AdminAcquire, AdminIdle, AdminType
    <2>3. QED
      BY <1>9, <2>1, <2>2 DEF AdminAcquire
  <1>10. CASE Dropped
    <2>1. server' \in ServerType
      <3>1. server \in ServerType /\ Invalidated(server) \in ServerType
        BY InvalidatedType
      <3>2. [server EXCEPT !.status = "inactive"] \in ServerType
             /\ [server EXCEPT !.status = "inactive", !.owner = Free] \in ServerType
        BY <3>1, ServerUpdates
      <3>3. server' \in {[server EXCEPT !.status = "inactive"],
                      [server EXCEPT !.status = "inactive", !.owner = Free]}
        BY <1>10 DEF Dropped, Settled
      <3>4. QED
        BY <3>1, <3>2, <3>3, Zenon
    <2>2. admin' \in AdminType
      BY <1>10 DEF Dropped, AdminIdle, AdminType
    <2>3. QED
      BY <1>10, <2>1, <2>2 DEF Dropped
  <1>11. CASE Connect
    <2>1. server' \in ServerType
      <3>1. server \in ServerType /\ Invalidated(server) \in ServerType
        BY InvalidatedType
      <3>2. [Invalidated(server) EXCEPT !.status = "error", !.owner = Free]
                \in ServerType
        BY <3>1, ServerUpdates
      <3>3. server' \in {server, [Invalidated(server) EXCEPT !.status = "error", !.owner = Free]}
        BY <1>11 DEF Connect
      <3>4. QED
        BY <3>1, <3>2, <3>3, Zenon
    <2>2. admin' \in AdminType
      BY <1>11 DEF Connect, AdminIdle, AdminType
    <2>3. Connection(server.generation + 1) \in SessionType
      BY DEF Connection, SessionType, ServerType
    <2>4. sessions' \in Seq(SessionType)
      BY <1>11, <2>3 DEF Connect
    <2>5. QED
      BY <1>11, <2>1, <2>2, <2>4 DEF Connect
  <1>12. CASE Publish
    <2> DEFINE n == Len(sessions)
    <2>1. n \in 1 .. Len(sessions) /\ sessions[n] \in SessionType
      BY <1>12, SessionUpdates DEF Publish, Linked
    <2>2. sessions' = [sessions EXCEPT ![n] = [sessions[n] EXCEPT !.loading = FALSE]]
      BY <1>12 DEF Publish
    <2>3. sessions' \in Seq(SessionType)
      BY <2>1, <2>2, SessionUpdates
    <2>4. sessions[n].generation \in Nat
      BY <2>1 DEF SessionType
    <2>5. [server EXCEPT !.generation = sessions[n].generation, !.client = n,
                         !.catalog = sessions[n].generation,
                         !.registry = sessions[n].generation,
                         !.status = "connected", !.owner = Free] \in ServerType
      <3>1. n \in Nat /\ server \in ServerType
        BY <2>1
      <3> HIDE DEF n
      <3>2. QED
        BY <2>4, <3>1, PublishedType
    <2>6. server' \in ServerType
      BY <1>12, <2>5 DEF Publish
    <2>7. admin' \in AdminType
      BY <1>12 DEF Publish, AdminIdle, AdminType
    <2>8. QED
      BY <1>12, <2>3, <2>6, <2>7 DEF Publish
  <1>13. CASE ConnectTimesOut
    <2>1. admin' \in AdminType
      BY <1>13 DEF ConnectTimesOut, AdminType
    <2>2. QED
      BY <1>13, <2>1 DEF ConnectTimesOut
  <1>14. CASE Discarded
    <2>1. admin' \in AdminType
      BY <1>14 DEF Discarded, AdminIdle, AdminType
    <2>2. QED
      BY <1>14, <2>1, InvalidatedType, ServerUpdates DEF Discarded
  <1>15. CASE LateLoad
    <2>1. PICK s \in DOMAIN sessions : sessions' = [sessions EXCEPT ![s].loading = FALSE]
      BY <1>15 DEF LateLoad
    <2>2. /\ s \in 1 .. Len(sessions)
          /\ sessions' = [sessions EXCEPT ![s] = [sessions[s] EXCEPT !.loading = FALSE]]
      BY <2>1
    <2>3. sessions' \in Seq(SessionType)
      BY <2>2, SessionUpdates
    <2>4. QED
      BY <1>15, <2>3 DEF LateLoad
  <1>16. ASSUME NEW order \in AdminOps, Ask(order) PROVE ManagerTypes'
    <2>1. admin' \in AdminType
      BY <1>16 DEF Ask, AdminType
    <2>2. server.effective \in BOOLEAN
      BY DEF ServerType
    <2>3. \E e \in BOOLEAN : server' = [server EXCEPT !.effective = e]
      <3>1. CASE order = "enable"
        BY <1>16, <3>1 DEF Ask
      <3>2. CASE order = "disable"
        BY <1>16, <3>2 DEF Ask
      <3>3. CASE order \notin {"enable", "disable"}
        BY <1>16, <2>2, <3>3 DEF Ask
      <3>4. QED
        BY <3>1, <3>2, <3>3
    <2>4. QED
      BY <1>16, <2>1, <2>3, EffectiveType DEF Ask
  <1>17. QED
    BY <1>1, <1>2, <1>3, <1>4, <1>5, <1>6, <1>7, <1>8, <1>9, <1>10, <1>11, <1>12, <1>13,
       <1>14, <1>15, <1>16, ManagerCases DEF ManagerCall, ManagerAdmin

\* Every step keeps client, catalog and registry together, and the lock with
\* who works on the server.
LEMMA LinkedStep == ASSUME ExecutorTypes, ManagerTypes, Linked, ManagerTypes', [Next]_vars PROVE Linked'
  <1> USE ManagerAssumption DEF ManagerTypes, Linked
  <1>1. CASE UNCHANGED managerVars
    BY <1>1 DEF managerVars
  <1>2. ASSUME NEW p \in Calls, CancelHandler(p) PROVE Linked'
    BY <1>2 DEF CancelHandler
  <1>3. ASSUME NEW p \in Calls, call[p].pc \in {"starting", "asking"},
               Submit(p, call[p].tool), UNCHANGED <<server, sessions, admin>>
        PROVE  Linked'
    BY <1>3 DEF Submit
  <1>4. ASSUME NEW p \in Calls, Acquire(p) PROVE Linked'
    <2>1. CASE Callable(req[p].tool)
      <3> DEFINE c == server.client
                 x == [sessions[c] EXCEPT !.asked = @ \cup {req[p].tool}]
      <3>1. c \in 1 .. Len(sessions) /\ req[p].tool = sessions[c].generation /\ req[p].tool \in Nat
        BY <2>1 DEF Callable, RequestType
      <3>2. sessions' = [sessions EXCEPT ![c] = x]
        BY <1>4, <2>1 DEF Acquire
      <3>3. sessions[c] \in SessionType /\ x \in SessionType
        BY <3>1, SessionUpdates
      <3>4. /\ x.generation = sessions[c].generation /\ x.uncertain = sessions[c].uncertain
            /\ x.asked \subseteq {x.generation}
        BY <3>1, <3>3 DEF SessionType
      <3> HIDE DEF x
      <3>5. /\ Len(sessions') = Len(sessions) /\ sessions'[c] = x
            /\ \A i \in 1 .. Len(sessions) : i # c => sessions'[i] = sessions[i]
        BY <3>1, <3>2, <3>3, SessionUpdates
      <3>6. \A i \in 1 .. Len(sessions) :
               /\ sessions'[i].generation = sessions[i].generation
               /\ sessions'[i].uncertain = sessions[i].uncertain
               /\ sessions'[i].asked \subseteq {sessions'[i].generation}
        BY <3>4, <3>5
      <3>7. /\ req' = [req EXCEPT ![p].pc = "sent"]
            /\ server' = [server EXCEPT !.owner = p] /\ admin' = admin
            /\ server.owner = Free
        BY <1>4, <2>1 DEF Acquire
      <3>8. p # Admin /\ p # Free /\ Admin # Free
        OBVIOUS
      <3>9. \A q \in Calls : q # p => req'[q] = req[q]
        BY <3>7
      <3>10. \A q \in Calls : req[q].pc \notin {"sent", "closing"}
        BY <3>7
      <3>11. /\ server'.client = c /\ server'.catalog = server.catalog
             /\ server'.registry = server.registry /\ server'.status = server.status
             /\ server'.owner = p
        BY <3>7 DEF ServerType
      <3>12. admin.pc \notin {"dropping", "connect", "connecting", "discard"}
        BY <3>7, <3>8
      <3>13. c # 0
        BY <2>1 DEF Callable
      <3>14. QED
        BY <3>1, <3>5, <3>6, <3>7, <3>9, <3>10, <3>11, <3>12, <3>13
    <2>2. CASE ~Callable(req[p].tool)
      <3>1. req' = Requested(p, "expected") /\ UNCHANGED <<server, sessions, admin>>
        BY <1>4, <2>2 DEF Acquire
      <3>2. QED
        BY <3>1, OneEnds
    <2>3. QED
      BY <2>1, <2>2
  <1>5. ASSUME NEW p \in Calls, CancelLocked(p) PROVE Linked'
    BY <1>5, OneEnds DEF CancelLocked
  <1>6. ASSUME NEW p \in Calls, GiveUp(p) PROVE Linked'
    <2> DEFINE c == server.client
               x == [sessions[c] EXCEPT !.uncertain = TRUE]
    <2>1. c \in 1 .. Len(sessions) /\ server.owner = p
      BY <1>6 DEF GiveUp, ServerType
    <2>2. sessions' = [sessions EXCEPT ![c] = x]
      BY <1>6 DEF GiveUp
    <2>3. sessions[c] \in SessionType /\ x \in SessionType
      BY <2>1, SessionUpdates
    <2>4. x.generation = sessions[c].generation /\ x.asked = sessions[c].asked
      BY <2>3 DEF SessionType
    <2> HIDE DEF x
    <2>5. /\ Len(sessions') = Len(sessions) /\ sessions'[c] = x
          /\ \A i \in 1 .. Len(sessions) : i # c => sessions'[i] = sessions[i]
      BY <2>1, <2>2, <2>3, SessionUpdates
    <2>6. \A i \in 1 .. Len(sessions) : sessions'[i].asked \subseteq {sessions'[i].generation}
      BY <2>4, <2>5
    <2>7. /\ server'.client = 0 /\ server'.catalog = 0 /\ server'.registry = 0
          /\ server'.owner = server.owner
      BY <1>6 DEF GiveUp, Invalidated, ServerType
    <2>8. admin' = admin /\ admin.pc \notin {"dropping", "connect", "connecting", "discard"}
      BY <1>6, <2>1 DEF GiveUp
    <2>9. /\ \A q \in Calls : q # p => req'[q] = req[q] /\ req[q].pc # "sent"
          /\ req'[p].pc = "closing"
      BY <1>6, <2>1 DEF GiveUp
    <2>10. QED
      BY <2>1, <2>5, <2>6, <2>7, <2>8, <2>9
  <1>7. ASSUME NEW p \in Calls, CallClosed(p) PROVE Linked'
    <2>1. server'.owner = Free /\ server.owner = p /\ p # Admin
      BY <1>7 DEF CallClosed, ServerType
    <2>2. /\ server'.client = server.client /\ server'.status = server.status
          /\ server'.catalog = server.catalog /\ server'.registry = server.registry
      BY <1>7 DEF CallClosed, ServerType
    <2>3. \A q \in Calls : req'[q].pc \notin {"sent", "closing"}
      BY <1>7, <2>1, OneEnds DEF CallClosed
    <2>4. QED
      BY <1>7, <2>1, <2>2, <2>3 DEF CallClosed
  <1>8. ASSUME NEW p \in Calls, Reply(p) PROVE Linked'
    <2>1. server'.owner = Free /\ server.owner = p /\ p # Admin
      BY <1>8 DEF Reply, ServerType
    <2>2. /\ server'.client = server.client /\ server'.status = server.status
          /\ server'.catalog = server.catalog /\ server'.registry = server.registry
      BY <1>8 DEF Reply, ServerType
    <2>3. \A q \in Calls : req'[q].pc \notin {"sent", "closing"}
      BY <1>8, <2>1, OneEnds DEF Reply
    <2>4. QED
      BY <1>8, <2>1, <2>2, <2>3 DEF Reply
  <1>9. CASE AdminAcquire
    <2>1. server.owner = Free /\ \A q \in Calls : req[q].pc \notin {"sent", "closing"}
      BY <1>9 DEF AdminAcquire
    <2>2. CASE admin.op = "start" /\ server.effective /\ server.client # 0
      BY <1>9, <2>2 DEF AdminAcquire, AdminIdle, AdminType
    <2>3. CASE admin.op = "start" /\ server.effective /\ server.client = 0
      <3>1. admin'.pc = "connect" /\ server' = [server EXCEPT !.owner = Admin]
        BY <1>9, <2>3 DEF AdminAcquire, AdminType
      <3>2. QED
        BY <1>9, <2>1, <2>3, <3>1 DEF AdminAcquire
    <2>4. CASE ~(admin.op = "start" /\ server.effective)
      <3>1. admin'.pc = "dropping" /\ server' = [Invalidated(server) EXCEPT !.owner = Admin]
        BY <1>9, <2>4 DEF AdminAcquire, AdminType
      <3>2. /\ server'.client = 0 /\ server'.catalog = 0 /\ server'.registry = 0
            /\ server'.owner = Admin
        BY <3>1 DEF Invalidated, ServerType
      <3>3. QED
        BY <1>9, <2>1, <3>1, <3>2 DEF AdminAcquire
    <2>5. QED
      BY <2>2, <2>3, <2>4
  <1>10. CASE Dropped
    <2>1. /\ server.owner = Admin /\ server.client = 0
          /\ \A q \in Calls : req[q].pc \notin {"sent", "closing"}
      BY <1>10 DEF Dropped
    <2>2. /\ server'.client = 0 /\ server'.catalog = 0 /\ server'.registry = 0
          /\ admin'.pc \in {"idle", "connect"} /\ (admin'.pc = "connect" => server'.owner = Admin)
      BY <1>10, <2>1 DEF Dropped, Settled, AdminIdle, AdminType, ServerType
    <2>3. QED
      BY <1>10, <2>1, <2>2 DEF Dropped
  <1>11. CASE Connect
    <2>1. /\ server.owner = Admin /\ server.client = 0
          /\ \A q \in Calls : req[q].pc \notin {"sent", "closing"}
      BY <1>11 DEF Connect
    <2>2. CASE \E s \in DOMAIN sessions : sessions[s].loading
      <3>1. /\ server'.client = 0 /\ server'.catalog = 0 /\ server'.registry = 0
            /\ admin'.pc = "idle"
        BY <1>11, <2>2 DEF Connect, AdminIdle, Invalidated, AdminType, ServerType
      <3>2. sessions' = sessions /\ req' = req
        BY <1>11, <2>2 DEF Connect
      <3>3. QED
        BY <2>1, <3>1, <3>2
    <2>3. CASE ~\E s \in DOMAIN sessions : sessions[s].loading
      <3> DEFINE x == Connection(server.generation + 1)
      <3>1. /\ server' = server /\ req' = req /\ admin'.pc = "connecting"
            /\ sessions' = Append(sessions, x)
        BY <1>11, <2>3 DEF Connect, AdminType
      <3>2. x \in SessionType /\ ~x.uncertain /\ x.asked = {}
        BY DEF Connection, SessionType, ServerType
      <3> HIDE DEF x
      <3>3. /\ Len(sessions') = Len(sessions) + 1 /\ sessions'[Len(sessions')] = x
            /\ \A i \in 1 .. Len(sessions) : sessions'[i] = sessions[i]
        BY <3>1, <3>2
      <3>4. \A i \in 1 .. Len(sessions') : sessions'[i].asked \subseteq {sessions'[i].generation}
        BY <3>2, <3>3
      <3>5. QED
        BY <2>1, <3>1, <3>2, <3>3, <3>4
    <2>4. QED
      BY <2>2, <2>3
  <1>12. CASE Publish
    <2> DEFINE n == Len(sessions)
               x == [sessions[n] EXCEPT !.loading = FALSE]
    <2>1. /\ server.owner = Admin /\ server.client = 0
          /\ \A q \in Calls : req[q].pc \notin {"sent", "closing"}
          /\ n \in 1 .. Len(sessions) /\ ~sessions[n].uncertain
      BY <1>12 DEF Publish
    <2>2. sessions' = [sessions EXCEPT ![n] = x] /\ req' = req
      BY <1>12 DEF Publish
    <2>3. sessions[n] \in SessionType /\ x \in SessionType
      BY <2>1, SessionUpdates
    <2>4. /\ x.generation = sessions[n].generation /\ x.asked = sessions[n].asked
          /\ x.uncertain = sessions[n].uncertain
      BY <2>3 DEF SessionType
    <2> HIDE DEF x
    <2>5. /\ Len(sessions') = n /\ sessions'[n] = x
          /\ \A i \in 1 .. Len(sessions) : i # n => sessions'[i] = sessions[i]
      BY <2>1, <2>2, <2>3, SessionUpdates
    <2>6. \A i \in 1 .. Len(sessions) : sessions'[i].asked \subseteq {sessions'[i].generation}
      BY <2>4, <2>5
    <2>7. CASE admin'.pc = "discard" /\ server' = server
      BY <2>1, <2>2, <2>5, <2>6, <2>7
    <2>8. ASSUME admin'.pc = "idle",
                 server' = [server EXCEPT !.generation = sessions[n].generation, !.client = n,
                              !.catalog = sessions[n].generation,
                              !.registry = sessions[n].generation,
                              !.status = "connected", !.owner = Free]
          PROVE  Linked'
      <3>1. /\ server'.client = n /\ server'.status = "connected"
            /\ server'.catalog = sessions[n].generation
            /\ server'.registry = sessions[n].generation
        BY <2>8 DEF ServerType
      <3>2. sessions'[n].generation = sessions[n].generation /\ ~sessions'[n].uncertain
        BY <2>1, <2>4, <2>5
      <3>3. n # 0 /\ n \in 0 .. Len(sessions')
        BY <2>1, <2>5
      <3>4. \A q \in Calls : req'[q].pc \notin {"sent", "closing"}
        BY <2>1, <2>2
      <3>5. \A i \in 1 .. Len(sessions') : sessions'[i].asked \subseteq {sessions'[i].generation}
        BY <2>5, <2>6
      <3>6. admin'.pc \notin {"dropping", "connect", "connecting", "discard"}
        BY <2>8
      <3> HIDE DEF n
      <3>7. QED
        BY <3>1, <3>2, <3>3, <3>4, <3>5, <3>6
    <2>9. \/ admin'.pc = "discard" /\ server' = server
          \/ (/\ admin'.pc = "idle"
              /\ server' = [server EXCEPT !.generation = sessions[n].generation, !.client = n,
                               !.catalog = sessions[n].generation,
                               !.registry = sessions[n].generation,
                               !.status = "connected", !.owner = Free])
      BY <1>12 DEF Publish, AdminIdle, AdminType
    <2>10. QED
      BY <2>7, <2>8, <2>9
  <1>13. CASE ConnectTimesOut
    BY <1>13 DEF ConnectTimesOut
  <1>14. CASE Discarded
    <2>1. /\ server.owner = Admin /\ \A q \in Calls : req[q].pc \notin {"sent", "closing"}
      BY <1>14 DEF Discarded
    <2>2. server'.client = 0 /\ server'.catalog = 0 /\ server'.registry = 0
      BY <1>14 DEF Discarded, Invalidated, ServerType
    <2>3. admin'.pc = "idle"
      BY <1>14 DEF Discarded, AdminIdle, AdminType
    <2>4. QED
      BY <1>14, <2>1, <2>2, <2>3 DEF Discarded
  <1>15. CASE LateLoad
    <2>1. PICK s \in DOMAIN sessions : sessions' = [sessions EXCEPT ![s].loading = FALSE]
      BY <1>15 DEF LateLoad
    <2> DEFINE x == [sessions[s] EXCEPT !.loading = FALSE]
    <2>2. s \in 1 .. Len(sessions) /\ sessions' = [sessions EXCEPT ![s] = x]
      BY <2>1
    <2>3. sessions[s] \in SessionType /\ x \in SessionType
      BY <2>2, SessionUpdates
    <2>4. /\ x.generation = sessions[s].generation /\ x.asked = sessions[s].asked
          /\ x.uncertain = sessions[s].uncertain
      BY <2>3 DEF SessionType
    <2> HIDE DEF x
    <2>5. /\ Len(sessions') = Len(sessions) /\ sessions'[s] = x
          /\ \A i \in 1 .. Len(sessions) : i # s => sessions'[i] = sessions[i]
      BY <2>2, <2>3, SessionUpdates
    <2>6. \A i \in 1 .. Len(sessions) :
             /\ sessions'[i].generation = sessions[i].generation
             /\ sessions'[i].uncertain = sessions[i].uncertain
             /\ sessions'[i].asked \subseteq {sessions'[i].generation}
      BY <2>4, <2>5
    <2>7. UNCHANGED <<server, req>> /\ admin' = admin
      BY <1>15 DEF LateLoad
    <2>8. QED
      BY <2>5, <2>6, <2>7
  <1>16. ASSUME NEW order \in AdminOps, Ask(order) PROVE Linked'
    BY <1>16 DEF Ask
  <1>17. QED
    BY <1>1, <1>2, <1>3, <1>4, <1>5, <1>6, <1>7, <1>8, <1>9, <1>10, <1>11, <1>12, <1>13,
       <1>14, <1>15, <1>16, ManagerCases DEF ManagerCall, ManagerAdmin

-----------------------------------------------------------------------------

RunSteps == {"none", "record", "spawn", "watch", "late", "drain", "reap", "term", "grace",
             "ended"}

\* The runner moves on, for its call alone.
LEMMA GoEffect ==
    ASSUME run \in [Calls -> RunType], NEW p \in Calls, NEW at \in RunSteps, Go(p, at)
    PROVE  /\ run' \in [Calls -> RunType] /\ run'[p].pc = at
           /\ \A q \in Calls : q # p => run'[q] = run[q]
  BY DEF Go, RunType, RunSteps

\* The runner ends, for its call alone.
LEMMA EndedEffect ==
    ASSUME run \in [Calls -> RunType], NEW p \in Calls,
           NEW res \in {"none", "ok", "expected", "broken", "cancelled"}, Ended(p, res)
    PROVE  /\ run' \in [Calls -> RunType] /\ run'[p].pc = "ended"
           /\ \A q \in Calls : q # p => run'[q] = run[q]
  BY DEF Ended, NoRun, RunType

\* The runner cleans up, for its call alone.
LEMMA CleanupEffect ==
    ASSUME run \in [Calls -> RunType], NEW p \in Calls,
           NEW why \in {"ok", "timeout", "cancelled", "broken"}, Cleanup(p, why)
    PROVE  /\ run' \in [Calls -> RunType] /\ run'[p].pc \in {"late", "term"}
           /\ \A q \in Calls : q # p => run'[q] = run[q]
  BY DEF Cleanup, RunType

\* What a cleanup answers.
LEMMA VerdictType ==
    ASSUME run \in [Calls -> RunType], NEW p \in Calls
    PROVE  Verdict(p) \in {"ok", "expected", "broken", "cancelled"}
  BY DEF Verdict, RunType

\* A group that is gone.
LEMMA GoneType ==
    /\ Gone \in GroupType /\ Gone.root = "none" /\ Gone.kin = "none" /\ Gone.sup = "dead"
    /\ \A g \in GroupType : /\ Killed(g) \in GroupType /\ Killed(g).root = "none"
                            /\ Killed(g).kin = "none" /\ Killed(g).sup = "dead"
  BY DEF Gone, Killed, NoGroup, GroupType

\* Every step keeps the types of runners and groups.
LEMMA ProcessTypeStep == ASSUME ExecutorTypes, ProcessTypes, [Next]_vars PROVE ProcessTypes'
  <1> USE DEF ProcessTypes
  <1>1. CASE UNCHANGED <<processVars, crashed>>
    BY <1>1 DEF processVars
  <1>2. CASE Crash /\ UNCHANGED processVars
    BY <1>2 DEF Crash, processVars
  <1>3. ASSUME NEW p \in Calls, CancelHandler(p), crashed' = crashed PROVE ProcessTypes'
    <2>1. (run[p].pc \notin {"none", "ended"}) \in BOOLEAN
      OBVIOUS
    <2>2. ASSUME NEW b \in BOOLEAN PROVE [run EXCEPT ![p].cancel = b] \in [Calls -> RunType]
      BY DEF RunType
    <2>3. QED
      BY <1>3, <2>1, <2>2 DEF CancelHandler
  <1>4. ASSUME NEW p \in Calls, call[p].pc \in {"starting", "asking"},
               run' = [run EXCEPT ![p].pc = "record"], UNCHANGED <<group, crashed>>
        PROVE  ProcessTypes'
    BY <1>4 DEF RunType
  <1>5. ASSUME NEW p \in Calls, Admit(p), crashed' = crashed PROVE ProcessTypes'
    <2>1. CASE Go(p, "spawn") /\ group' = [group EXCEPT ![p].sup = "pending"]
      <3>1. run' \in [Calls -> RunType]
        BY <2>1, GoEffect DEF RunSteps
      <3>2. group' \in [Calls -> GroupType]
        BY <2>1 DEF GroupType
      <3>3. QED
        BY <1>5, <3>1, <3>2
    <2>2. CASE (\E res \in {"expected", "broken"} : Ended(p, res)) /\ UNCHANGED group
      BY <1>5, <2>2, EndedEffect
    <2>3. QED
      BY <1>5, <2>1, <2>2 DEF Admit
  <1>6. ASSUME NEW p \in Calls, AdmitCancelled(p), crashed' = crashed PROVE ProcessTypes'
    BY <1>6, EndedEffect DEF AdmitCancelled
  <1>7. ASSUME NEW p \in Calls, CommandTimesOut(p), crashed' = crashed PROVE ProcessTypes'
    BY <1>7, CleanupEffect DEF CommandTimesOut
  <1>8. ASSUME NEW p \in Calls, RunCancelled(p), crashed' = crashed PROVE ProcessTypes'
    BY <1>8, CleanupEffect DEF RunCancelled
  <1>9. ASSUME NEW p \in Calls, LateGivesUp(p), crashed' = crashed PROVE ProcessTypes'
    BY <1>9, EndedEffect, VerdictType DEF LateGivesUp
  <1>10. ASSUME NEW p \in Calls, SeesResult(p), crashed' = crashed PROVE ProcessTypes'
    BY <1>10, GoEffect, CleanupEffect DEF SeesResult, RunSteps
  <1>11. ASSUME NEW p \in Calls, Drained(p), crashed' = crashed PROVE ProcessTypes'
    BY <1>11, GoEffect, CleanupEffect DEF Drained, RunSteps
  <1>12. ASSUME NEW p \in Calls, Reaped(p), crashed' = crashed PROVE ProcessTypes'
    <2>1. CASE Exists(p)
      BY <1>12, <2>1, CleanupEffect DEF Reaped
    <2>2. CASE ~Exists(p)
      BY <1>12, <2>2, EndedEffect DEF Reaped
    <2>3. QED
      BY <2>1, <2>2
  <1>13. ASSUME NEW p \in Calls, SendTerm(p), crashed' = crashed PROVE ProcessTypes'
    <2>1. run' \in [Calls -> RunType]
      BY <1>13, GoEffect DEF SendTerm, RunSteps
    <2>2. group' \in [Calls -> GroupType]
      <3>1. PICK sup \in {"none", "pending", "born", "watch", "closing", "dead"},
                 root \in {"none", "alive"}, kin \in {"none", "alive"} :
               group' = [group EXCEPT ![p].sup = sup, ![p].root = root, ![p].kin = kin]
        <4>1. /\ group[p].sup \in {"none", "pending", "born", "watch", "closing", "dead"}
              /\ group[p].root \in {"none", "alive"} /\ group[p].kin \in {"none", "alive"}
          BY DEF GroupType
        <4>2. QED
          BY <1>13, <4>1 DEF SendTerm
      <3>2. [group[p] EXCEPT !.sup = sup, !.root = root, !.kin = kin] \in GroupType
        BY DEF GroupType
      <3>3. group' = [group EXCEPT ![p] =
                         [group[p] EXCEPT !.sup = sup, !.root = root, !.kin = kin]]
        BY <3>1
      <3>4. QED
        BY <3>2, <3>3
    <2>3. QED
      BY <1>13, <2>1, <2>2
  <1>14. ASSUME NEW p \in Calls, SendKill(p), crashed' = crashed PROVE ProcessTypes'
    <2>1. run' \in [Calls -> RunType]
      BY <1>14, EndedEffect, VerdictType DEF SendKill
    <2>2. group' \in [Calls -> GroupType]
      BY <1>14 DEF SendKill, Killed, Gone, NoGroup, GroupType
    <2>3. QED
      BY <1>14, <2>1, <2>2
  <1>15. ASSUME NEW p \in Calls, SpawnOrphaned(p), crashed' = crashed PROVE ProcessTypes'
    BY <1>15 DEF SpawnOrphaned, GroupType
  <1>16. ASSUME NEW p \in Calls, StartTarget(p), crashed' = crashed PROVE ProcessTypes'
    <2>1. CASE group' = [group EXCEPT ![p] = Gone]
      BY <1>16, <2>1, GoneType DEF StartTarget
    <2>2. CASE group' = [group EXCEPT ![p] = [@ EXCEPT !.sup = "watch", !.root = "alive"]]
      BY <1>16, <2>2 DEF StartTarget, GroupType
    <2>3. CASE group' = [group EXCEPT ![p].sup = "dead", ![p].told = "error"]
      BY <1>16, <2>3 DEF StartTarget, GroupType
    <2>4. QED
      BY <1>16, <2>1, <2>2, <2>3 DEF StartTarget
  <1>17. ASSUME NEW p \in Calls, Watch(p), crashed' = crashed PROVE ProcessTypes'
    <2>1. CASE group' = [group EXCEPT ![p] = Killed(@)]
      BY <1>17, <2>1, GoneType DEF Watch
    <2>2. CASE group' = [group EXCEPT ![p] = [@ EXCEPT !.sup = "closing", !.told = "result"]]
      BY <1>17, <2>2 DEF Watch, GroupType
    <2>3. QED
      BY <1>17, <2>1, <2>2 DEF Watch
  <1>18. ASSUME NEW p \in Calls, CloseGroup(p), crashed' = crashed PROVE ProcessTypes'
    BY <1>18, GoneType DEF CloseGroup
  <1>19. ASSUME NEW p \in Calls, Fork(p), crashed' = crashed PROVE ProcessTypes'
    BY <1>19 DEF Fork, GroupType
  <1>20. ASSUME NEW p \in Calls, Exit(p), crashed' = crashed PROVE ProcessTypes'
    <2>1. PICK m \in {"root", "kin"} : group' = [group EXCEPT ![p][m] = "none"]
      BY <1>20 DEF Exit, Members
    <2>2. CASE m = "root"
      BY <1>20, <2>1, <2>2 DEF Exit, GroupType
    <2>3. CASE m = "kin"
      BY <1>20, <2>1, <2>3 DEF Exit, GroupType
    <2>4. QED
      BY <2>2, <2>3
  <1>21. ASSUME NEW p \in Calls, Spawned(p), crashed' = crashed PROVE ProcessTypes'
    <2>1. run' \in [Calls -> RunType]
      BY <1>21, GoEffect DEF Spawned, RunSteps
    <2>2. group' \in [Calls -> GroupType]
      <3>1. CASE group' = [group EXCEPT ![p].sup = "born"]
        BY <3>1 DEF GroupType
      <3>2. CASE group' = [group EXCEPT ![p] = Gone]
        BY <3>2, GoneType
      <3>3. QED
        BY <1>21, <3>1, <3>2 DEF Spawned
    <2>3. QED
      BY <1>21, <2>1, <2>2
  <1>22. QED
    BY <1>1, <1>2, <1>3, <1>4, <1>5, <1>6, <1>7, <1>8, <1>9, <1>10, <1>11, <1>12, <1>13,
       <1>14, <1>15, <1>16, <1>17, <1>18, <1>19, <1>20, <1>21, ProcessCases DEF
       RunnerStep, SupervisorStep, CommandStep

\* Every step keeps each group where its runner's step allows it.
LEMMA GroupedStep == ASSUME ExecutorTypes, ProcessTypes, Unlaunched, Grouped, [Next]_vars PROVE Grouped'
  <1> USE DEF ProcessTypes, Grouped
  <1>1. CASE UNCHANGED <<processVars, crashed>>
    BY <1>1 DEF processVars
  <1>2. CASE Crash /\ UNCHANGED processVars
    BY <1>2 DEF Crash, processVars
  <1>3. ASSUME NEW p \in Calls, CancelHandler(p), crashed' = crashed PROVE Grouped'
    BY <1>3 DEF CancelHandler, RunType, GroupType, Unlaunched, NoRun, NoGroup, Gone,
       Killed, RunnerOver, Members, Exists, Go, Ended, Cleanup, Verdict, Lease
  <1>4. ASSUME NEW p \in Calls, call[p].pc \in {"starting", "asking"},
               run' = [run EXCEPT ![p].pc = "record"], UNCHANGED <<group, crashed>>
        PROVE  Grouped'
    BY <1>4 DEF RunType, GroupType, Unlaunched, NoRun, NoGroup, Gone, Killed,
       RunnerOver, Members, Exists, Go, Ended, Cleanup, Verdict, Lease
  <1>5. ASSUME NEW p \in Calls, Admit(p), crashed' = crashed PROVE Grouped'
    BY <1>5 DEF Admit, RunType, GroupType, Unlaunched, NoRun, NoGroup, Gone, Killed,
       RunnerOver, Members, Exists, Go, Ended, Cleanup, Verdict, Lease
  <1>6. ASSUME NEW p \in Calls, AdmitCancelled(p), crashed' = crashed PROVE Grouped'
    BY <1>6 DEF AdmitCancelled, RunType, GroupType, Unlaunched, NoRun, NoGroup, Gone,
       Killed, RunnerOver, Members, Exists, Go, Ended, Cleanup, Verdict, Lease
  <1>7. ASSUME NEW p \in Calls, CommandTimesOut(p), crashed' = crashed PROVE Grouped'
    BY <1>7 DEF CommandTimesOut, RunType, GroupType, Unlaunched, NoRun, NoGroup, Gone,
       Killed, RunnerOver, Members, Exists, Go, Ended, Cleanup, Verdict, Lease
  <1>8. ASSUME NEW p \in Calls, RunCancelled(p), crashed' = crashed PROVE Grouped'
    BY <1>8 DEF RunCancelled, RunType, GroupType, Unlaunched, NoRun, NoGroup, Gone,
       Killed, RunnerOver, Members, Exists, Go, Ended, Cleanup, Verdict, Lease
  <1>9. ASSUME NEW p \in Calls, LateGivesUp(p), crashed' = crashed PROVE Grouped'
    BY <1>9 DEF LateGivesUp, RunType, GroupType, Unlaunched, NoRun, NoGroup, Gone,
       Killed, RunnerOver, Members, Exists, Go, Ended, Cleanup, Verdict, Lease
  <1>10. ASSUME NEW p \in Calls, SeesResult(p), crashed' = crashed PROVE Grouped'
    BY <1>10, GoEffect, CleanupEffect DEF SeesResult, RunSteps
  <1>11. ASSUME NEW p \in Calls, Drained(p), crashed' = crashed PROVE Grouped'
    BY <1>11, GoEffect, CleanupEffect DEF Drained, RunSteps
  <1>12. ASSUME NEW p \in Calls, Reaped(p), crashed' = crashed PROVE Grouped'
    <2>1. CASE Exists(p)
      BY <1>12, <2>1, CleanupEffect DEF Reaped
    <2>2. CASE ~Exists(p)
      <3>1. /\ group[p].sup \notin {"watch", "closing"} /\ group[p].root # "alive"
            /\ group[p].kin # "alive"
        BY <2>2 DEF Exists, Members
      <3>2. group[p].root = "none" /\ group[p].kin = "none"
        BY <3>1 DEF GroupType
      <3>3. Ended(p, "ok") /\ group' = group
        BY <1>12, <2>2 DEF Reaped
      <3>4. QED
        BY <1>12, <3>1, <3>2, <3>3, EndedEffect
    <2>3. QED
      BY <2>1, <2>2
  <1>13. ASSUME NEW p \in Calls, SendTerm(p), crashed' = crashed PROVE Grouped'
    BY <1>13 DEF SendTerm, RunType, GroupType, Unlaunched, NoRun, NoGroup, Gone, Killed,
       RunnerOver, Members, Exists, Go, Ended, Cleanup, Verdict, Lease
  <1>14. ASSUME NEW p \in Calls, SendKill(p), crashed' = crashed PROVE Grouped'
    BY <1>14 DEF SendKill, RunType, GroupType, Unlaunched, NoRun, NoGroup, Gone, Killed,
       RunnerOver, Members, Exists, Go, Ended, Cleanup, Verdict, Lease
  <1>15. ASSUME NEW p \in Calls, SpawnOrphaned(p), crashed' = crashed PROVE Grouped'
    BY <1>15 DEF SpawnOrphaned, RunType, GroupType, Unlaunched, NoRun, NoGroup, Gone,
       Killed, RunnerOver, Members, Exists, Go, Ended, Cleanup, Verdict, Lease
  <1>16. ASSUME NEW p \in Calls, StartTarget(p), crashed' = crashed PROVE Grouped'
    <2>1. CASE group' = [group EXCEPT ![p] = Gone]
      BY <1>16, <2>1, GoneType DEF StartTarget, NoGroup
    <2>2. CASE /\ Lease(p)
               /\ group' = [group EXCEPT ![p] = [@ EXCEPT !.sup = "watch", !.root = "alive"]]
      <3>1. run[p].pc \notin {"none", "ended"}
        BY <2>2 DEF Lease, RunnerOver
      <3>2. group[p].sup = "born" /\ run' = run
        BY <1>16 DEF StartTarget
      <3>3. run[p].pc # "record"
        BY <3>2 DEF NoGroup
      <3>4. QED
        BY <1>16, <2>2, <3>1, <3>2, <3>3 DEF GroupType
    <2>3. CASE group' = [group EXCEPT ![p].sup = "dead", ![p].told = "error"]
      BY <1>16, <2>3 DEF StartTarget, GroupType, NoGroup
    <2>4. QED
      BY <1>16, <2>1, <2>2, <2>3 DEF StartTarget
  <1>17. ASSUME NEW p \in Calls, Watch(p), crashed' = crashed PROVE Grouped'
    <2>1. CASE group' = [group EXCEPT ![p] = Killed(@)]
      BY <1>17, <2>1, GoneType DEF Watch, NoGroup
    <2>2. CASE /\ Lease(p)
               /\ group' = [group EXCEPT ![p] = [@ EXCEPT !.sup = "closing", !.told = "result"]]
      <3>1. run[p].pc \notin {"none", "ended"}
        BY <2>2 DEF Lease, RunnerOver
      <3>2. group[p].sup = "watch" /\ run' = run
        BY <1>17 DEF Watch
      <3>3. run[p].pc # "record"
        BY <3>2 DEF NoGroup
      <3>4. QED
        BY <1>17, <2>2, <3>1, <3>2, <3>3 DEF GroupType
    <2>3. QED
      BY <1>17, <2>1, <2>2 DEF Watch
  <1>18. ASSUME NEW p \in Calls, CloseGroup(p), crashed' = crashed PROVE Grouped'
    BY <1>18 DEF CloseGroup, RunType, GroupType, Unlaunched, NoRun, NoGroup, Gone,
       Killed, RunnerOver, Members, Exists, Go, Ended, Cleanup, Verdict, Lease
  <1>19. ASSUME NEW p \in Calls, Fork(p), crashed' = crashed PROVE Grouped'
    BY <1>19 DEF Fork, RunType, GroupType, Unlaunched, NoRun, NoGroup, Gone, Killed,
       RunnerOver, Members, Exists, Go, Ended, Cleanup, Verdict, Lease
  <1>20. ASSUME NEW p \in Calls, Exit(p), crashed' = crashed PROVE Grouped'
    BY <1>20 DEF Exit, RunType, GroupType, Unlaunched, NoRun, NoGroup, Gone, Killed,
       RunnerOver, Members, Exists, Go, Ended, Cleanup, Verdict, Lease
  <1>21. ASSUME NEW p \in Calls, Spawned(p), crashed' = crashed PROVE Grouped'
    BY <1>21 DEF Spawned, RunType, GroupType, Unlaunched, NoRun, NoGroup, Gone, Killed,
       RunnerOver, Members, Exists, Go, Ended, Cleanup, Verdict, Lease
  <1>22. QED
    BY <1>1, <1>2, <1>3, <1>4, <1>5, <1>6, <1>7, <1>8, <1>9, <1>10, <1>11, <1>12, <1>13,
       <1>14, <1>15, <1>16, <1>17, <1>18, <1>19, <1>20, <1>21, ProcessCases DEF
       RunnerStep, SupervisorStep, CommandStep

-----------------------------------------------------------------------------

\* A step of the executor replaces the call's record by a plausible one, and
\* takes a success from a handler that has ended.
Retold(p) == \E c \in CallType :
    /\ Set(p, c) /\ Plausible(c, cuts') /\ c.kind = call[p].kind
    /\ cuts' \in Nat /\ cuts' >= cuts
    /\ c.outcome = "success" =>
          \/ call[p].outcome = "success"
          \/ HandlerOver(p) /\ HandlerResult(p) = "ok" /\ UNCHANGED Handlers
    /\ c.pc \in {"idle", "starting", "asking"} =>
          call[p].pc \in {"idle", "starting", "asking"} /\ UNCHANGED Handlers

\* The record of a call, one field at a time.
LEMMA CallUpdates ==
    ASSUME NEW c \in CallType
    PROVE  /\ \A at \in {"asking", "waiting", "overdue", "grace", "terminal", "bounded", "done"} :
                 [c EXCEPT !.pc = at] \in CallType
           /\ [c EXCEPT !.pc = "waiting", !.tool = 0] \in CallType
           /\ [c EXCEPT !.cut = TRUE] \in CallType
           /\ [c EXCEPT !.late = TRUE] \in CallType
           /\ \A out \in {"success", "error", "broken"} :
                 [c EXCEPT !.pc = "audit", !.outcome = out] \in CallType
           /\ [c EXCEPT !.pc = "cancel_audit", !.outcome = "cancelled"] \in CallType
           /\ \A answer \in {"success", "error", "raised", "cancelled"} :
                 [c EXCEPT !.pc = "done", !.answer = answer] \in CallType
           /\ \A audit \in {"lost", "success", "error", "cancelled"} : [c EXCEPT !.audit = audit] \in CallType
           /\ \A t \in {"none", "completed", "failed", "cancelled"} :
                 [c EXCEPT !.terminal = t] \in CallType
  BY DEF CallType

\* Counting a cancellation.
LEMMA CutCounts ==
    ASSUME cuts \in Nat, UNCHANGED cuts \/ Cut
    PROVE  cuts' \in Nat /\ cuts' >= cuts /\ (Cut => cuts' > 0) /\ (cuts > 0 => cuts' > 0)
  BY DEF Cut

\* What an activity says is one of the words for it.
LEMMA AuditType ==
    ASSUME NEW c \in CallType, Plausible(c, cuts), c.pc = "audit"
    PROVE  Activity[c.outcome] \in {"success", "error"}
  BY DEF Plausible, Activity

\* So is what a terminal event says.
LEMMA EventType ==
    ASSUME NEW c \in CallType, c.outcome # "none"
    PROVE  Event[c.outcome] \in {"completed", "failed", "cancelled"}
  BY DEF CallType, Event

\* Every step of the executor but the first tells a plausible story.
LEMMA Tells ==
    ASSUME ExecutorTypes, Stories, NEW p \in Calls, ExecutorStep(p) \/ Others(p)
    PROVE  Begin(p) \/ Retold(p)
  <1> DEFINE c == call[p]
  <1>1. c \in CallType /\ Plausible(c, cuts) /\ cuts \in Nat
    BY DEF ExecutorTypes, Stories
  <1>2. UNCHANGED cuts \/ Cut
    BY DEF ExecutorStep, Others, Started, StartedFails, StartedCut, Asked, AskedCut,
       Returns, Overdue, OverdueCut, OverdueEnds, WaitCut, GraceEnds, Audit, AuditCut,
       Terminal, TerminalCut, CancelAudit, Bounded, Begin
  <1>3. CASE Started(p)
    <2>1. ASSUME NEW out \in {"error", "broken"}, Set(p, [c EXCEPT !.pc = "audit", !.outcome = out]) PROVE Retold(p)
      <3> DEFINE d == [c EXCEPT !.pc = "audit", !.outcome = out]
      <3>1. d \in CallType
        BY <1>1, <2>1, CallUpdates
      <3>2. /\ c.pc = "starting"
            /\ cuts' \in Nat /\ cuts' >= cuts /\ TRUE
        BY <1>3, <1>1, <1>2, <2>1, CutCounts DEF Started
      <3>3. /\ Plausible(d, cuts') /\ d.kind = c.kind
            /\ d.pc \notin {"idle", "starting", "asking"}
            /\ d.outcome = "success" => c.outcome = "success"
        BY <1>1, <2>1, <3>2 DEF Plausible, CallType
      <3>4. Set(p, d)
        BY <1>3, <2>1 DEF Started
      <3> HIDE DEF d
      <3>5. QED
        BY <3>1, <3>2, <3>3, <3>4 DEF Retold
    <2>2. ASSUME Set(p, [c EXCEPT !.pc = "waiting", !.tool = 0]) PROVE Retold(p)
      <3> DEFINE d == [c EXCEPT !.pc = "waiting", !.tool = 0]
      <3>1. d \in CallType
        BY <1>1, <2>2, CallUpdates
      <3>2. /\ c.pc = "starting"
            /\ cuts' \in Nat /\ cuts' >= cuts /\ TRUE
        BY <1>3, <1>1, <1>2, <2>2, CutCounts DEF Started
      <3>3. /\ Plausible(d, cuts') /\ d.kind = c.kind
            /\ d.pc \notin {"idle", "starting", "asking"}
            /\ d.outcome = "success" => c.outcome = "success"
        BY <1>1, <2>2, <3>2 DEF Plausible, CallType
      <3>4. Set(p, d)
        BY <1>3, <2>2 DEF Started
      <3> HIDE DEF d
      <3>5. QED
        BY <3>1, <3>2, <3>3, <3>4 DEF Retold
    <2>3. ASSUME Set(p, [c EXCEPT !.pc = "asking"]), UNCHANGED Handlers PROVE Retold(p)
      <3> DEFINE d == [c EXCEPT !.pc = "asking"]
      <3>1. d \in CallType
        BY <1>1, <2>3, CallUpdates
      <3>2. /\ c.pc = "starting"
            /\ cuts' \in Nat /\ cuts' >= cuts /\ TRUE
        BY <1>3, <1>1, <1>2, <2>3, CutCounts DEF Started
      <3>3. /\ Plausible(d, cuts') /\ d.kind = c.kind
            /\ d.pc = "asking"
            /\ d.outcome = "success" => c.outcome = "success"
        BY <1>1, <2>3, <3>2 DEF Plausible, CallType
      <3>4. Set(p, d) /\ UNCHANGED Handlers
        BY <1>3, <2>3 DEF Started
      <3> HIDE DEF d
      <3>5. QED
        BY <3>1, <3>2, <3>3, <3>4 DEF Retold
    <2>4. QED
      BY <1>3, <2>1, <2>2, <2>3 DEF Started, Launch
  <1>4. CASE StartedFails(p)
    <2>1. ASSUME Set(p, [c EXCEPT !.pc = "done", !.answer = "raised"]) PROVE Retold(p)
      <3> DEFINE d == [c EXCEPT !.pc = "done", !.answer = "raised"]
      <3>1. d \in CallType
        BY <1>1, <2>1, CallUpdates
      <3>2. /\ c.pc = "starting"
            /\ cuts' \in Nat /\ cuts' >= cuts /\ TRUE
        BY <1>4, <1>1, <1>2, <2>1, CutCounts DEF StartedFails
      <3>3. /\ Plausible(d, cuts') /\ d.kind = c.kind
            /\ d.pc \notin {"idle", "starting", "asking"}
            /\ d.outcome = "success" => c.outcome = "success"
        BY <1>1, <2>1, <3>2 DEF Plausible, CallType
      <3>4. Set(p, d)
        BY <1>4, <2>1 DEF StartedFails
      <3> HIDE DEF d
      <3>5. QED
        BY <3>1, <3>2, <3>3, <3>4 DEF Retold
    <2>2. QED
      BY <1>4, <2>1 DEF StartedFails, Answered
  <1>5. CASE StartedCut(p)
    <2>1. ASSUME Set(p, [c EXCEPT !.pc = "cancel_audit", !.outcome = "cancelled"]), Cut PROVE Retold(p)
      <3> DEFINE d == [c EXCEPT !.pc = "cancel_audit", !.outcome = "cancelled"]
      <3>1. d \in CallType
        BY <1>1, <2>1, CallUpdates
      <3>2. /\ c.pc = "starting"
            /\ cuts' \in Nat /\ cuts' >= cuts /\ cuts' > 0
        BY <1>5, <1>1, <1>2, <2>1, CutCounts DEF StartedCut
      <3>3. /\ Plausible(d, cuts') /\ d.kind = c.kind
            /\ d.pc \notin {"idle", "starting", "asking"}
            /\ d.outcome = "success" => c.outcome = "success"
        BY <1>1, <2>1, <3>2 DEF Plausible, CallType
      <3>4. Set(p, d)
        BY <1>5, <2>1 DEF StartedCut
      <3> HIDE DEF d
      <3>5. QED
        BY <3>1, <3>2, <3>3, <3>4 DEF Retold
    <2>2. QED
      BY <1>5, <2>1 DEF StartedCut, CutShort
  <1>6. CASE Asked(p)
    <2>1. ASSUME NEW out \in {"error", "broken"}, Set(p, [c EXCEPT !.pc = "audit", !.outcome = out]) PROVE Retold(p)
      <3> DEFINE d == [c EXCEPT !.pc = "audit", !.outcome = out]
      <3>1. d \in CallType
        BY <1>1, <2>1, CallUpdates
      <3>2. /\ c.pc = "asking"
            /\ cuts' \in Nat /\ cuts' >= cuts /\ TRUE
        BY <1>6, <1>1, <1>2, <2>1, CutCounts DEF Asked
      <3>3. /\ Plausible(d, cuts') /\ d.kind = c.kind
            /\ d.pc \notin {"idle", "starting", "asking"}
            /\ d.outcome = "success" => c.outcome = "success"
        BY <1>1, <2>1, <3>2 DEF Plausible, CallType
      <3>4. Set(p, d)
        BY <1>6, <2>1 DEF Asked
      <3> HIDE DEF d
      <3>5. QED
        BY <3>1, <3>2, <3>3, <3>4 DEF Retold
    <2>2. ASSUME Set(p, [c EXCEPT !.pc = "waiting", !.tool = 0]) PROVE Retold(p)
      <3> DEFINE d == [c EXCEPT !.pc = "waiting", !.tool = 0]
      <3>1. d \in CallType
        BY <1>1, <2>2, CallUpdates
      <3>2. /\ c.pc = "asking"
            /\ cuts' \in Nat /\ cuts' >= cuts /\ TRUE
        BY <1>6, <1>1, <1>2, <2>2, CutCounts DEF Asked
      <3>3. /\ Plausible(d, cuts') /\ d.kind = c.kind
            /\ d.pc \notin {"idle", "starting", "asking"}
            /\ d.outcome = "success" => c.outcome = "success"
        BY <1>1, <2>2, <3>2 DEF Plausible, CallType
      <3>4. Set(p, d)
        BY <1>6, <2>2 DEF Asked
      <3> HIDE DEF d
      <3>5. QED
        BY <3>1, <3>2, <3>3, <3>4 DEF Retold
    <2>3. QED
      BY <1>6, <2>1, <2>2 DEF Asked, Outcome, Launch
  <1>7. CASE AskedCut(p)
    <2>1. ASSUME Set(p, [c EXCEPT !.pc = "cancel_audit", !.outcome = "cancelled"]), Cut PROVE Retold(p)
      <3> DEFINE d == [c EXCEPT !.pc = "cancel_audit", !.outcome = "cancelled"]
      <3>1. d \in CallType
        BY <1>1, <2>1, CallUpdates
      <3>2. /\ c.pc = "asking"
            /\ cuts' \in Nat /\ cuts' >= cuts /\ cuts' > 0
        BY <1>7, <1>1, <1>2, <2>1, CutCounts DEF AskedCut
      <3>3. /\ Plausible(d, cuts') /\ d.kind = c.kind
            /\ d.pc \notin {"idle", "starting", "asking"}
            /\ d.outcome = "success" => c.outcome = "success"
        BY <1>1, <2>1, <3>2 DEF Plausible, CallType
      <3>4. Set(p, d)
        BY <1>7, <2>1 DEF AskedCut
      <3> HIDE DEF d
      <3>5. QED
        BY <3>1, <3>2, <3>3, <3>4 DEF Retold
    <2>2. QED
      BY <1>7, <2>1 DEF AskedCut, CutShort
  <1>8. CASE Returns(p)
    <2>1. ASSUME NEW out \in OutcomeOf(HandlerResult(p)), Set(p, [c EXCEPT !.pc = "audit", !.outcome = out]) PROVE Retold(p)
      <3> DEFINE d == [c EXCEPT !.pc = "audit", !.outcome = out]
      <3>1. d \in CallType
        BY <1>1, <2>1, CallUpdates DEF OutcomeOf
      <3>2. /\ c.pc = "waiting" /\ HandlerOver(p) /\ UNCHANGED Handlers
            /\ out \in {"success", "error", "broken"}
            /\ out = "success" => HandlerResult(p) = "ok"
            /\ cuts' \in Nat /\ cuts' >= cuts /\ TRUE
        BY <1>8, <1>1, <1>2, <2>1, CutCounts DEF Returns, OutcomeOf
      <3>3. /\ Plausible(d, cuts') /\ d.kind = c.kind
            /\ d.pc \notin {"idle", "starting", "asking"}
            /\ d.outcome = "success" => HandlerOver(p) /\ HandlerResult(p) = "ok"
        BY <1>1, <2>1, <3>2 DEF Plausible, CallType
      <3>4. Set(p, d) /\ UNCHANGED Handlers
        BY <1>8, <2>1 DEF Returns
      <3> HIDE DEF d
      <3>5. QED
        BY <3>1, <3>2, <3>3, <3>4 DEF Retold
    <2>2. QED
      BY <1>8, <2>1 DEF Returns, Outcome
  <1>9. CASE Overdue(p)
    <2>1. ASSUME Set(p, [[c EXCEPT !.pc = "overdue"] EXCEPT !.late = TRUE]) PROVE Retold(p)
      <3> DEFINE d == [[c EXCEPT !.pc = "overdue"] EXCEPT !.late = TRUE]
      <3>1. d \in CallType
        BY <1>1, <2>1, CallUpdates
      <3>2. /\ c.pc = "waiting"
            /\ cuts' \in Nat /\ cuts' >= cuts /\ TRUE
        BY <1>9, <1>1, <1>2, <2>1, CutCounts DEF Overdue
      <3>3. /\ Plausible(d, cuts') /\ d.kind = c.kind
            /\ d.pc \notin {"idle", "starting", "asking"}
            /\ d.outcome = "success" => c.outcome = "success"
        BY <1>1, <2>1, <3>2 DEF Plausible, CallType
      <3>4. Set(p, d)
        BY <1>9, <2>1 DEF Overdue
      <3> HIDE DEF d
      <3>5. QED
        BY <3>1, <3>2, <3>3, <3>4 DEF Retold
    <2>2. QED
      BY <1>9, <2>1 DEF Overdue, To
  <1>10. CASE OverdueCut(p)
    <2>1. ASSUME Set(p, [c EXCEPT !.cut = TRUE]), Cut PROVE Retold(p)
      <3> DEFINE d == [c EXCEPT !.cut = TRUE]
      <3>1. d \in CallType
        BY <1>1, <2>1, CallUpdates
      <3>2. /\ c.pc = "overdue"
            /\ cuts' \in Nat /\ cuts' >= cuts /\ cuts' > 0
        BY <1>10, <1>1, <1>2, <2>1, CutCounts DEF OverdueCut
      <3>3. /\ Plausible(d, cuts') /\ d.kind = c.kind
            /\ d.pc \notin {"idle", "starting", "asking"}
            /\ d.outcome = "success" => c.outcome = "success"
        BY <1>1, <2>1, <3>2 DEF Plausible, CallType
      <3>4. Set(p, d)
        BY <1>10, <2>1 DEF OverdueCut
      <3> HIDE DEF d
      <3>5. QED
        BY <3>1, <3>2, <3>3, <3>4 DEF Retold
    <2>2. QED
      BY <1>10, <2>1 DEF OverdueCut
  <1>11. CASE OverdueEnds(p)
    <2>1. ASSUME c.cut, Set(p, [c EXCEPT !.pc = "cancel_audit", !.outcome = "cancelled"]) PROVE Retold(p)
      <3> DEFINE d == [c EXCEPT !.pc = "cancel_audit", !.outcome = "cancelled"]
      <3>1. d \in CallType
        BY <1>1, <2>1, CallUpdates
      <3>2. /\ c.pc = "overdue"
            /\ cuts' \in Nat /\ cuts' >= cuts /\ cuts > 0
        BY <1>11, <1>1, <1>2, <2>1, CutCounts DEF OverdueEnds, Plausible
      <3>3. /\ Plausible(d, cuts') /\ d.kind = c.kind
            /\ d.pc \notin {"idle", "starting", "asking"}
            /\ d.outcome = "success" => c.outcome = "success"
        BY <1>1, <2>1, <3>2 DEF Plausible, CallType
      <3>4. Set(p, d)
        BY <1>11, <2>1 DEF OverdueEnds
      <3> HIDE DEF d
      <3>5. QED
        BY <3>1, <3>2, <3>3, <3>4 DEF Retold
    <2>2. ASSUME ~c.cut, Set(p, [c EXCEPT !.pc = "audit", !.outcome = "error"]) PROVE Retold(p)
      <3> DEFINE d == [c EXCEPT !.pc = "audit", !.outcome = "error"]
      <3>1. d \in CallType
        BY <1>1, <2>2, CallUpdates
      <3>2. /\ c.pc = "overdue"
            /\ cuts' \in Nat /\ cuts' >= cuts /\ TRUE
        BY <1>11, <1>1, <1>2, <2>2, CutCounts DEF OverdueEnds
      <3>3. /\ Plausible(d, cuts') /\ d.kind = c.kind
            /\ d.pc \notin {"idle", "starting", "asking"}
            /\ d.outcome = "success" => c.outcome = "success"
        BY <1>1, <2>2, <3>2 DEF Plausible, CallType
      <3>4. Set(p, d)
        BY <1>11, <2>2 DEF OverdueEnds
      <3> HIDE DEF d
      <3>5. QED
        BY <3>1, <3>2, <3>3, <3>4 DEF Retold
    <2>3. QED
      BY <1>11, <2>1, <2>2 DEF OverdueEnds, Outcome, CutShort, LateOutcome
  <1>12. CASE WaitCut(p)
    <2>1. ASSUME Set(p, [c EXCEPT !.pc = "grace"]), Cut PROVE Retold(p)
      <3> DEFINE d == [c EXCEPT !.pc = "grace"]
      <3>1. d \in CallType
        BY <1>1, <2>1, CallUpdates
      <3>2. /\ c.pc = "waiting"
            /\ cuts' \in Nat /\ cuts' >= cuts /\ cuts' > 0
        BY <1>12, <1>1, <1>2, <2>1, CutCounts DEF WaitCut
      <3>3. /\ Plausible(d, cuts') /\ d.kind = c.kind
            /\ d.pc \notin {"idle", "starting", "asking"}
            /\ d.outcome = "success" => c.outcome = "success"
        BY <1>1, <2>1, <3>2 DEF Plausible, CallType
      <3>4. Set(p, d)
        BY <1>12, <2>1 DEF WaitCut
      <3> HIDE DEF d
      <3>5. QED
        BY <3>1, <3>2, <3>3, <3>4 DEF Retold
    <2>2. QED
      BY <1>12, <2>1 DEF WaitCut, To
  <1>13. CASE GraceEnds(p)
    <2>1. ASSUME Set(p, [c EXCEPT !.pc = "cancel_audit", !.outcome = "cancelled"]) PROVE Retold(p)
      <3> DEFINE d == [c EXCEPT !.pc = "cancel_audit", !.outcome = "cancelled"]
      <3>1. d \in CallType
        BY <1>1, <2>1, CallUpdates
      <3>2. /\ c.pc = "grace"
            /\ cuts' \in Nat /\ cuts' >= cuts /\ cuts > 0
        BY <1>13, <1>1, <1>2, <2>1, CutCounts DEF GraceEnds, Plausible
      <3>3. /\ Plausible(d, cuts') /\ d.kind = c.kind
            /\ d.pc \notin {"idle", "starting", "asking"}
            /\ d.outcome = "success" => c.outcome = "success"
        BY <1>1, <2>1, <3>2 DEF Plausible, CallType
      <3>4. Set(p, d)
        BY <1>13, <2>1 DEF GraceEnds
      <3> HIDE DEF d
      <3>5. QED
        BY <3>1, <3>2, <3>3, <3>4 DEF Retold
    <2>2. QED
      BY <1>13, <2>1 DEF GraceEnds, CutShort
  <1>14. CASE Audit(p)
    <2>1. ASSUME NEW audit \in {Activity[c.outcome], "lost"}, c.cut,
               Set(p, [[c EXCEPT !.audit = audit] EXCEPT !.pc = "bounded"]) PROVE Retold(p)
      <3> DEFINE d == [[c EXCEPT !.audit = audit] EXCEPT !.pc = "bounded"]
      <3>1. d \in CallType
        <4>1. audit \in {"lost", "success", "error", "cancelled"}
          BY <1>14, <1>1, AuditType DEF Audit
        <4>2. [c EXCEPT !.audit = audit] \in CallType
          BY <1>1, <4>1, CallUpdates
        <4>3. QED
          BY <4>2, CallUpdates
      <3>2. /\ c.pc = "audit" /\ c.outcome \in {"success", "error", "broken"}
            /\ cuts' \in Nat /\ cuts' >= cuts /\ cuts > 0
        BY <1>14, <1>1, <1>2, <2>1, CutCounts DEF Audit, Plausible
      <3>3. /\ Plausible(d, cuts') /\ d.kind = c.kind
            /\ d.pc \notin {"idle", "starting", "asking"}
            /\ d.outcome = "success" => c.outcome = "success"
        BY <1>1, <2>1, <3>2 DEF Plausible, CallType, Activity
      <3>4. Set(p, d)
        BY <1>14, <2>1 DEF Audit
      <3> HIDE DEF d
      <3>5. QED
        BY <3>1, <3>2, <3>3, <3>4 DEF Retold
    <2>2. ASSUME ~c.cut, Set(p, [[c EXCEPT !.audit = Activity[c.outcome]] EXCEPT !.pc = "terminal"]) PROVE Retold(p)
      <3> DEFINE d == [[c EXCEPT !.audit = Activity[c.outcome]] EXCEPT !.pc = "terminal"]
      <3>1. d \in CallType
        <4>1. Activity[c.outcome] \in {"lost", "success", "error", "cancelled"}
          BY <1>14, <1>1, AuditType DEF Audit
        <4>2. [c EXCEPT !.audit = Activity[c.outcome]] \in CallType
          BY <1>1, <4>1, CallUpdates
        <4>3. QED
          BY <4>2, CallUpdates
      <3>2. /\ c.pc = "audit"
            /\ cuts' \in Nat /\ cuts' >= cuts /\ TRUE
        BY <1>14, <1>1, <1>2, <2>2, CutCounts DEF Audit
      <3>3. /\ Plausible(d, cuts') /\ d.kind = c.kind
            /\ d.pc \notin {"idle", "starting", "asking"}
            /\ d.outcome = "success" => c.outcome = "success"
        BY <1>1, <2>2, <3>2 DEF Plausible, CallType, Activity
      <3>4. Set(p, d)
        BY <1>14, <2>2 DEF Audit
      <3> HIDE DEF d
      <3>5. QED
        BY <3>1, <3>2, <3>3, <3>4 DEF Retold
    <2>3. ASSUME ~c.cut, Set(p, [[c EXCEPT !.audit = "lost"] EXCEPT !.pc = "done", !.answer = "raised"]) PROVE Retold(p)
      <3> DEFINE d == [[c EXCEPT !.audit = "lost"] EXCEPT !.pc = "done", !.answer = "raised"]
      <3>1. d \in CallType
        BY <1>1, <2>3, CallUpdates
      <3>2. /\ c.pc = "audit"
            /\ cuts' \in Nat /\ cuts' >= cuts /\ TRUE
        BY <1>14, <1>1, <1>2, <2>3, CutCounts DEF Audit
      <3>3. /\ Plausible(d, cuts') /\ d.kind = c.kind
            /\ d.pc \notin {"idle", "starting", "asking"}
            /\ d.outcome = "success" => c.outcome = "success"
        BY <1>1, <2>3, <3>2 DEF Plausible, CallType
      <3>4. Set(p, d)
        BY <1>14, <2>3 DEF Audit
      <3> HIDE DEF d
      <3>5. QED
        BY <3>1, <3>2, <3>3, <3>4 DEF Retold
    <2>4. QED
      BY <1>14, <2>1, <2>2, <2>3 DEF Audit
  <1>15. CASE AuditCut(p)
    <2>1. ASSUME Set(p, [c EXCEPT !.cut = TRUE]), Cut PROVE Retold(p)
      <3> DEFINE d == [c EXCEPT !.cut = TRUE]
      <3>1. d \in CallType
        BY <1>1, <2>1, CallUpdates
      <3>2. /\ c.pc = "audit"
            /\ cuts' \in Nat /\ cuts' >= cuts /\ cuts' > 0
        BY <1>15, <1>1, <1>2, <2>1, CutCounts DEF AuditCut
      <3>3. /\ Plausible(d, cuts') /\ d.kind = c.kind
            /\ d.pc \notin {"idle", "starting", "asking"}
            /\ d.outcome = "success" => c.outcome = "success"
        BY <1>1, <2>1, <3>2 DEF Plausible, CallType
      <3>4. Set(p, d)
        BY <1>15, <2>1 DEF AuditCut
      <3> HIDE DEF d
      <3>5. QED
        BY <3>1, <3>2, <3>3, <3>4 DEF Retold
    <2>2. QED
      BY <1>15, <2>1 DEF AuditCut
  <1>16. CASE Terminal(p)
    <2>1. ASSUME Set(p, [[c EXCEPT !.pc = "done", !.answer = AnswerOf(c.outcome)] EXCEPT !.terminal = Event[c.outcome]]) PROVE Retold(p)
      <3> DEFINE d == [[c EXCEPT !.pc = "done", !.answer = AnswerOf(c.outcome)] EXCEPT !.terminal = Event[c.outcome]]
      <3>1. d \in CallType
        <4>1. c.outcome \in {"success", "error", "broken"}
          BY <1>16, <1>1 DEF Terminal, Plausible
        <4>2. AnswerOf(c.outcome) \in {"success", "error", "raised", "cancelled"}
          BY <4>1 DEF AnswerOf
        <4>3. [c EXCEPT !.pc = "done", !.answer = AnswerOf(c.outcome)] \in CallType
          BY <1>1, <4>2, CallUpdates
        <4>4. Event[c.outcome] \in {"none", "completed", "failed", "cancelled"}
          BY <1>1, <4>1, EventType
        <4>5. QED
          BY <4>3, <4>4, CallUpdates
      <3>2. /\ c.pc = "terminal" /\ c.outcome \in {"success", "error", "broken"}
            /\ c.audit = Activity[c.outcome] /\ ~c.cut
            /\ cuts' \in Nat /\ cuts' >= cuts /\ TRUE
        BY <1>16, <1>1, <1>2, <2>1, CutCounts DEF Terminal, Plausible
      <3>3. /\ Plausible(d, cuts') /\ d.kind = c.kind
            /\ d.pc \notin {"idle", "starting", "asking"}
            /\ d.outcome = "success" => c.outcome = "success"
        BY <1>1, <2>1, <3>2 DEF Plausible, CallType, Activity, Event, AnswerOf
      <3>4. Set(p, d)
        BY <1>16, <2>1 DEF Terminal
      <3> HIDE DEF d
      <3>5. QED
        BY <3>1, <3>2, <3>3, <3>4 DEF Retold
    <2>2. ASSUME Set(p, [c EXCEPT !.pc = "done", !.answer = "raised"]) PROVE Retold(p)
      <3> DEFINE d == [c EXCEPT !.pc = "done", !.answer = "raised"]
      <3>1. d \in CallType
        BY <1>1, <2>2, CallUpdates
      <3>2. /\ c.pc = "terminal"
            /\ cuts' \in Nat /\ cuts' >= cuts /\ TRUE
        BY <1>16, <1>1, <1>2, <2>2, CutCounts DEF Terminal
      <3>3. /\ Plausible(d, cuts') /\ d.kind = c.kind
            /\ d.pc \notin {"idle", "starting", "asking"}
            /\ d.outcome = "success" => c.outcome = "success"
        BY <1>1, <2>2, <3>2 DEF Plausible, CallType
      <3>4. Set(p, d)
        BY <1>16, <2>2 DEF Terminal
      <3> HIDE DEF d
      <3>5. QED
        BY <3>1, <3>2, <3>3, <3>4 DEF Retold
    <2>3. QED
      BY <1>16, <2>1, <2>2 DEF Terminal, Answered
  <1>17. CASE TerminalCut(p)
    <2>1. ASSUME Set(p, [[c EXCEPT !.pc = "bounded"] EXCEPT !.cut = TRUE]), Cut PROVE Retold(p)
      <3> DEFINE d == [[c EXCEPT !.pc = "bounded"] EXCEPT !.cut = TRUE]
      <3>1. d \in CallType
        BY <1>1, <2>1, CallUpdates
      <3>2. /\ c.pc = "terminal"
            /\ cuts' \in Nat /\ cuts' >= cuts /\ cuts' > 0
        BY <1>17, <1>1, <1>2, <2>1, CutCounts DEF TerminalCut
      <3>3. /\ Plausible(d, cuts') /\ d.kind = c.kind
            /\ d.pc \notin {"idle", "starting", "asking"}
            /\ d.outcome = "success" => c.outcome = "success"
        BY <1>1, <2>1, <3>2 DEF Plausible, CallType
      <3>4. Set(p, d)
        BY <1>17, <2>1 DEF TerminalCut
      <3> HIDE DEF d
      <3>5. QED
        BY <3>1, <3>2, <3>3, <3>4 DEF Retold
    <2>2. QED
      BY <1>17, <2>1 DEF TerminalCut, To
  <1>18. CASE CancelAudit(p)
    <2>1. ASSUME NEW audit \in {"cancelled", "lost"},
               Set(p, [[c EXCEPT !.pc = "bounded"] EXCEPT !.audit = audit]) PROVE Retold(p)
      <3> DEFINE d == [[c EXCEPT !.pc = "bounded"] EXCEPT !.audit = audit]
      <3>1. d \in CallType
        BY <1>1, <2>1, CallUpdates
      <3>2. /\ c.pc = "cancel_audit"
            /\ cuts' \in Nat /\ cuts' >= cuts /\ cuts > 0
        BY <1>18, <1>1, <1>2, <2>1, CutCounts DEF CancelAudit, Plausible
      <3>3. /\ Plausible(d, cuts') /\ d.kind = c.kind
            /\ d.pc \notin {"idle", "starting", "asking"}
            /\ d.outcome = "success" => c.outcome = "success"
        BY <1>1, <2>1, <3>2 DEF Plausible, CallType, Activity
      <3>4. Set(p, d)
        BY <1>18, <2>1 DEF CancelAudit
      <3> HIDE DEF d
      <3>5. QED
        BY <3>1, <3>2, <3>3, <3>4 DEF Retold
    <2>2. QED
      BY <1>18, <2>1 DEF CancelAudit, To
  <1>19. CASE Bounded(p)
    <2>1. ASSUME NEW terminal \in {Event[c.outcome], "none"},
               Set(p, [[c EXCEPT !.pc = "done", !.answer = "cancelled"] EXCEPT !.terminal = terminal]) PROVE Retold(p)
      <3> DEFINE d == [[c EXCEPT !.pc = "done", !.answer = "cancelled"] EXCEPT !.terminal = terminal]
      <3>1. d \in CallType
        BY <1>1, <2>1, <1>19, EventType, CallUpdates DEF Bounded, Plausible
      <3>2. /\ c.pc = "bounded"
            /\ cuts' \in Nat /\ cuts' >= cuts /\ cuts > 0
        BY <1>19, <1>1, <1>2, <2>1, CutCounts DEF Bounded, Plausible
      <3>3. /\ Plausible(d, cuts') /\ d.kind = c.kind
            /\ d.pc \notin {"idle", "starting", "asking"}
            /\ d.outcome = "success" => c.outcome = "success"
        BY <1>1, <2>1, <3>2 DEF Plausible, CallType, Activity, Event
      <3>4. Set(p, d)
        BY <1>19, <2>1 DEF Bounded
      <3> HIDE DEF d
      <3>5. QED
        BY <3>1, <3>2, <3>3, <3>4 DEF Retold
    <2>2. QED
      BY <1>19, <2>1 DEF Bounded, Answered
  <1>20. QED
    BY <1>3, <1>4, <1>5, <1>6, <1>7, <1>8, <1>9, <1>10, <1>11, <1>12, <1>13, <1>14,
       <1>15, <1>16, <1>17, <1>18, <1>19 DEF ExecutorStep, Others

-----------------------------------------------------------------------------

\* Only the executor changes the calls.
LEMMA ExecutorCases ==
    ASSUME [Next]_vars
    PROVE  /\ work' = work
           /\ UNCHANGED <<call, cuts>> \/ \E p \in Calls : ExecutorStep(p) \/ Others(p)
  BY DEF Next, ExecutorStep, Others, RunHandler, Command, Request, ServerReplies,
     Administer,
     AskServer, Crash, vars

\* A call that begins makes the ones before it forgotten.
LEMMA BeginEffect ==
    ASSUME ExecutorTypes, ManagerTypes, NEW p \in Calls, Begin(p)
    PROVE  /\ call' \in [Calls -> CallType] /\ UNCHANGED <<Handlers, cuts>>
           /\ \A q \in Calls :
                 \/ call'[q] = call[q]
                 \/ call[q].pc = "done" /\ call'[q] = [NoCall EXCEPT !.pc = "done"]
                 \/ /\ call[q].pc = "idle" /\ call'[q].pc = "starting"
                    /\ ~call'[q].late /\ ~call'[q].cut
                    /\ call'[q].outcome = "none" /\ call'[q].audit = "none"
                    /\ call'[q].terminal = "none" /\ call'[q].answer = "none"
  <1> DEFINE t == IF work[p] = "mcp" THEN server.registry ELSE 0
             first == [NoCall EXCEPT !.pc = "starting", !.kind = work[p], !.tool = t]
  <1>1. t \in Nat /\ work[p] \in {"none", "command", "mcp"}
    BY DEF ManagerTypes, ServerType, ExecutorTypes
  <1>2. first \in CallType /\ [NoCall EXCEPT !.pc = "done"] \in CallType
    BY <1>1 DEF NoCall, CallType
  <1>3. /\ first.pc = "starting" /\ ~first.late /\ ~first.cut /\ first.outcome = "none"
        /\ first.audit = "none" /\ first.terminal = "none" /\ first.answer = "none"
    BY DEF NoCall
  <1>4. /\ call[p].pc = "idle" /\ \A q \in Calls : q < p => call[q].pc = "done"
        /\ call' = [q \in Calls |-> CASE q < p -> [NoCall EXCEPT !.pc = "done"]
                                      [] q = p -> first
                                      [] OTHER -> call[q]]
        /\ UNCHANGED <<Handlers, cuts>>
    BY DEF Begin
  <1> HIDE DEF first
  <1>5. \A q \in Calls : /\ q < p => call'[q] = [NoCall EXCEPT !.pc = "done"]
                         /\ ~(q < p) /\ q = p => call'[q] = first
                         /\ ~(q < p) /\ q # p => call'[q] = call[q]
    BY <1>4
  <1>6. call' \in [Calls -> CallType]
    BY <1>2, <1>4, <1>5 DEF ExecutorTypes
  <1>7. QED
    BY <1>3, <1>4, <1>5, <1>6

\* Every step keeps the executor's types.
LEMMA ExecutorTypeStep ==
    ASSUME Typed, Stories, [Next]_vars PROVE ExecutorTypes'
  <1>1. ASSUME NEW p \in Calls, ExecutorStep(p) \/ Others(p) PROVE ExecutorTypes'
    <2>1. work' = work
      BY ExecutorCases
    <2>2. CASE Begin(p)
      BY <2>1, <2>2, BeginEffect DEF ExecutorTypes, Typed
    <2>3. CASE Retold(p)
      BY <2>1, <2>3 DEF ExecutorTypes, Typed, Retold, Set
    <2>4. QED
      BY <1>1, <2>2, <2>3, Tells DEF Typed
  <1>2. QED
    BY <1>1, ExecutorCases DEF ExecutorTypes, Typed

\* Every step keeps the stories plausible.
LEMMA StoriesStep ==
    ASSUME Typed, Stories, [Next]_vars PROVE Stories'
  <1>1. ASSUME NEW p \in Calls, ExecutorStep(p) \/ Others(p) PROVE Stories'
    <2>1. CASE Begin(p)
      <3> SUFFICES ASSUME NEW q \in Calls PROVE Plausible(call'[q], cuts')
        BY DEF Stories
      <3>1. Plausible(call[q], cuts) /\ cuts' = cuts
        BY <2>1, BeginEffect DEF Stories, Typed
      <3>2. Plausible([NoCall EXCEPT !.pc = "done"], cuts')
        BY DEF Plausible, NoCall
      <3>3. ASSUME call'[q].pc = "starting", ~call'[q].late, ~call'[q].cut,
                   call'[q].outcome = "none", call'[q].audit = "none",
                   call'[q].terminal = "none", call'[q].answer = "none"
            PROVE  Plausible(call'[q], cuts')
        BY <3>3 DEF Plausible
      <3>4. QED
        BY <2>1, <3>1, <3>2, <3>3, BeginEffect DEF Typed
    <2>2. CASE Retold(p)
      <3>1. PICK c \in CallType : /\ Set(p, c) /\ Plausible(c, cuts')
                                  /\ cuts' \in Nat /\ cuts' >= cuts
        BY <2>2 DEF Retold
      <3> SUFFICES ASSUME NEW q \in Calls PROVE Plausible(call'[q], cuts')
        BY DEF Stories
      <3>2. CASE q = p
        BY <3>1, <3>2 DEF Set, Typed, ExecutorTypes
      <3>3. CASE q # p
        <4>1. call'[q] = call[q] /\ Plausible(call[q], cuts) /\ (cuts > 0 => cuts' > 0)
          BY <3>1, <3>3 DEF Set, Typed, ExecutorTypes, Stories
        <4>2. QED
          BY <4>1 DEF Plausible
      <3>4. QED
        BY <3>2, <3>3
    <2>3. QED
      BY <1>1, <2>1, <2>2, Tells DEF Typed
  <1>2. QED
    BY <1>1, ExecutorCases DEF Stories

\* A runner that is over, or not yet asked for, stays as it is.
LEMMA RunsStay ==
    ASSUME Typed, [Next]_vars, NEW q \in Calls, RunnerOver(q),
           call[q].pc \notin {"starting", "asking"} \/ call'[q].pc # "waiting"
    PROVE  run'[q].pc = run[q].pc /\ run'[q].res = run[q].res
  <1> USE DEF Typed, ProcessTypes, RunType, RunnerOver
  <1>1. ASSUME NEW p \in Calls, RunnerStep(p) PROVE run'[q] = run[q]
    <2>1. p # q \/ UNCHANGED run
      BY <1>1 DEF RunnerStep, Admit, AdmitCancelled, CommandTimesOut, RunCancelled,
         LateGivesUp,
         SeesResult, Drained, Reaped, SendTerm, SendKill
    <2>2. p # q => run'[q] = run[q]
      BY <1>1 DEF RunnerStep, Admit, AdmitCancelled, CommandTimesOut, RunCancelled,
         LateGivesUp,
         SeesResult, Drained, Reaped, SendTerm, SendKill, Go, Ended, Cleanup
    <2>3. QED
      BY <2>1, <2>2
  <1>2. ASSUME NEW p \in Calls, SupervisorStep(p) \/ CommandStep(p) PROVE run' = run
    BY <1>2 DEF SupervisorStep, CommandStep, SpawnOrphaned, StartTarget, Watch, CloseGroup,
       Fork, Exit
  <1>3. ASSUME NEW p \in Calls, Spawned(p) PROVE run'[q] = run[q]
    BY <1>3 DEF Spawned, Go
  <1>4. ASSUME NEW p \in Calls, CancelHandler(p)
        PROVE  run'[q].pc = run[q].pc /\ run'[q].res = run[q].res
    BY <1>4 DEF CancelHandler
  <1>5. ASSUME NEW p \in Calls, p # q, run' = [run EXCEPT ![p].pc = "record"]
        PROVE  run'[q] = run[q]
    BY <1>5
  <1>6. QED
    BY <1>1, <1>2, <1>3, <1>4, <1>5, ProcessCases DEF processVars

\* So does a request that is over, or not yet made.
LEMMA RequestsStay ==
    ASSUME Typed, [Next]_vars, NEW q \in Calls, req[q].pc \in {"none", "ended"},
           call[q].pc \notin {"starting", "asking"} \/ call'[q].pc # "waiting"
    PROVE  req'[q].pc = req[q].pc /\ req'[q].res = req[q].res
  <1> USE DEF Typed, ManagerTypes
  <1>1. ASSUME NEW p \in Calls, ManagerCall(p) \/ Reply(p) PROVE req'[q] = req[q]
    <2>1. p # q
      BY <1>1 DEF ManagerCall, Acquire, CancelLocked, GiveUp, CallClosed, Reply
    <2>2. QED
      BY <1>1, <2>1 DEF ManagerCall, Acquire, CancelLocked, GiveUp, CallClosed, Reply,
         Requested
  <1>2. ASSUME ManagerAdmin \/ LateLoad \/ \E order \in AdminOps : Ask(order) PROVE req' = req
    BY <1>2 DEF ManagerAdmin, AdminAcquire, Dropped, Connect, Publish, ConnectTimesOut,
       Discarded, LateLoad, Ask
  <1>3. ASSUME NEW p \in Calls, CancelHandler(p)
        PROVE  req'[q].pc = req[q].pc /\ req'[q].res = req[q].res
    BY <1>3 DEF CancelHandler, RequestType
  <1>4. ASSUME NEW p \in Calls, p # q, Submit(p, call[p].tool) PROVE req'[q] = req[q]
    BY <1>4 DEF Submit
  <1>5. QED
    BY <1>1, <1>2, <1>3, <1>4, ManagerCases DEF managerVars

\* Every step keeps handlers from starting early.
LEMMA UnlaunchedStep ==
    ASSUME Typed, Stories, Unlaunched, [Next]_vars PROVE Unlaunched'
  <1> SUFFICES ASSUME NEW q \in Calls, call'[q].pc \in {"idle", "starting", "asking"}
               PROVE  run'[q].pc = "none" /\ req'[q].pc = "none"
    BY DEF Unlaunched
  <1>1. call[q].pc \in {"idle", "starting", "asking"}
    <2>1. ASSUME NEW p \in Calls, ExecutorStep(p) \/ Others(p)
          PROVE  call[q].pc \in {"idle", "starting", "asking"}
      <3>1. CASE Begin(p)
        BY <3>1, BeginEffect DEF Typed, NoCall
      <3>2. CASE Retold(p)
        BY <3>2 DEF Retold, Set, Typed, ExecutorTypes
      <3>3. QED
        BY <2>1, <3>1, <3>2, Tells DEF Typed
    <2>2. QED
      BY <2>1, ExecutorCases
  <1>2. run[q].pc = "none" /\ req[q].pc = "none"
    BY <1>1 DEF Unlaunched
  <1>3. QED
    BY <1>2, RunsStay, RequestsStay DEF RunnerOver

\* Every step keeps the successes earned.
LEMMA EarnedStep ==
    ASSUME Typed, Stories, Earned, [Next]_vars PROVE Earned'
  <1> SUFFICES ASSUME NEW q \in Calls
               PROVE  EarnedBy(q)'
    BY DEF Earned
  <1> SUFFICES ASSUME call'[q].outcome = "success"
               PROVE  HandlerOver(q)' /\ HandlerResult(q)' = "ok"
    BY DEF EarnedBy
  <1>1. ASSUME call[q].outcome = "success", call'[q].kind = call[q].kind
        PROVE  HandlerOver(q)' /\ HandlerResult(q)' = "ok"
    <2>1. HandlerOver(q) /\ HandlerResult(q) = "ok"
      BY <1>1 DEF Earned, EarnedBy
    <2>2. call[q].pc \notin {"starting", "asking"}
      BY <1>1 DEF Stories, Plausible
    <2>3. /\ run'[q].pc = run[q].pc /\ run'[q].res = run[q].res
          /\ req'[q].pc = req[q].pc /\ req'[q].res = req[q].res
      BY <2>1, <2>2, RunsStay, RequestsStay DEF HandlerOver
    <2>4. QED
      BY <1>1, <2>1, <2>3 DEF HandlerOver, HandlerResult, RunnerOver
  <1>2. ASSUME NEW p \in Calls, ExecutorStep(p) \/ Others(p)
        PROVE  HandlerOver(q)' /\ HandlerResult(q)' = "ok"
    <2>1. CASE Begin(p)
      <3>1. call'[q] = call[q]
        BY <2>1, BeginEffect DEF Typed, NoCall
      <3>2. QED
        BY <1>1, <3>1
    <2>2. CASE Retold(p)
      <3>1. PICK c \in CallType :
               /\ Set(p, c) /\ c.kind = call[p].kind
               /\ c.outcome = "success" =>
                     \/ call[p].outcome = "success"
                     \/ HandlerOver(p) /\ HandlerResult(p) = "ok" /\ UNCHANGED Handlers
        BY <2>2 DEF Retold
      <3>2. /\ call'[p] = c /\ (q # p => call'[q] = call[q])
        BY <3>1 DEF Set, Typed, ExecutorTypes
      <3>3. CASE call[q].outcome = "success"
        BY <1>1, <3>1, <3>2, <3>3
      <3>4. CASE q = p /\ HandlerOver(p) /\ HandlerResult(p) = "ok" /\ UNCHANGED Handlers
        BY <3>1, <3>2, <3>4 DEF HandlerOver, HandlerResult, RunnerOver, Handlers,
           processVars, managerVars
      <3>5. QED
        BY <3>1, <3>2, <3>3, <3>4
    <2>3. QED
      BY <1>2, <2>1, <2>2, Tells DEF Typed
  <1>3. QED
    BY <1>1, <1>2, ExecutorCases

\* What the three properties rest on.
ToolInv == Typed /\ Linked /\ Unlaunched /\ Grouped /\ Stories /\ Earned

\* The invariant holds at first.
LEMMA InitInv == Init => ToolInv
  <1> SUFFICES ASSUME Init PROVE ToolInv
    OBVIOUS
  <1> USE ExecutorAssumption, ManagerAssumption DEF Init, ManagerInit, ProcessInit
  <1>1. ManagerTypes
    BY DEF ManagerTypes, ServerType, SessionType, RequestType, AdminType, NoServer,
       NoRequest, AdminOps
  <1>2. ProcessTypes
    BY DEF ProcessTypes, RunType, GroupType, NoRun, NoGroup
  <1>3. ExecutorTypes
    <2>1. NoCall \in CallType
      BY DEF NoCall, CallType
    <2>2. QED
      BY <2>1 DEF ExecutorTypes
  <1>4. Linked
    BY DEF Linked, NoServer, NoRequest
  <1>5. Unlaunched /\ Grouped
    BY DEF Unlaunched, Grouped, NoCall, NoRun, NoGroup, NoRequest
  <1>6. Stories
    BY DEF Stories, Plausible, NoCall
  <1>7. Earned
    BY DEF Earned, EarnedBy, NoCall
  <1>8. QED
    BY <1>1, <1>2, <1>3, <1>4, <1>5, <1>6, <1>7 DEF ToolInv, Typed

\* The invariant the three properties rest on, for any number of calls,
\* sessions, administrations and cancellations.
THEOREM Invariant == Spec => []ToolInv
  <1>1. ToolInv /\ [Next]_vars => ToolInv'
    <2> SUFFICES ASSUME ToolInv, [Next]_vars PROVE ToolInv'
      OBVIOUS
    <2> USE DEF ToolInv
    <2>1. ManagerTypes'
      BY ManagerTypeStep DEF Typed
    <2>2. Typed'
      BY <2>1, ProcessTypeStep, ExecutorTypeStep DEF Typed
    <2>3. Linked'
      BY <2>1, LinkedStep DEF Typed
    <2>4. Unlaunched' /\ Stories' /\ Earned'
      BY UnlaunchedStep, StoriesStep, EarnedStep
    <2>5. Grouped'
      BY GroupedStep DEF Typed
    <2>6. QED
      BY <2>2, <2>3, <2>4, <2>5
  <1>2. QED
    BY <1>1, InitInv, PTL DEF Spec

\* The answer, the activity and the terminal event of a call tell the same
\* story, and a success is one its handler reported before its deadline.
THEOREM Truth == Spec => []OneTruth
  <1>1. ToolInv => OneTruth
    <2> SUFFICES ASSUME ToolInv, NEW p \in Calls
                 PROVE  LET c == call[p] IN
                        /\ c.answer = "success" =>
                              /\ ~c.late /\ HandlerOver(p) /\ HandlerResult(p) = "ok"
                              /\ c.terminal = "completed" /\ c.audit = "success"
                        /\ c.answer = "error" => c.terminal = "failed" /\ c.audit = "error" /\ ~c.cut
                        /\ c.terminal # "none" =>
                              c.audit = Activity[c.outcome] \/ (c.audit = "lost" /\ c.answer = "cancelled")
                        /\ c.answer = "cancelled" => cuts > 0
                        /\ c.terminal = "completed" \/ c.audit = "success" => ~c.late
      BY DEF OneTruth
    <2>1. Plausible(call[p], cuts)
      BY DEF ToolInv, Stories
    <2>2. call[p].outcome = "success" => HandlerOver(p) /\ HandlerResult(p) = "ok"
      BY DEF ToolInv, Earned, EarnedBy
    <2> DEFINE c == call[p]
    <2>3. /\ c.audit = "success" \/ c.terminal = "completed" => c.outcome = "success"
          /\ c.answer = "success" => c.terminal = "completed" /\ c.audit = "success"
          /\ c.answer = "error" => c.terminal = "failed" /\ c.audit = "error" /\ ~c.cut
          /\ c.answer = "cancelled" => cuts > 0
      BY <2>1 DEF Plausible
    <2>4. c.outcome = "success" => ~c.late
      BY <2>1 DEF Plausible
    <2>5. c.terminal # "none" =>
             c.audit = Activity[c.outcome] \/ (c.audit = "lost" /\ c.answer = "cancelled")
      BY <2>1 DEF Plausible
    <2>6. QED
      BY <2>2, <2>3, <2>4, <2>5
  <1>2. QED
    BY <1>1, Invariant, PTL

\* The registered tools are those of the connected session, and a call reaches
\* only the session its tool came from.
THEOREM SessionTools == Spec => []ToolsFollowSession
  <1>1. ToolInv => ToolsFollowSession
    <2> SUFFICES ASSUME ToolInv PROVE ToolsFollowSession
      OBVIOUS
    <2>1. \A s \in DOMAIN sessions : sessions[s].asked \subseteq {sessions[s].generation}
      BY DEF ToolInv, Typed, ManagerTypes, Linked
    <2>2. QED
      BY <2>1 DEF ToolInv, Linked, ToolsFollowSession
  <1>2. QED
    BY <1>1, Invariant, PTL

\* While Core lives, nothing of a command's process group outlives its call.
THEOREM GroupsEnd == Spec => []GroupEndsWithCall
  <1>1. ToolInv => GroupEndsWithCall
    BY DEF ToolInv, Grouped, GroupEndsWithCall, Members
  <1>2. QED
    BY <1>1, Invariant, PTL

-----------------------------------------------------------------------------
(* The package manager of the skills.                                       *)

Successes == {"installed", "replaced", "removed"}
Requests == {"install", "replace", "remove"}

\* The steps before the running operation touched anything of its own.
Early == {"open", "read_directory", "read_archive", "lock", "temporary", "orphans",
          "recover", "drop_candidate", "drop_original", "settle", "begin"}
Unmarked == {"begin", "stage", "look", "prepare", "discard_stage"}
Staging == {"stage", "look", "prepare", "discard_stage"}
Marked == {"move_out", "mark_quarantined", "publish", "mark_published", "clean_up", "finish"}
Undo == {"undo", "undo_stage", "undo_marker"}
Doing == Staging \cup Marked \cup Undo
Published == {"mark_published", "clean_up", "finish"}

\* What the process remembers of its work.
Working ==
    /\ pc = "idle" <=> request = None
    /\ pc \in {"open", "read_directory", "read_archive"} => request \in {"install", "replace"}
    /\ pc \in Doing => request \in Requests
    /\ pc \in {"stage", "look", "discard_stage"} => request # "remove"
    /\ pc \in Early \cup {"stage", "look"} => original = None
    /\ pc \in Doing /\ request = "remove" => original # None
    /\ pc \in Undo \cup {"discard_stage"} => error \in {"transaction_failed", "package_exists"}
    /\ pc \in {"move_out", "mark_quarantined"} => original # None

\* Operations are numbered, and the one that works has not answered yet.
Numbered ==
    /\ request \in Requests => op \in Ops /\ told[op] = None
    /\ \A o \in Ops : o > op => told[o] = None

\* The marker is of the operation that works, or of an earlier one until recovery is done.
Marking ==
    /\ marker # None => marker.op <= op /\ told[marker.op] \notin Successes
    /\ marker # None => (marker.original = None <=> marker.action = "install")
    /\ pc \in Unmarked => marker = None
    /\ pc \in {"drop_candidate", "drop_original", "settle"} => marker # None
    /\ pc \in Early /\ request \in Requests /\ marker # None => marker.op # op
    /\ pc \in Marked => marker # None
    /\ pc \in Marked \cup Undo /\ marker # None =>
          marker.op = op /\ marker.original = original /\ marker.action = Action
    /\ pc \in {"drop_original", "clean_up", "finish"} => marker.phase = "published"

\* What lies in quarantine is the original of the change the marker tells of.
Quarantined ==
    /\ \A o \in Ops : quarantine[o] # None =>
          /\ marker # None /\ marker.op = o /\ marker.action # "install"
          /\ quarantine[o].id = marker.original
    /\ pc = "drop_original" => quarantine[marker.op] # None
    /\ pc \in {"settle", "drop_candidate"} => quarantine[marker.op] = None
    /\ pc \in {"move_out", "finish", "undo_stage", "undo_marker"} => quarantine[op] = None

\* What is staged, and what was published of it.
StagedWhole ==
    /\ \A o \in Ops : o > op => stage[o] = None
    /\ request \in Requests /\ pc \in Early => stage[op] = None
    /\ request # "remove" /\ pc \in {"look", "prepare", "move_out", "mark_quarantined", "publish"} =>
          stage[op] = [id |-> op, whole |-> TRUE]
    /\ request = "remove" => stage[op] = None
    /\ pc = "stage" /\ stage[op] # None => stage[op] = [id |-> op, whole |-> FALSE]
    /\ pc \in Published => stage[op] = None
    /\ pc = "undo_marker" => stage[op] = None
    /\ pc = "drop_candidate" => stage[marker.op] # None

Result ==
    ~touched =>
        /\ pc \in Published =>
              IF request = "remove" THEN target = None ELSE target = [id |-> op, whole |-> TRUE]
        /\ pc \in {"mark_quarantined", "publish"} => target = None
        /\ pc = "prepare" /\ Action = "install" => target = None
        /\ pc = "discard_stage" /\ error = "package_exists" => target # None
        /\ pc \in Undo => error = "transaction_failed"

SkillInv == TypeOK /\ Working /\ Numbered /\ Marking /\ Quarantined /\ StagedWhole /\ Result
-----------------------------------------------------------------------------

\* The types of what is on disk and of what the process works with.
EntriesTyped == /\ target \in Entries
                /\ stage \in [Ops -> Entries] /\ quarantine \in [Ops -> Entries]
MarkerTyped == marker \in Markers \cup {None} /\ temporary \in BOOLEAN
LocalTyped ==
    /\ request \in {"install", "replace", "remove", "recover", None}
    /\ op \in 0..MaxOps /\ original \in Identities \cup {None}
    /\ pc \in Steps /\ error \in Answers \cup {None}
ToldTyped == told \in [Ops -> Answers \cup {None}]
BudgetsTyped == edits \in 0..MaxEdits /\ crashes \in 0..MaxCrashes /\ faults \in 0..MaxFaults
OthersTyped == others \in 0..(MaxEntries + 1)

LEMMA TypeParts == TypeOK <=> 
      /\ EntriesTyped /\ MarkerTyped /\ LocalTyped /\ ToldTyped /\ BudgetsTyped
      /\ OthersTyped /\ touched \in BOOLEAN
  BY DEF TypeOK, EntriesTyped, MarkerTyped, LocalTyped, ToldTyped, BudgetsTyped, OthersTyped

LEMMA SkillConstants ==
    /\ None \notin Identities /\ None \notin Answers
    /\ None \notin {"install", "replace", "remove", "recover"}
    /\ {MaxEntries, MaxOps, MaxEdits, MaxCrashes, MaxFaults} \subseteq Nat
    /\ Ops \subseteq Identities /\ Ops = 1..MaxOps
  BY SkillAssumption, NoneAssumption DEF Ops, Identities

LEMMA EntryFacts ==
    /\ None \in Entries
    /\ \A e \in Entries : e # None =>
          /\ e.id \in Identities /\ e.whole \in BOOLEAN /\ Emptied(e) \in Entries
          /\ e.whole => Emptied(e) # None
          /\ Emptied(e) # None => Emptied(e).id = e.id /\ ~Emptied(e).whole
    /\ \A i \in Identities, w \in BOOLEAN :
          [id |-> i, whole |-> w] \in Entries /\ [id |-> i, whole |-> w] # None
  <1>1. None \in Entries
    BY DEF Entries
  <1>2. ASSUME NEW e \in Entries, e # None
        PROVE  /\ e.id \in Identities /\ e.whole \in BOOLEAN /\ Emptied(e) \in Entries
               /\ e.whole => Emptied(e) # None
               /\ Emptied(e) # None => Emptied(e).id = e.id /\ ~Emptied(e).whole
    <2>1. e \in [id : Identities, whole : BOOLEAN]
      BY <1>2 DEF Entries
    <2>2. [e EXCEPT !.whole = FALSE] \in [id : Identities, whole : BOOLEAN]
      BY <2>1
    <2>3. [e EXCEPT !.whole = FALSE] # None
      BY <2>2, NoneAssumption
    <2>4. QED
      BY <2>1, <2>2, <2>3 DEF Entries, Emptied
  <1>3. ASSUME NEW i \in Identities, NEW w \in BOOLEAN
        PROVE  [id |-> i, whole |-> w] \in Entries /\ [id |-> i, whole |-> w] # None
    BY NoneAssumption DEF Entries
  <1>4. QED
    BY <1>1, <1>2, <1>3

\* Packages are put and taken under the names of an operation.
LEMMA PutFacts ==
    ASSUME NEW f \in [Ops -> Entries], NEW o \in Ops
    PROVE  /\ \A e \in Entries : [f EXCEPT ![o] = e] \in [Ops -> Entries]
           /\ f[o] # None => [f EXCEPT ![o] = Emptied(@)] \in [Ops -> Entries]
           /\ f[o] \in Entries
  BY EntryFacts

LEMMA MarkerFields ==
    MarkerTyped /\ marker # None =>
        marker.op \in Ops /\ marker.original \in Identities \cup {None}
  BY DEF MarkerTyped, Markers

LEMMA MarkerFacts ==
    /\ \A m \in Markers : m.op \in Ops /\ m.original \in Identities \cup {None} /\ m # None
    /\ \A m \in Markers, p \in {"quarantined", "published"} :
          /\ [m EXCEPT !.phase = p] \in Markers /\ [m EXCEPT !.phase = p].phase = p
          /\ [m EXCEPT !.phase = p].op = m.op /\ [m EXCEPT !.phase = p].action = m.action
          /\ [m EXCEPT !.phase = p].original = m.original
    /\ \A a \in {"install", "replace", "remove"}, o \in Ops, i \in Identities \cup {None} :
          /\ [action |-> a, phase |-> "prepared", op |-> o, original |-> i] \in Markers
          /\ [action |-> a, phase |-> "prepared", op |-> o, original |-> i].op = o
          /\ [action |-> a, phase |-> "prepared", op |-> o, original |-> i].action = a
          /\ [action |-> a, phase |-> "prepared", op |-> o, original |-> i].original = i
          /\ [action |-> a, phase |-> "prepared", op |-> o, original |-> i].phase = "prepared"
  BY NoneAssumption DEF Markers

LEMMA Outcomes ==
    /\ {"installed", "replaced", "removed", "package_exists", "package_not_found", "refused",
        "transaction_failed"} \subseteq Answers
    /\ {"idle", "open", "read_directory", "read_archive", "lock", "temporary", "orphans", "recover",
        "drop_candidate", "drop_original", "settle", "begin", "stage", "look", "prepare",
        "move_out", "mark_quarantined", "publish", "mark_published", "clean_up", "finish",
        "discard_stage", "undo", "undo_stage", "undo_marker"} = Steps
  BY DEF Answers, Steps

LEMMA GoToTyped ==
    ASSUME LocalTyped, NEW s \in Steps, GoTo(s)
    PROVE  LocalTyped'
  BY DEF LocalTyped, GoTo

LEMMA RaiseTyped ==
    ASSUME LocalTyped, NEW e \in Answers, Raise(e)
    PROVE  LocalTyped'
  BY Outcomes DEF LocalTyped, Raise

LEMMA ReturnTyped ==
    ASSUME LocalTyped, ToldTyped, NEW a \in Answers \cup {None}, Return(a)
    PROVE  LocalTyped' /\ ToldTyped'
  BY Outcomes DEF LocalTyped, ToldTyped, Return

LEMMA FaultTyped ==
    ASSUME BudgetsTyped, Fault
    PROVE  BudgetsTyped'
  BY SkillConstants DEF BudgetsTyped, Fault

LEMMA KeptTyped ==
    /\ ToldTyped /\ UNCHANGED told => ToldTyped'
    /\ BudgetsTyped /\ UNCHANGED budgets => BudgetsTyped'
    /\ EntriesTyped /\ UNCHANGED entries => EntriesTyped'
  BY DEF ToldTyped, BudgetsTyped, EntriesTyped, budgets, entries

\* Only the other packages of the directory come and go by themselves.
LEMMA OthersStep == OthersTyped /\ [PackageNext]_packageVars => OthersTyped'
  BY DEF OthersTyped, PackageNext, OtherPackages, packageVars

LEMMA EntriesStep == SkillInv /\ [PackageNext]_packageVars => EntriesTyped'
  <1> SUFFICES ASSUME SkillInv, [PackageNext]_packageVars PROVE EntriesTyped'
    OBVIOUS
  <1>0. EntriesTyped /\ MarkerTyped /\ BudgetsTyped /\ op \in 0..MaxOps
    BY TypeParts DEF SkillInv, LocalTyped
  <1>a. /\ marker # None => marker.op \in Ops
        /\ pc = "drop_candidate" => marker # None /\ stage[marker.op] # None
        /\ pc = "drop_original" => marker # None /\ quarantine[marker.op] # None

        /\ pc \in {"stage", "discard_stage", "move_out", "publish", "clean_up", "undo", "undo_stage"} => op \in Ops
    BY <1>0, MarkerFields DEF SkillInv, Marking, StagedWhole, Quarantined, Working, Numbered, Doing, Staging, Marked, Undo
  <1> USE <1>0, <1>a, SkillConstants, EntryFacts, PutFacts DEF Absent, EntriesTyped, entries
  <1>1. ASSUME NEW r \in {"install", "replace", "remove", "recover"}, StartRequest(r) PROVE EntriesTyped'
    BY <1>1 DEF StartRequest
  <1>2. CASE OpenSource
    BY <1>2 DEF OpenSource
  <1>3. CASE ReadDirectory
    BY <1>3 DEF ReadDirectory, Validated
  <1>4. CASE ReadArchive
    BY <1>4 DEF ReadArchive, Validated
  <1>5. CASE Lock
    BY <1>5 DEF Lock
  <1>6. CASE RecoverMarkerTemporary
    BY <1>6 DEF RecoverMarkerTemporary
  <1>7. CASE RecoverOrphanStages
    BY <1>7 DEF RecoverOrphanStages, OrphanStages
  <1>8. CASE RecoverInstall
    BY <1>8 DEF RecoverInstall, Is
  <1>9. CASE RecoverReplace
    BY <1>9 DEF RecoverReplace, Is
  <1>10. CASE RecoverRemove
    BY <1>10 DEF RecoverRemove, Is
  <1>11. CASE NothingToRecover
    BY <1>11 DEF NothingToRecover
  <1>12. CASE Drop
    BY <1>12 DEF Drop
  <1>13. CASE ClearRecovered
    BY <1>13 DEF ClearRecovered
  <1>14. CASE BeginOperation
    BY <1>14 DEF BeginOperation
  <1>15. CASE WriteStage
    <2> DEFINE new == [id |-> op, whole |-> ~Absent(stage[op])]
    <2>1. op \in Ops
      BY <1>15 DEF WriteStage
    <2>2. new \in Entries
      BY <2>1 DEF Entries
    <2>3. stage' = [stage EXCEPT ![op] = new] \/ UNCHANGED stage
      BY <1>15 DEF WriteStage
    <2>4. UNCHANGED <<target, quarantine>>
      BY <1>15 DEF WriteStage
    <2> HIDE DEF new
    <2>5. QED
      BY <2>1, <2>2, <2>3, <2>4
  <1>16. CASE LookAtTarget
    BY <1>16 DEF LookAtTarget
  <1>17. CASE DiscardStage
    BY <1>17 DEF DiscardStage
  <1>18. CASE Prepare
    BY <1>18 DEF Prepare, WriteMarker, Raise, Action
  <1>19. CASE MoveToQuarantine
    BY <1>19 DEF MoveToQuarantine, Is, Raise
  <1>20. CASE MarkQuarantined
    BY <1>20 DEF MarkQuarantined, WriteMarker, Raise
  <1>21. CASE PublishStage
    BY <1>21 DEF PublishStage, Raise
  <1>22. CASE MarkPublished
    BY <1>22 DEF MarkPublished, Raise
  <1>23. CASE RemoveQuarantine
    BY <1>23 DEF RemoveQuarantine
  <1>24. CASE ClearMarker
    BY <1>24 DEF ClearMarker, Raise, Success, Action
  <1>25. CASE UndoInstall
    BY <1>25 DEF UndoInstall
  <1>26. CASE RollbackReplace
    BY <1>26 DEF RollbackReplace, Is
  <1>27. CASE UndoRemove
    BY <1>27 DEF UndoRemove
  <1>28. CASE UndoStage
    BY <1>28 DEF UndoStage
  <1>29. CASE ClearMarkerBestEffort
    BY <1>29 DEF ClearMarkerBestEffort
  <1>30. CASE UndoFails
    BY <1>30 DEF UndoFails
  <1>31. CASE ProcessDies
    BY <1>31 DEF ProcessDies
  <1>32. CASE UserChanges
    <2> DEFINE new == [id |-> MaxOps + edits', whole |-> TRUE]
    <2>1. MaxOps + edits' \in Identities
      BY <1>32 DEF UserChanges, BudgetsTyped, Identities
    <2>2. new \in Entries
      BY <2>1 DEF Entries
    <2>3. target' \in {None, new} /\ UNCHANGED <<stage, quarantine>>
      BY <1>32 DEF UserChanges
    <2> HIDE DEF new
    <2>4. QED
      BY <2>2, <2>3
  <1>33. CASE UNCHANGED ownVars
    BY <1>33 DEF ownVars, entries, journal, working, budgets
  <1>34. QED
    BY <1>1, <1>2, <1>3, <1>4, <1>5, <1>6, <1>7, <1>8, <1>9, <1>10, <1>11, <1>12, <1>13, <1>14, <1>15, <1>16, <1>17, <1>18, <1>19, <1>20, <1>21, <1>22, <1>23, <1>24, <1>25, <1>26, <1>27, <1>28, <1>29, <1>30, <1>31, <1>32, <1>33 DEF PackageNext, OtherPackages, packageVars, Work, Beginning, Recovery, Operation, Undoing

LEMMA LocalStep == SkillInv /\ [PackageNext]_packageVars => LocalTyped'
  <1> SUFFICES ASSUME SkillInv, [PackageNext]_packageVars PROVE LocalTyped'
    OBVIOUS
  <1>0. LocalTyped /\ EntriesTyped
    BY TypeParts DEF SkillInv
  <1> USE <1>0, SkillConstants, EntryFacts, Outcomes DEF Absent, GoTo, Return, Fail, Fault, Emptied, Action, Successes, Requests, Early, Unmarked, Staging, Marked, Undo, Doing, Published, entries, journal, working, budgets, LocalTyped, EntriesTyped, Steps
  <1>1. ASSUME NEW r \in {"install", "replace", "remove", "recover"}, StartRequest(r) PROVE LocalTyped'
    BY <1>1 DEF StartRequest
  <1>2. CASE OpenSource
    BY <1>2 DEF OpenSource
  <1>3. CASE ReadDirectory
    BY <1>3 DEF ReadDirectory, Validated
  <1>4. CASE ReadArchive
    BY <1>4 DEF ReadArchive, Validated
  <1>5. CASE Lock
    BY <1>5 DEF Lock
  <1>6. CASE RecoverMarkerTemporary
    BY <1>6 DEF RecoverMarkerTemporary
  <1>7. CASE RecoverOrphanStages
    BY <1>7 DEF RecoverOrphanStages, OrphanStages
  <1>8. CASE RecoverInstall
    BY <1>8 DEF RecoverInstall, Is
  <1>9. CASE RecoverReplace
    BY <1>9 DEF RecoverReplace, Is
  <1>10. CASE RecoverRemove
    BY <1>10 DEF RecoverRemove, Is
  <1>11. CASE NothingToRecover
    BY <1>11 DEF NothingToRecover
  <1>12. CASE Drop
    BY <1>12 DEF Drop
  <1>13. CASE ClearRecovered
    BY <1>13 DEF ClearRecovered
  <1>14. CASE BeginOperation
    BY <1>14 DEF BeginOperation
  <1>15. CASE WriteStage
    BY <1>15 DEF WriteStage
  <1>16. CASE LookAtTarget
    BY <1>16 DEF LookAtTarget
  <1>17. CASE DiscardStage
    BY <1>17 DEF DiscardStage
  <1>18. CASE Prepare
    BY <1>18 DEF Prepare, WriteMarker, Raise, Action
  <1>19. CASE MoveToQuarantine
    BY <1>19 DEF MoveToQuarantine, Is, Raise
  <1>20. CASE MarkQuarantined
    BY <1>20 DEF MarkQuarantined, WriteMarker, Raise
  <1>21. CASE PublishStage
    BY <1>21 DEF PublishStage, Raise
  <1>22. CASE MarkPublished
    BY <1>22 DEF MarkPublished, Raise
  <1>23. CASE RemoveQuarantine
    BY <1>23 DEF RemoveQuarantine
  <1>24. CASE ClearMarker
    BY <1>24 DEF ClearMarker, Raise, Success, Action
  <1>25. CASE UndoInstall
    BY <1>25 DEF UndoInstall
  <1>26. CASE RollbackReplace
    BY <1>26 DEF RollbackReplace, Is
  <1>27. CASE UndoRemove
    BY <1>27 DEF UndoRemove
  <1>28. CASE UndoStage
    BY <1>28 DEF UndoStage
  <1>29. CASE ClearMarkerBestEffort
    BY <1>29 DEF ClearMarkerBestEffort
  <1>30. CASE UndoFails
    BY <1>30 DEF UndoFails
  <1>31. CASE ProcessDies
    BY <1>31 DEF ProcessDies
  <1>32. CASE UserChanges
    BY <1>32 DEF UserChanges, BudgetsTyped, Identities, working, journal
  <1>33. CASE UNCHANGED ownVars
    BY <1>33 DEF ownVars, entries, journal, working, budgets
  <1>34. QED
    BY <1>1, <1>2, <1>3, <1>4, <1>5, <1>6, <1>7, <1>8, <1>9, <1>10, <1>11, <1>12, <1>13, <1>14, <1>15, <1>16, <1>17, <1>18, <1>19, <1>20, <1>21, <1>22, <1>23, <1>24, <1>25, <1>26, <1>27, <1>28, <1>29, <1>30, <1>31, <1>32, <1>33 DEF PackageNext, OtherPackages, packageVars, Work, Beginning, Recovery, Operation, Undoing

LEMMA ToldStep == SkillInv /\ [PackageNext]_packageVars => ToldTyped'
  <1> SUFFICES ASSUME SkillInv, [PackageNext]_packageVars PROVE ToldTyped'
    OBVIOUS
  <1>0. ToldTyped /\ LocalTyped
    BY TypeParts DEF SkillInv
  <1> USE <1>0, SkillConstants, Outcomes DEF GoTo, Return, Fail, ToldTyped, LocalTyped
  <1>1. ASSUME NEW r \in {"install", "replace", "remove", "recover"}, StartRequest(r) PROVE ToldTyped'
    BY <1>1 DEF StartRequest
  <1>2. CASE OpenSource
    BY <1>2 DEF OpenSource
  <1>3. CASE ReadDirectory
    BY <1>3 DEF ReadDirectory, Validated
  <1>4. CASE ReadArchive
    BY <1>4 DEF ReadArchive, Validated
  <1>5. CASE Lock
    BY <1>5 DEF Lock
  <1>6. CASE RecoverMarkerTemporary
    BY <1>6 DEF RecoverMarkerTemporary
  <1>7. CASE RecoverOrphanStages
    BY <1>7 DEF RecoverOrphanStages, OrphanStages
  <1>8. CASE RecoverInstall
    BY <1>8 DEF RecoverInstall, Is
  <1>9. CASE RecoverReplace
    BY <1>9 DEF RecoverReplace, Is
  <1>10. CASE RecoverRemove
    BY <1>10 DEF RecoverRemove, Is
  <1>11. CASE NothingToRecover
    BY <1>11 DEF NothingToRecover
  <1>12. CASE Drop
    BY <1>12 DEF Drop
  <1>13. CASE ClearRecovered
    BY <1>13 DEF ClearRecovered
  <1>14. CASE BeginOperation
    BY <1>14 DEF BeginOperation
  <1>15. CASE WriteStage
    BY <1>15 DEF WriteStage
  <1>16. CASE LookAtTarget
    BY <1>16 DEF LookAtTarget
  <1>17. CASE DiscardStage
    BY <1>17 DEF DiscardStage
  <1>18. CASE Prepare
    BY <1>18 DEF Prepare, WriteMarker, Raise, Action
  <1>19. CASE MoveToQuarantine
    BY <1>19 DEF MoveToQuarantine, Is, Raise
  <1>20. CASE MarkQuarantined
    BY <1>20 DEF MarkQuarantined, WriteMarker, Raise
  <1>21. CASE PublishStage
    BY <1>21 DEF PublishStage, Raise
  <1>22. CASE MarkPublished
    BY <1>22 DEF MarkPublished, Raise
  <1>23. CASE RemoveQuarantine
    BY <1>23 DEF RemoveQuarantine
  <1>24. CASE ClearMarker
    BY <1>24 DEF ClearMarker, Raise, Success, Action
  <1>25. CASE UndoInstall
    BY <1>25 DEF UndoInstall
  <1>26. CASE RollbackReplace
    BY <1>26 DEF RollbackReplace, Is
  <1>27. CASE UndoRemove
    BY <1>27 DEF UndoRemove
  <1>28. CASE UndoStage
    BY <1>28 DEF UndoStage
  <1>29. CASE ClearMarkerBestEffort
    BY <1>29 DEF ClearMarkerBestEffort
  <1>30. CASE UndoFails
    BY <1>30 DEF UndoFails
  <1>31. CASE ProcessDies
    BY <1>31 DEF ProcessDies
  <1>32. CASE UserChanges
    BY <1>32 DEF UserChanges, BudgetsTyped, Identities, working, journal
  <1>33. CASE UNCHANGED ownVars
    BY <1>33 DEF ownVars, entries, journal, working, budgets
  <1>34. QED
    BY <1>1, <1>2, <1>3, <1>4, <1>5, <1>6, <1>7, <1>8, <1>9, <1>10, <1>11, <1>12, <1>13, <1>14, <1>15, <1>16, <1>17, <1>18, <1>19, <1>20, <1>21, <1>22, <1>23, <1>24, <1>25, <1>26, <1>27, <1>28, <1>29, <1>30, <1>31, <1>32, <1>33 DEF PackageNext, OtherPackages, packageVars, Work, Beginning, Recovery, Operation, Undoing

LEMMA BudgetStep == SkillInv /\ [PackageNext]_packageVars => (BudgetsTyped /\ touched \in BOOLEAN)'
  <1> SUFFICES ASSUME SkillInv, [PackageNext]_packageVars PROVE (BudgetsTyped /\ touched \in BOOLEAN)'
    OBVIOUS
  <1>0. BudgetsTyped /\ touched \in BOOLEAN
    BY TypeParts DEF SkillInv
  <1> USE <1>0, SkillConstants, Outcomes DEF Fault, BudgetsTyped, budgets
  <1>1. ASSUME NEW r \in {"install", "replace", "remove", "recover"}, StartRequest(r) PROVE (BudgetsTyped /\ touched \in BOOLEAN)'
    BY <1>1 DEF StartRequest
  <1>2. CASE OpenSource
    BY <1>2 DEF OpenSource
  <1>3. CASE ReadDirectory
    BY <1>3 DEF ReadDirectory, Validated
  <1>4. CASE ReadArchive
    BY <1>4 DEF ReadArchive, Validated
  <1>5. CASE Lock
    BY <1>5 DEF Lock
  <1>6. CASE RecoverMarkerTemporary
    BY <1>6 DEF RecoverMarkerTemporary
  <1>7. CASE RecoverOrphanStages
    BY <1>7 DEF RecoverOrphanStages, OrphanStages
  <1>8. CASE RecoverInstall
    BY <1>8 DEF RecoverInstall, Is
  <1>9. CASE RecoverReplace
    BY <1>9 DEF RecoverReplace, Is
  <1>10. CASE RecoverRemove
    BY <1>10 DEF RecoverRemove, Is
  <1>11. CASE NothingToRecover
    BY <1>11 DEF NothingToRecover
  <1>12. CASE Drop
    BY <1>12 DEF Drop
  <1>13. CASE ClearRecovered
    BY <1>13 DEF ClearRecovered
  <1>14. CASE BeginOperation
    BY <1>14 DEF BeginOperation
  <1>15. CASE WriteStage
    BY <1>15 DEF WriteStage
  <1>16. CASE LookAtTarget
    BY <1>16 DEF LookAtTarget
  <1>17. CASE DiscardStage
    BY <1>17 DEF DiscardStage
  <1>18. CASE Prepare
    BY <1>18 DEF Prepare, WriteMarker, Raise, Action
  <1>19. CASE MoveToQuarantine
    BY <1>19 DEF MoveToQuarantine, Is, Raise
  <1>20. CASE MarkQuarantined
    BY <1>20 DEF MarkQuarantined, WriteMarker, Raise
  <1>21. CASE PublishStage
    BY <1>21 DEF PublishStage, Raise
  <1>22. CASE MarkPublished
    BY <1>22 DEF MarkPublished, Raise
  <1>23. CASE RemoveQuarantine
    BY <1>23 DEF RemoveQuarantine
  <1>24. CASE ClearMarker
    BY <1>24 DEF ClearMarker, Raise, Success, Action
  <1>25. CASE UndoInstall
    BY <1>25 DEF UndoInstall
  <1>26. CASE RollbackReplace
    BY <1>26 DEF RollbackReplace, Is
  <1>27. CASE UndoRemove
    BY <1>27 DEF UndoRemove
  <1>28. CASE UndoStage
    BY <1>28 DEF UndoStage
  <1>29. CASE ClearMarkerBestEffort
    BY <1>29 DEF ClearMarkerBestEffort
  <1>30. CASE UndoFails
    BY <1>30 DEF UndoFails
  <1>31. CASE ProcessDies
    BY <1>31 DEF ProcessDies
  <1>32. CASE UserChanges
    BY <1>32 DEF UserChanges, BudgetsTyped, Identities, working, journal
  <1>33. CASE UNCHANGED ownVars
    BY <1>33 DEF ownVars, entries, journal, working, budgets
  <1>34. QED
    BY <1>1, <1>2, <1>3, <1>4, <1>5, <1>6, <1>7, <1>8, <1>9, <1>10, <1>11, <1>12, <1>13, <1>14, <1>15, <1>16, <1>17, <1>18, <1>19, <1>20, <1>21, <1>22, <1>23, <1>24, <1>25, <1>26, <1>27, <1>28, <1>29, <1>30, <1>31, <1>32, <1>33 DEF PackageNext, OtherPackages, packageVars, Work, Beginning, Recovery, Operation, Undoing

LEMMA MarkerTypedStep == SkillInv /\ [PackageNext]_packageVars => MarkerTyped'
  <1> SUFFICES ASSUME SkillInv, [PackageNext]_packageVars PROVE MarkerTyped'
    OBVIOUS
  <1>0. MarkerTyped /\ LocalTyped /\ Working /\ Numbered /\ Marking
    BY TypeParts DEF SkillInv
  <1> USE <1>0, SkillConstants, MarkerFields DEF GoTo, Return, Fail, Action, Staging, Marked, Undo, Doing, Requests, entries, journal, working, MarkerTyped, LocalTyped, Working, Numbered, Marking
  <1>1. ASSUME NEW r \in {"install", "replace", "remove", "recover"}, StartRequest(r) PROVE MarkerTyped'
    BY <1>1 DEF StartRequest
  <1>2. CASE OpenSource
    BY <1>2 DEF OpenSource
  <1>3. CASE ReadDirectory
    BY <1>3 DEF ReadDirectory, Validated
  <1>4. CASE ReadArchive
    BY <1>4 DEF ReadArchive, Validated
  <1>5. CASE Lock
    BY <1>5 DEF Lock
  <1>6. CASE RecoverMarkerTemporary
    BY <1>6 DEF RecoverMarkerTemporary
  <1>7. CASE RecoverOrphanStages
    BY <1>7 DEF RecoverOrphanStages, OrphanStages
  <1>8. CASE RecoverInstall
    BY <1>8 DEF RecoverInstall, Is
  <1>9. CASE RecoverReplace
    BY <1>9 DEF RecoverReplace, Is
  <1>10. CASE RecoverRemove
    BY <1>10 DEF RecoverRemove, Is
  <1>11. CASE NothingToRecover
    BY <1>11 DEF NothingToRecover
  <1>12. CASE Drop
    BY <1>12 DEF Drop
  <1>13. CASE ClearRecovered
    BY <1>13 DEF ClearRecovered
  <1>14. CASE BeginOperation
    BY <1>14 DEF BeginOperation
  <1>15. CASE WriteStage
    BY <1>15 DEF WriteStage
  <1>16. CASE LookAtTarget
    BY <1>16 DEF LookAtTarget
  <1>17. CASE DiscardStage
    BY <1>17 DEF DiscardStage
  <1>18. CASE Prepare
    <2> DEFINE m == [action |-> Action, phase |-> "prepared", op |-> op, original |-> original]
    <2>0. /\ Action \in {"install", "replace", "remove"} /\ op \in Ops
          /\ original \in Identities \cup {None}
      BY <1>18 DEF Prepare
    <2>m. m \in Markers
      BY <2>0 DEF Markers
    <2>2. \/ marker' = m /\ GoTo(IF Action = "install" THEN "publish" ELSE "move_out")
          \/ marker' \in {marker, m} /\ Raise("transaction_failed")
      BY <1>18 DEF Prepare, WriteMarker
    <2>3. pc = "prepare" /\ UNCHANGED <<entries, temporary, touched, told>>
      BY <1>18 DEF Prepare
    <2> HIDE DEF m
    <2>4. QED
      BY <2>m, <2>2, <2>3, Outcomes DEF Raise
  <1>19. CASE MoveToQuarantine
    BY <1>19 DEF MoveToQuarantine, Is, Raise
  <1>20. CASE MarkQuarantined
    <2> DEFINE m == [marker EXCEPT !.phase = "quarantined"]
    <2>0. marker \in Markers
      BY <1>20 DEF MarkQuarantined
    <2>m. m \in Markers
      BY <2>0 DEF Markers
    <2>2. \/ marker' = m /\ GoTo(IF Action = "replace" THEN "publish" ELSE "mark_published")
          \/ marker' \in {marker, m} /\ Raise("transaction_failed")
      BY <1>20 DEF MarkQuarantined, WriteMarker
    <2>3. pc = "mark_quarantined" /\ UNCHANGED <<entries, temporary, touched, told>>
      BY <1>20 DEF MarkQuarantined
    <2> HIDE DEF m
    <2>4. QED
      BY <2>m, <2>2, <2>3 DEF Raise
  <1>21. CASE PublishStage
    BY <1>21 DEF PublishStage, Raise
  <1>22. CASE MarkPublished
    <2> DEFINE m == [marker EXCEPT !.phase = "published"]
    <2>0. marker \in Markers
      BY <1>22 DEF MarkPublished
    <2>m. m \in Markers
      BY <2>0 DEF Markers
    <2>2. \/ marker' = m /\ GoTo("clean_up") /\ UNCHANGED told
          \/ /\ marker' \in {marker, m}
             /\ \/ Raise("transaction_failed") /\ UNCHANGED told
                \/ Fail
      BY <1>22 DEF MarkPublished
    <2>3. pc = "mark_published" /\ UNCHANGED <<entries, temporary, touched>>
      BY <1>22 DEF MarkPublished
    <2> HIDE DEF m
    <2>4. QED
      BY <2>m, <2>2, <2>3 DEF Raise
  <1>23. CASE RemoveQuarantine
    BY <1>23 DEF RemoveQuarantine
  <1>24. CASE ClearMarker
    BY <1>24 DEF ClearMarker, Raise, Success, Action
  <1>25. CASE UndoInstall
    BY <1>25 DEF UndoInstall
  <1>26. CASE RollbackReplace
    BY <1>26 DEF RollbackReplace, Is
  <1>27. CASE UndoRemove
    BY <1>27 DEF UndoRemove
  <1>28. CASE UndoStage
    BY <1>28 DEF UndoStage
  <1>29. CASE ClearMarkerBestEffort
    BY <1>29 DEF ClearMarkerBestEffort
  <1>30. CASE UndoFails
    BY <1>30 DEF UndoFails
  <1>31. CASE ProcessDies
    BY <1>31 DEF ProcessDies
  <1>32. CASE UserChanges
    BY <1>32 DEF UserChanges, BudgetsTyped, Identities, working, journal
  <1>33. CASE UNCHANGED ownVars
    BY <1>33 DEF ownVars, entries, journal, working, budgets
  <1>34. QED
    BY <1>1, <1>2, <1>3, <1>4, <1>5, <1>6, <1>7, <1>8, <1>9, <1>10, <1>11, <1>12, <1>13, <1>14, <1>15, <1>16, <1>17, <1>18, <1>19, <1>20, <1>21, <1>22, <1>23, <1>24, <1>25, <1>26, <1>27, <1>28, <1>29, <1>30, <1>31, <1>32, <1>33 DEF PackageNext, OtherPackages, packageVars, Work, Beginning, Recovery, Operation, Undoing

LEMMA WorkingStep == SkillInv /\ [PackageNext]_packageVars => Working'
  <1> SUFFICES ASSUME SkillInv, [PackageNext]_packageVars PROVE Working'
    OBVIOUS
  <1>0. LocalTyped /\ EntriesTyped /\ Working
    BY TypeParts DEF SkillInv
  <1> USE <1>0, SkillConstants, EntryFacts DEF Absent, GoTo, Return, Fail, Early, Staging, Marked, Undo, Doing, Requests, EntriesTyped, LocalTyped, Working
  <1>1. ASSUME NEW r \in {"install", "replace", "remove", "recover"}, StartRequest(r) PROVE Working'
    BY <1>1 DEF StartRequest
  <1>2. CASE OpenSource
    BY <1>2 DEF OpenSource
  <1>3. CASE ReadDirectory
    BY <1>3 DEF ReadDirectory, Validated
  <1>4. CASE ReadArchive
    BY <1>4 DEF ReadArchive, Validated
  <1>5. CASE Lock
    BY <1>5 DEF Lock
  <1>6. CASE RecoverMarkerTemporary
    BY <1>6 DEF RecoverMarkerTemporary
  <1>7. CASE RecoverOrphanStages
    BY <1>7 DEF RecoverOrphanStages, OrphanStages
  <1>8. CASE RecoverInstall
    BY <1>8 DEF RecoverInstall, Is
  <1>9. CASE RecoverReplace
    BY <1>9 DEF RecoverReplace, Is
  <1>10. CASE RecoverRemove
    BY <1>10 DEF RecoverRemove, Is
  <1>11. CASE NothingToRecover
    BY <1>11 DEF NothingToRecover
  <1>12. CASE Drop
    BY <1>12 DEF Drop
  <1>13. CASE ClearRecovered
    BY <1>13 DEF ClearRecovered
  <1>14. CASE BeginOperation
    BY <1>14 DEF BeginOperation
  <1>15. CASE WriteStage
    BY <1>15 DEF WriteStage
  <1>16. CASE LookAtTarget
    BY <1>16 DEF LookAtTarget
  <1>17. CASE DiscardStage
    BY <1>17 DEF DiscardStage
  <1>18. CASE Prepare
    BY <1>18 DEF Prepare, WriteMarker, Raise, Action
  <1>19. CASE MoveToQuarantine
    BY <1>19 DEF MoveToQuarantine, Is, Raise
  <1>20. CASE MarkQuarantined
    BY <1>20 DEF MarkQuarantined, WriteMarker, Raise
  <1>21. CASE PublishStage
    BY <1>21 DEF PublishStage, Raise
  <1>22. CASE MarkPublished
    BY <1>22 DEF MarkPublished, Raise
  <1>23. CASE RemoveQuarantine
    BY <1>23 DEF RemoveQuarantine
  <1>24. CASE ClearMarker
    BY <1>24 DEF ClearMarker, Raise, Success, Action
  <1>25. CASE UndoInstall
    BY <1>25 DEF UndoInstall
  <1>26. CASE RollbackReplace
    BY <1>26 DEF RollbackReplace, Is
  <1>27. CASE UndoRemove
    BY <1>27 DEF UndoRemove
  <1>28. CASE UndoStage
    BY <1>28 DEF UndoStage
  <1>29. CASE ClearMarkerBestEffort
    BY <1>29 DEF ClearMarkerBestEffort
  <1>30. CASE UndoFails
    BY <1>30 DEF UndoFails
  <1>31. CASE ProcessDies
    BY <1>31 DEF ProcessDies
  <1>32. CASE UserChanges
    BY <1>32 DEF UserChanges, BudgetsTyped, Identities, working, journal
  <1>33. CASE UNCHANGED ownVars
    BY <1>33 DEF ownVars, entries, journal, working, budgets
  <1>34. QED
    BY <1>1, <1>2, <1>3, <1>4, <1>5, <1>6, <1>7, <1>8, <1>9, <1>10, <1>11, <1>12, <1>13, <1>14, <1>15, <1>16, <1>17, <1>18, <1>19, <1>20, <1>21, <1>22, <1>23, <1>24, <1>25, <1>26, <1>27, <1>28, <1>29, <1>30, <1>31, <1>32, <1>33 DEF PackageNext, OtherPackages, packageVars, Work, Beginning, Recovery, Operation, Undoing

LEMMA NumberedStep == SkillInv /\ [PackageNext]_packageVars => Numbered'
  <1> SUFFICES ASSUME SkillInv, [PackageNext]_packageVars PROVE Numbered'
    OBVIOUS
  <1>0. LocalTyped /\ ToldTyped /\ Numbered
    BY TypeParts DEF SkillInv
  <1> USE <1>0, SkillConstants DEF GoTo, Return, Fail, Requests, LocalTyped, ToldTyped, Numbered
  <1>1. ASSUME NEW r \in {"install", "replace", "remove", "recover"}, StartRequest(r) PROVE Numbered'
    BY <1>1 DEF StartRequest
  <1>2. CASE OpenSource
    BY <1>2 DEF OpenSource
  <1>3. CASE ReadDirectory
    BY <1>3 DEF ReadDirectory, Validated
  <1>4. CASE ReadArchive
    BY <1>4 DEF ReadArchive, Validated
  <1>5. CASE Lock
    BY <1>5 DEF Lock
  <1>6. CASE RecoverMarkerTemporary
    BY <1>6 DEF RecoverMarkerTemporary
  <1>7. CASE RecoverOrphanStages
    BY <1>7 DEF RecoverOrphanStages, OrphanStages
  <1>8. CASE RecoverInstall
    BY <1>8 DEF RecoverInstall, Is
  <1>9. CASE RecoverReplace
    BY <1>9 DEF RecoverReplace, Is
  <1>10. CASE RecoverRemove
    BY <1>10 DEF RecoverRemove, Is
  <1>11. CASE NothingToRecover
    BY <1>11 DEF NothingToRecover
  <1>12. CASE Drop
    BY <1>12 DEF Drop
  <1>13. CASE ClearRecovered
    BY <1>13 DEF ClearRecovered
  <1>14. CASE BeginOperation
    BY <1>14 DEF BeginOperation
  <1>15. CASE WriteStage
    BY <1>15 DEF WriteStage
  <1>16. CASE LookAtTarget
    BY <1>16 DEF LookAtTarget
  <1>17. CASE DiscardStage
    BY <1>17 DEF DiscardStage
  <1>18. CASE Prepare
    BY <1>18 DEF Prepare, WriteMarker, Raise, Action
  <1>19. CASE MoveToQuarantine
    BY <1>19 DEF MoveToQuarantine, Is, Raise
  <1>20. CASE MarkQuarantined
    BY <1>20 DEF MarkQuarantined, WriteMarker, Raise
  <1>21. CASE PublishStage
    BY <1>21 DEF PublishStage, Raise
  <1>22. CASE MarkPublished
    BY <1>22 DEF MarkPublished, Raise
  <1>23. CASE RemoveQuarantine
    BY <1>23 DEF RemoveQuarantine
  <1>24. CASE ClearMarker
    BY <1>24 DEF ClearMarker, Raise, Success, Action
  <1>25. CASE UndoInstall
    BY <1>25 DEF UndoInstall
  <1>26. CASE RollbackReplace
    BY <1>26 DEF RollbackReplace, Is
  <1>27. CASE UndoRemove
    BY <1>27 DEF UndoRemove
  <1>28. CASE UndoStage
    BY <1>28 DEF UndoStage
  <1>29. CASE ClearMarkerBestEffort
    BY <1>29 DEF ClearMarkerBestEffort
  <1>30. CASE UndoFails
    BY <1>30 DEF UndoFails
  <1>31. CASE ProcessDies
    BY <1>31 DEF ProcessDies
  <1>32. CASE UserChanges
    BY <1>32 DEF UserChanges, BudgetsTyped, Identities, working, journal
  <1>33. CASE UNCHANGED ownVars
    BY <1>33 DEF ownVars, entries, journal, working, budgets
  <1>34. QED
    BY <1>1, <1>2, <1>3, <1>4, <1>5, <1>6, <1>7, <1>8, <1>9, <1>10, <1>11, <1>12, <1>13, <1>14, <1>15, <1>16, <1>17, <1>18, <1>19, <1>20, <1>21, <1>22, <1>23, <1>24, <1>25, <1>26, <1>27, <1>28, <1>29, <1>30, <1>31, <1>32, <1>33 DEF PackageNext, OtherPackages, packageVars, Work, Beginning, Recovery, Operation, Undoing

LEMMA MarkingStep == SkillInv /\ [PackageNext]_packageVars => Marking'
  <1> SUFFICES ASSUME SkillInv, [PackageNext]_packageVars PROVE Marking'
    OBVIOUS
  <1>0. MarkerTyped /\ LocalTyped /\ ToldTyped /\ Working /\ Numbered /\ Marking
    BY TypeParts DEF SkillInv
  <1> USE <1>0, SkillConstants, MarkerFields DEF GoTo, Return, Fail, Action, Absent, Early, Unmarked, Staging, Marked, Undo, Doing, Requests, Successes, journal, working, MarkerTyped, LocalTyped, ToldTyped, Working, Numbered, Marking
  <1>1. ASSUME NEW r \in {"install", "replace", "remove", "recover"}, StartRequest(r) PROVE Marking'
    BY <1>1 DEF StartRequest
  <1>2. CASE OpenSource
    BY <1>2 DEF OpenSource
  <1>3. CASE ReadDirectory
    BY <1>3 DEF ReadDirectory, Validated
  <1>4. CASE ReadArchive
    BY <1>4 DEF ReadArchive, Validated
  <1>5. CASE Lock
    BY <1>5 DEF Lock
  <1>6. CASE RecoverMarkerTemporary
    BY <1>6 DEF RecoverMarkerTemporary
  <1>7. CASE RecoverOrphanStages
    BY <1>7 DEF RecoverOrphanStages, OrphanStages
  <1>8. CASE RecoverInstall
    BY <1>8 DEF RecoverInstall, Is
  <1>9. CASE RecoverReplace
    BY <1>9 DEF RecoverReplace, Is
  <1>10. CASE RecoverRemove
    BY <1>10 DEF RecoverRemove, Is
  <1>11. CASE NothingToRecover
    BY <1>11 DEF NothingToRecover
  <1>12. CASE Drop
    BY <1>12 DEF Drop
  <1>13. CASE ClearRecovered
    BY <1>13 DEF ClearRecovered
  <1>14. CASE BeginOperation
    BY <1>14 DEF BeginOperation
  <1>15. CASE WriteStage
    BY <1>15 DEF WriteStage
  <1>16. CASE LookAtTarget
    BY <1>16 DEF LookAtTarget
  <1>17. CASE DiscardStage
    BY <1>17 DEF DiscardStage
  <1>18. CASE Prepare
    <2> DEFINE m == [action |-> Action, phase |-> "prepared", op |-> op, original |-> original]
    <2>0. /\ Action \in {"install", "replace", "remove"} /\ op \in Ops
          /\ original \in Identities \cup {None}
      BY <1>18 DEF Prepare
    <2>1. m # None /\ m.action = Action /\ m.op = op /\ m.original = original
      BY <2>0, NoneAssumption DEF Markers
    <2>2. \/ marker' = m /\ GoTo(IF Action = "install" THEN "publish" ELSE "move_out")
          \/ marker' \in {marker, m} /\ Raise("transaction_failed")
      BY <1>18 DEF Prepare, WriteMarker
    <2>3. pc = "prepare" /\ UNCHANGED <<entries, temporary, touched, told>>
      BY <1>18 DEF Prepare
    <2> HIDE DEF m
    <2>4. QED
      BY <2>1, <2>2, <2>3, Outcomes DEF Raise
  <1>19. CASE MoveToQuarantine
    BY <1>19 DEF MoveToQuarantine, Is, Raise
  <1>20. CASE MarkQuarantined
    <2> DEFINE m == [marker EXCEPT !.phase = "quarantined"]
    <2>0. marker \in Markers
      BY <1>20 DEF MarkQuarantined
    <2>1. /\ m # None /\ m.action = marker.action /\ m.op = marker.op
          /\ m.original = marker.original
      BY <2>0, NoneAssumption DEF Markers
    <2>2. \/ marker' = m /\ GoTo(IF Action = "replace" THEN "publish" ELSE "mark_published")
          \/ marker' \in {marker, m} /\ Raise("transaction_failed")
      BY <1>20 DEF MarkQuarantined, WriteMarker
    <2>3. pc = "mark_quarantined" /\ UNCHANGED <<entries, temporary, touched, told>>
      BY <1>20 DEF MarkQuarantined
    <2> HIDE DEF m
    <2>4. QED
      BY <2>1, <2>2, <2>3 DEF Raise
  <1>21. CASE PublishStage
    BY <1>21 DEF PublishStage, Raise
  <1>22. CASE MarkPublished
    <2> DEFINE m == [marker EXCEPT !.phase = "published"]
    <2>0. marker \in Markers
      BY <1>22 DEF MarkPublished
    <2>1. /\ m # None /\ m.action = marker.action /\ m.op = marker.op
          /\ m.original = marker.original /\ m.phase = "published"
      BY <2>0, NoneAssumption DEF Markers
    <2>2. \/ marker' = m /\ GoTo("clean_up") /\ UNCHANGED told
          \/ /\ marker' \in {marker, m}
             /\ \/ Raise("transaction_failed") /\ UNCHANGED told
                \/ Fail
      BY <1>22 DEF MarkPublished
    <2>3. pc = "mark_published" /\ UNCHANGED <<entries, temporary, touched>>
      BY <1>22 DEF MarkPublished
    <2> HIDE DEF m
    <2>4. QED
      BY <2>1, <2>2, <2>3 DEF Raise
  <1>23. CASE RemoveQuarantine
    BY <1>23 DEF RemoveQuarantine
  <1>24. CASE ClearMarker
    BY <1>24 DEF ClearMarker, Raise, Success, Action
  <1>25. CASE UndoInstall
    BY <1>25 DEF UndoInstall
  <1>26. CASE RollbackReplace
    BY <1>26 DEF RollbackReplace, Is
  <1>27. CASE UndoRemove
    BY <1>27 DEF UndoRemove
  <1>28. CASE UndoStage
    BY <1>28 DEF UndoStage
  <1>29. CASE ClearMarkerBestEffort
    BY <1>29 DEF ClearMarkerBestEffort
  <1>30. CASE UndoFails
    BY <1>30 DEF UndoFails
  <1>31. CASE ProcessDies
    BY <1>31 DEF ProcessDies
  <1>32. CASE UserChanges
    BY <1>32 DEF UserChanges, BudgetsTyped, Identities, working, journal
  <1>33. CASE UNCHANGED ownVars
    BY <1>33 DEF ownVars, entries, journal, working, budgets
  <1>34. QED
    BY <1>1, <1>2, <1>3, <1>4, <1>5, <1>6, <1>7, <1>8, <1>9, <1>10, <1>11, <1>12, <1>13, <1>14, <1>15, <1>16, <1>17, <1>18, <1>19, <1>20, <1>21, <1>22, <1>23, <1>24, <1>25, <1>26, <1>27, <1>28, <1>29, <1>30, <1>31, <1>32, <1>33 DEF PackageNext, OtherPackages, packageVars, Work, Beginning, Recovery, Operation, Undoing

LEMMA QuarantinedStep == SkillInv /\ [PackageNext]_packageVars => Quarantined'
  <1> SUFFICES ASSUME SkillInv, [PackageNext]_packageVars PROVE Quarantined'
    OBVIOUS
  <1>0. EntriesTyped /\ MarkerTyped /\ LocalTyped /\ Working /\ Numbered /\ Marking /\ Quarantined
    BY TypeParts DEF SkillInv
  <1> USE <1>0, SkillConstants, MarkerFields, EntryFacts DEF GoTo, Return, Fail, Action, Absent, Early, Unmarked, Staging, Marked, Undo, Doing, Requests, entries, journal, working, EntriesTyped, MarkerTyped, LocalTyped, Working, Numbered, Marking, Quarantined
  <1>1. ASSUME NEW r \in {"install", "replace", "remove", "recover"}, StartRequest(r) PROVE Quarantined'
    BY <1>1 DEF StartRequest
  <1>2. CASE OpenSource
    BY <1>2 DEF OpenSource
  <1>3. CASE ReadDirectory
    BY <1>3 DEF ReadDirectory, Validated
  <1>4. CASE ReadArchive
    BY <1>4 DEF ReadArchive, Validated
  <1>5. CASE Lock
    BY <1>5 DEF Lock
  <1>6. CASE RecoverMarkerTemporary
    BY <1>6 DEF RecoverMarkerTemporary
  <1>7. CASE RecoverOrphanStages
    BY <1>7 DEF RecoverOrphanStages, OrphanStages
  <1>8. CASE RecoverInstall
    BY <1>8 DEF RecoverInstall, Is
  <1>9. CASE RecoverReplace
    BY <1>9 DEF RecoverReplace, Is
  <1>10. CASE RecoverRemove
    BY <1>10 DEF RecoverRemove, Is
  <1>11. CASE NothingToRecover
    BY <1>11 DEF NothingToRecover
  <1>12. CASE Drop
    BY <1>12 DEF Drop
  <1>13. CASE ClearRecovered
    BY <1>13 DEF ClearRecovered
  <1>14. CASE BeginOperation
    BY <1>14 DEF BeginOperation
  <1>15. CASE WriteStage
    BY <1>15 DEF WriteStage
  <1>16. CASE LookAtTarget
    BY <1>16 DEF LookAtTarget
  <1>17. CASE DiscardStage
    BY <1>17 DEF DiscardStage
  <1>18. CASE Prepare
    BY <1>18 DEF Prepare, WriteMarker, Raise, Action
  <1>19. CASE MoveToQuarantine
    BY <1>19 DEF MoveToQuarantine, Is, Raise
  <1>20. CASE MarkQuarantined
    <2> DEFINE m == [marker EXCEPT !.phase = "quarantined"]
    <2>0. marker \in Markers
      BY <1>20 DEF MarkQuarantined
    <2>1. /\ m # None /\ m.action = marker.action /\ m.op = marker.op
          /\ m.original = marker.original
      BY <2>0, NoneAssumption DEF Markers
    <2>2. \/ marker' = m /\ GoTo(IF Action = "replace" THEN "publish" ELSE "mark_published")
          \/ marker' \in {marker, m} /\ Raise("transaction_failed")
      BY <1>20 DEF MarkQuarantined, WriteMarker
    <2>3. pc = "mark_quarantined" /\ UNCHANGED <<entries, temporary, touched, told>>
      BY <1>20 DEF MarkQuarantined
    <2> HIDE DEF m
    <2>4. QED
      BY <2>1, <2>2, <2>3 DEF Raise
  <1>21. CASE PublishStage
    BY <1>21 DEF PublishStage, Raise
  <1>22. CASE MarkPublished
    <2> DEFINE m == [marker EXCEPT !.phase = "published"]
    <2>0. marker \in Markers
      BY <1>22 DEF MarkPublished
    <2>1. /\ m # None /\ m.action = marker.action /\ m.op = marker.op
          /\ m.original = marker.original /\ m.phase = "published"
      BY <2>0, NoneAssumption DEF Markers
    <2>2. \/ marker' = m /\ GoTo("clean_up") /\ UNCHANGED told
          \/ /\ marker' \in {marker, m}
             /\ \/ Raise("transaction_failed") /\ UNCHANGED told
                \/ Fail
      BY <1>22 DEF MarkPublished
    <2>3. pc = "mark_published" /\ UNCHANGED <<entries, temporary, touched>>
      BY <1>22 DEF MarkPublished
    <2> HIDE DEF m
    <2>4. QED
      BY <2>1, <2>2, <2>3 DEF Raise
  <1>23. CASE RemoveQuarantine
    BY <1>23 DEF RemoveQuarantine
  <1>24. CASE ClearMarker
    BY <1>24 DEF ClearMarker, Raise, Success, Action
  <1>25. CASE UndoInstall
    BY <1>25 DEF UndoInstall
  <1>26. CASE RollbackReplace
    BY <1>26 DEF RollbackReplace, Is
  <1>27. CASE UndoRemove
    BY <1>27 DEF UndoRemove
  <1>28. CASE UndoStage
    BY <1>28 DEF UndoStage
  <1>29. CASE ClearMarkerBestEffort
    BY <1>29 DEF ClearMarkerBestEffort
  <1>30. CASE UndoFails
    BY <1>30 DEF UndoFails
  <1>31. CASE ProcessDies
    BY <1>31 DEF ProcessDies
  <1>32. CASE UserChanges
    BY <1>32 DEF UserChanges, BudgetsTyped, Identities, working, journal
  <1>33. CASE UNCHANGED ownVars
    BY <1>33 DEF ownVars, entries, journal, working, budgets
  <1>34. QED
    BY <1>1, <1>2, <1>3, <1>4, <1>5, <1>6, <1>7, <1>8, <1>9, <1>10, <1>11, <1>12, <1>13, <1>14, <1>15, <1>16, <1>17, <1>18, <1>19, <1>20, <1>21, <1>22, <1>23, <1>24, <1>25, <1>26, <1>27, <1>28, <1>29, <1>30, <1>31, <1>32, <1>33 DEF PackageNext, OtherPackages, packageVars, Work, Beginning, Recovery, Operation, Undoing

LEMMA StagedStep == SkillInv /\ [PackageNext]_packageVars => StagedWhole'
  <1> SUFFICES ASSUME SkillInv, [PackageNext]_packageVars PROVE StagedWhole'
    OBVIOUS
  <1>0. EntriesTyped /\ MarkerTyped /\ LocalTyped /\ Working /\ Numbered /\ Marking /\ StagedWhole
    BY TypeParts DEF SkillInv
  <1> USE <1>0, SkillConstants, MarkerFields, EntryFacts DEF GoTo, Return, Fail, Action, Absent, Early, Unmarked, Staging, Marked, Undo, Doing, Published, Requests, entries, journal, working, EntriesTyped, MarkerTyped, LocalTyped, Working, Numbered, Marking, StagedWhole
  <1>1. ASSUME NEW r \in {"install", "replace", "remove", "recover"}, StartRequest(r) PROVE StagedWhole'
    BY <1>1 DEF StartRequest
  <1>2. CASE OpenSource
    BY <1>2 DEF OpenSource
  <1>3. CASE ReadDirectory
    BY <1>3 DEF ReadDirectory, Validated
  <1>4. CASE ReadArchive
    BY <1>4 DEF ReadArchive, Validated
  <1>5. CASE Lock
    BY <1>5 DEF Lock
  <1>6. CASE RecoverMarkerTemporary
    BY <1>6 DEF RecoverMarkerTemporary
  <1>7. CASE RecoverOrphanStages
    BY <1>7 DEF RecoverOrphanStages, OrphanStages
  <1>8. CASE RecoverInstall
    BY <1>8 DEF RecoverInstall, Is
  <1>9. CASE RecoverReplace
    BY <1>9 DEF RecoverReplace, Is
  <1>10. CASE RecoverRemove
    BY <1>10 DEF RecoverRemove, Is
  <1>11. CASE NothingToRecover
    BY <1>11 DEF NothingToRecover
  <1>12. CASE Drop
    BY <1>12 DEF Drop
  <1>13. CASE ClearRecovered
    BY <1>13 DEF ClearRecovered
  <1>14. CASE BeginOperation
    BY <1>14 DEF BeginOperation
  <1>15. CASE WriteStage
    <2> DEFINE new == [id |-> op, whole |-> ~Absent(stage[op])]
    <2>1. op \in Ops /\ pc = "stage" /\ request # "remove" /\ UNCHANGED <<marker, touched>>
      BY <1>15 DEF WriteStage
    <2>2. \/ /\ stage' = [stage EXCEPT ![op] = new]
             /\ GoTo(IF Absent(stage[op]) THEN "stage" ELSE "look")
          \/ UNCHANGED <<stage, request, op, original>> /\ pc' = "discard_stage"
      BY <1>15 DEF WriteStage
    <2>3. Absent(stage[op]) => new = [id |-> op, whole |-> FALSE]
      OBVIOUS
    <2>4. ~Absent(stage[op]) => new = [id |-> op, whole |-> TRUE]
      OBVIOUS
    <2> HIDE DEF new
    <2>5. CASE UNCHANGED <<stage, request, op, original>> /\ pc' = "discard_stage"
      BY <2>1, <2>5
    <2>6. CASE Absent(stage[op]) /\ stage' = [stage EXCEPT ![op] = new] /\ GoTo("stage")
      BY <2>1, <2>3, <2>6
    <2>7. CASE ~Absent(stage[op]) /\ stage' = [stage EXCEPT ![op] = new] /\ GoTo("look")
      BY <2>1, <2>4, <2>7
    <2>8. QED
      BY <2>2, <2>5, <2>6, <2>7
  <1>16. CASE LookAtTarget
    BY <1>16 DEF LookAtTarget
  <1>17. CASE DiscardStage
    BY <1>17 DEF DiscardStage
  <1>18. CASE Prepare
    BY <1>18 DEF Prepare, WriteMarker, Raise, Action
  <1>19. CASE MoveToQuarantine
    BY <1>19 DEF MoveToQuarantine, Is, Raise
  <1>20. CASE MarkQuarantined
    BY <1>20 DEF MarkQuarantined, WriteMarker, Raise
  <1>21. CASE PublishStage
    BY <1>21 DEF PublishStage, Raise
  <1>22. CASE MarkPublished
    BY <1>22 DEF MarkPublished, Raise
  <1>23. CASE RemoveQuarantine
    BY <1>23 DEF RemoveQuarantine
  <1>24. CASE ClearMarker
    BY <1>24 DEF ClearMarker, Raise, Success, Action
  <1>25. CASE UndoInstall
    BY <1>25 DEF UndoInstall
  <1>26. CASE RollbackReplace
    BY <1>26 DEF RollbackReplace, Is
  <1>27. CASE UndoRemove
    BY <1>27 DEF UndoRemove
  <1>28. CASE UndoStage
    BY <1>28 DEF UndoStage
  <1>29. CASE ClearMarkerBestEffort
    BY <1>29 DEF ClearMarkerBestEffort
  <1>30. CASE UndoFails
    BY <1>30 DEF UndoFails
  <1>31. CASE ProcessDies
    BY <1>31 DEF ProcessDies
  <1>32. CASE UserChanges
    BY <1>32 DEF UserChanges, BudgetsTyped, Identities, working, journal
  <1>33. CASE UNCHANGED ownVars
    BY <1>33 DEF ownVars, entries, journal, working, budgets
  <1>34. QED
    BY <1>1, <1>2, <1>3, <1>4, <1>5, <1>6, <1>7, <1>8, <1>9, <1>10, <1>11, <1>12, <1>13, <1>14, <1>15, <1>16, <1>17, <1>18, <1>19, <1>20, <1>21, <1>22, <1>23, <1>24, <1>25, <1>26, <1>27, <1>28, <1>29, <1>30, <1>31, <1>32, <1>33 DEF PackageNext, OtherPackages, packageVars, Work, Beginning, Recovery, Operation, Undoing

LEMMA ResultStep == SkillInv /\ [PackageNext]_packageVars => Result'
  <1> SUFFICES ASSUME SkillInv, [PackageNext]_packageVars PROVE Result'
    OBVIOUS
  <1>0. EntriesTyped /\ LocalTyped /\ Working /\ Numbered /\ StagedWhole /\ Result
    BY TypeParts DEF SkillInv
  <1> USE <1>0, SkillConstants, EntryFacts DEF GoTo, Return, Fail, Action, Absent, Staging, Marked, Undo, Doing, Published, Requests, entries, journal, working, EntriesTyped, LocalTyped, Working, Numbered, StagedWhole, Result
  <1>1. ASSUME NEW r \in {"install", "replace", "remove", "recover"}, StartRequest(r) PROVE Result'
    BY <1>1 DEF StartRequest
  <1>2. CASE OpenSource
    BY <1>2 DEF OpenSource
  <1>3. CASE ReadDirectory
    BY <1>3 DEF ReadDirectory, Validated
  <1>4. CASE ReadArchive
    BY <1>4 DEF ReadArchive, Validated
  <1>5. CASE Lock
    BY <1>5 DEF Lock
  <1>6. CASE RecoverMarkerTemporary
    BY <1>6 DEF RecoverMarkerTemporary
  <1>7. CASE RecoverOrphanStages
    BY <1>7 DEF RecoverOrphanStages, OrphanStages
  <1>8. CASE RecoverInstall
    BY <1>8 DEF RecoverInstall, Is
  <1>9. CASE RecoverReplace
    BY <1>9 DEF RecoverReplace, Is
  <1>10. CASE RecoverRemove
    BY <1>10 DEF RecoverRemove, Is
  <1>11. CASE NothingToRecover
    BY <1>11 DEF NothingToRecover
  <1>12. CASE Drop
    BY <1>12 DEF Drop
  <1>13. CASE ClearRecovered
    BY <1>13 DEF ClearRecovered
  <1>14. CASE BeginOperation
    BY <1>14 DEF BeginOperation
  <1>15. CASE WriteStage
    BY <1>15 DEF WriteStage
  <1>16. CASE LookAtTarget
    BY <1>16 DEF LookAtTarget
  <1>17. CASE DiscardStage
    BY <1>17 DEF DiscardStage
  <1>18. CASE Prepare
    BY <1>18 DEF Prepare, WriteMarker, Raise, Action
  <1>19. CASE MoveToQuarantine
    BY <1>19 DEF MoveToQuarantine, Is, Raise
  <1>20. CASE MarkQuarantined
    BY <1>20 DEF MarkQuarantined, WriteMarker, Raise
  <1>21. CASE PublishStage
    BY <1>21 DEF PublishStage, Raise
  <1>22. CASE MarkPublished
    BY <1>22 DEF MarkPublished, Raise
  <1>23. CASE RemoveQuarantine
    BY <1>23 DEF RemoveQuarantine
  <1>24. CASE ClearMarker
    BY <1>24 DEF ClearMarker, Raise, Success, Action
  <1>25. CASE UndoInstall
    BY <1>25 DEF UndoInstall
  <1>26. CASE RollbackReplace
    BY <1>26 DEF RollbackReplace, Is
  <1>27. CASE UndoRemove
    BY <1>27 DEF UndoRemove
  <1>28. CASE UndoStage
    BY <1>28 DEF UndoStage
  <1>29. CASE ClearMarkerBestEffort
    BY <1>29 DEF ClearMarkerBestEffort
  <1>30. CASE UndoFails
    BY <1>30 DEF UndoFails
  <1>31. CASE ProcessDies
    BY <1>31 DEF ProcessDies
  <1>32. CASE UserChanges
    BY <1>32 DEF UserChanges, BudgetsTyped, Identities, working, journal
  <1>33. CASE UNCHANGED ownVars
    BY <1>33 DEF ownVars, entries, journal, working, budgets
  <1>34. QED
    BY <1>1, <1>2, <1>3, <1>4, <1>5, <1>6, <1>7, <1>8, <1>9, <1>10, <1>11, <1>12, <1>13, <1>14, <1>15, <1>16, <1>17, <1>18, <1>19, <1>20, <1>21, <1>22, <1>23, <1>24, <1>25, <1>26, <1>27, <1>28, <1>29, <1>30, <1>31, <1>32, <1>33 DEF PackageNext, OtherPackages, packageVars, Work, Beginning, Recovery, Operation, Undoing

\* The package id is lost for the user: nothing holds it any more.
Lost(id) == Accepted(id) /\ Holds(id) /\ ~Holds(id)'

LEMMA LossStep ==
    SkillInv /\ [PackageNext]_packageVars =>
        \A id \in Identities : Lost(id) /\ edits' = edits =>
            marker # None /\ marker.phase = "published" /\ marker.original = id
  <1> SUFFICES ASSUME SkillInv, [PackageNext]_packageVars,
                      NEW id \in Identities, Lost(id), edits' = edits
               PROVE  marker # None /\ marker.phase = "published" /\ marker.original = id
    OBVIOUS
  <1> DEFINE Goal == marker # None /\ marker.phase = "published" /\ marker.original = id
  <1>0. EntriesTyped /\ MarkerTyped /\ LocalTyped /\ Working /\ Numbered /\ Marking /\ Quarantined
    BY TypeParts DEF SkillInv
  <1> USE <1>0, SkillConstants, MarkerFields, EntryFacts DEF GoTo, Return, Fail, Action, Absent, Staging, Marked, Undo, Doing, Requests, Successes, entries, journal, working, EntriesTyped, MarkerTyped, LocalTyped, Working, Numbered, Marking, Quarantined, Lost, Accepted, Holds, Is
  <1>1. ASSUME NEW r \in {"install", "replace", "remove", "recover"}, StartRequest(r) PROVE Goal
    BY <1>1 DEF StartRequest
  <1>2. CASE OpenSource
    BY <1>2 DEF OpenSource
  <1>3. CASE ReadDirectory
    BY <1>3 DEF ReadDirectory, Validated
  <1>4. CASE ReadArchive
    BY <1>4 DEF ReadArchive, Validated
  <1>5. CASE Lock
    BY <1>5 DEF Lock
  <1>6. CASE RecoverMarkerTemporary
    BY <1>6 DEF RecoverMarkerTemporary
  <1>7. CASE RecoverOrphanStages
    BY <1>7 DEF RecoverOrphanStages, OrphanStages
  <1>8. CASE RecoverInstall
    BY <1>8 DEF RecoverInstall, Is
  <1>9. CASE RecoverReplace
    BY <1>9 DEF RecoverReplace, Is
  <1>10. CASE RecoverRemove
    BY <1>10 DEF RecoverRemove, Is
  <1>11. CASE NothingToRecover
    BY <1>11 DEF NothingToRecover
  <1>12. CASE Drop
    BY <1>12 DEF Drop
  <1>13. CASE ClearRecovered
    BY <1>13 DEF ClearRecovered
  <1>14. CASE BeginOperation
    BY <1>14 DEF BeginOperation
  <1>15. CASE WriteStage
    BY <1>15 DEF WriteStage
  <1>16. CASE LookAtTarget
    BY <1>16 DEF LookAtTarget
  <1>17. CASE DiscardStage
    BY <1>17 DEF DiscardStage
  <1>18. CASE Prepare
    BY <1>18 DEF Prepare, WriteMarker, Raise, Action
  <1>19. CASE MoveToQuarantine
    BY <1>19 DEF MoveToQuarantine, Is, Raise
  <1>20. CASE MarkQuarantined
    BY <1>20 DEF MarkQuarantined, WriteMarker, Raise
  <1>21. CASE PublishStage
    BY <1>21 DEF PublishStage, Raise
  <1>22. CASE MarkPublished
    BY <1>22 DEF MarkPublished, Raise
  <1>23. CASE RemoveQuarantine
    BY <1>23 DEF RemoveQuarantine
  <1>24. CASE ClearMarker
    BY <1>24 DEF ClearMarker, Raise, Success, Action
  <1>25. CASE UndoInstall
    BY <1>25 DEF UndoInstall
  <1>26. CASE RollbackReplace
    BY <1>26 DEF RollbackReplace, Is
  <1>27. CASE UndoRemove
    BY <1>27 DEF UndoRemove
  <1>28. CASE UndoStage
    BY <1>28 DEF UndoStage
  <1>29. CASE ClearMarkerBestEffort
    BY <1>29 DEF ClearMarkerBestEffort
  <1>30. CASE UndoFails
    BY <1>30 DEF UndoFails
  <1>31. CASE ProcessDies
    BY <1>31 DEF ProcessDies
  <1>32. CASE UserChanges
    BY <1>32 DEF UserChanges, BudgetsTyped, Identities, working, journal
  <1>33. CASE UNCHANGED ownVars
    BY <1>33 DEF ownVars, entries, journal, working, budgets
  <1>34. QED
    BY <1>1, <1>2, <1>3, <1>4, <1>5, <1>6, <1>7, <1>8, <1>9, <1>10, <1>11, <1>12, <1>13, <1>14, <1>15, <1>16, <1>17, <1>18, <1>19, <1>20, <1>21, <1>22, <1>23, <1>24, <1>25, <1>26, <1>27, <1>28, <1>29, <1>30, <1>31, <1>32, <1>33 DEF PackageNext, OtherPackages, packageVars, Work, Beginning, Recovery, Operation, Undoing

\* What the answer of the operation o promises holds when it is given.
Kept(o) ==
    /\ told'[o] \in Successes =>
          /\ marker' = None /\ Absent(stage'[o]) /\ Absent(quarantine'[o])
          /\ touched \/ IF told'[o] = "removed" THEN Absent(target')
                        ELSE target' = [id |-> o, whole |-> TRUE]
    /\ told'[o] = "package_exists" /\ ~touched => Absent(stage'[o]) /\ target' # None

LEMMA AnswerStep ==
    SkillInv /\ [PackageNext]_packageVars =>
        \A o \in Ops : told'[o] # told[o] => Kept(o)
  <1> SUFFICES ASSUME SkillInv, [PackageNext]_packageVars,
                      NEW o \in Ops, told'[o] # told[o]
               PROVE  Kept(o)
    OBVIOUS
  <1> DEFINE Goal == Kept(o)
  <1>0. EntriesTyped /\ ToldTyped /\ LocalTyped /\ Working /\ Numbered /\ Marking /\ Quarantined /\ StagedWhole /\ Result
    BY TypeParts DEF SkillInv
  <1> USE <1>0, SkillConstants, EntryFacts DEF GoTo, Return, Fail, Action, Absent, Staging, Marked, Undo, Doing, Published, Requests, Successes, entries, journal, working, EntriesTyped, ToldTyped, LocalTyped, Working, Numbered, Marking, Quarantined, StagedWhole, Result, Kept
  <1>1. ASSUME NEW r \in {"install", "replace", "remove", "recover"}, StartRequest(r) PROVE Goal
    BY <1>1 DEF StartRequest
  <1>2. CASE OpenSource
    BY <1>2 DEF OpenSource
  <1>3. CASE ReadDirectory
    BY <1>3 DEF ReadDirectory, Validated
  <1>4. CASE ReadArchive
    BY <1>4 DEF ReadArchive, Validated
  <1>5. CASE Lock
    BY <1>5 DEF Lock
  <1>6. CASE RecoverMarkerTemporary
    BY <1>6 DEF RecoverMarkerTemporary
  <1>7. CASE RecoverOrphanStages
    BY <1>7 DEF RecoverOrphanStages, OrphanStages
  <1>8. CASE RecoverInstall
    BY <1>8 DEF RecoverInstall, Is
  <1>9. CASE RecoverReplace
    BY <1>9 DEF RecoverReplace, Is
  <1>10. CASE RecoverRemove
    BY <1>10 DEF RecoverRemove, Is
  <1>11. CASE NothingToRecover
    BY <1>11 DEF NothingToRecover
  <1>12. CASE Drop
    BY <1>12 DEF Drop
  <1>13. CASE ClearRecovered
    BY <1>13 DEF ClearRecovered
  <1>14. CASE BeginOperation
    BY <1>14 DEF BeginOperation
  <1>15. CASE WriteStage
    BY <1>15 DEF WriteStage
  <1>16. CASE LookAtTarget
    BY <1>16 DEF LookAtTarget
  <1>17. CASE DiscardStage
    BY <1>17 DEF DiscardStage
  <1>18. CASE Prepare
    BY <1>18 DEF Prepare, WriteMarker, Raise, Action
  <1>19. CASE MoveToQuarantine
    BY <1>19 DEF MoveToQuarantine, Is, Raise
  <1>20. CASE MarkQuarantined
    BY <1>20 DEF MarkQuarantined, WriteMarker, Raise
  <1>21. CASE PublishStage
    BY <1>21 DEF PublishStage, Raise
  <1>22. CASE MarkPublished
    BY <1>22 DEF MarkPublished, Raise
  <1>23. CASE RemoveQuarantine
    BY <1>23 DEF RemoveQuarantine
  <1>24. CASE ClearMarker
    BY <1>24 DEF ClearMarker, Raise, Success, Action
  <1>25. CASE UndoInstall
    BY <1>25 DEF UndoInstall
  <1>26. CASE RollbackReplace
    BY <1>26 DEF RollbackReplace, Is
  <1>27. CASE UndoRemove
    BY <1>27 DEF UndoRemove
  <1>28. CASE UndoStage
    BY <1>28 DEF UndoStage
  <1>29. CASE ClearMarkerBestEffort
    BY <1>29 DEF ClearMarkerBestEffort
  <1>30. CASE UndoFails
    BY <1>30 DEF UndoFails
  <1>31. CASE ProcessDies
    BY <1>31 DEF ProcessDies
  <1>32. CASE UserChanges
    BY <1>32 DEF UserChanges, BudgetsTyped, Identities, working, journal
  <1>33. CASE UNCHANGED ownVars
    BY <1>33 DEF ownVars, entries, journal, working, budgets
  <1>34. QED
    BY <1>1, <1>2, <1>3, <1>4, <1>5, <1>6, <1>7, <1>8, <1>9, <1>10, <1>11, <1>12, <1>13, <1>14, <1>15, <1>16, <1>17, <1>18, <1>19, <1>20, <1>21, <1>22, <1>23, <1>24, <1>25, <1>26, <1>27, <1>28, <1>29, <1>30, <1>31, <1>32, <1>33 DEF PackageNext, OtherPackages, packageVars, Work, Beginning, Recovery, Operation, Undoing

LEMMA SkillInit == PackageInit => SkillInv
  <1> SUFFICES ASSUME PackageInit PROVE SkillInv
    OBVIOUS
  <1> USE SkillConstants, EntryFacts, Outcomes DEF PackageInit
  <1>1. TypeOK
    <2>1. EntriesTyped /\ MarkerTyped
      BY DEF EntriesTyped, MarkerTyped
    <2>2. LocalTyped
      BY DEF LocalTyped, Steps
    <2>3. ToldTyped /\ touched \in BOOLEAN
      BY DEF ToldTyped
    <2>4. BudgetsTyped
      <3>1. MaxEdits \in Nat /\ MaxCrashes \in Nat /\ MaxFaults \in Nat
        BY SkillConstants
      <3>2. QED
        BY <3>1 DEF BudgetsTyped
    <2>5. OthersTyped
      <3>1. MaxEntries \in Nat
        BY SkillConstants
      <3>2. QED
        BY <3>1 DEF OthersTyped
    <2>6. QED
      BY <2>1, <2>2, <2>3, <2>4, <2>5, TypeParts
  <1>2. Working /\ Numbered
    BY DEF Working, Numbered, Early, Doing, Staging, Marked, Undo, Requests
  <1>3. Marking /\ Quarantined
    BY DEF Marking, Quarantined, Unmarked, Early, Marked, Undo
  <1>4. StagedWhole /\ Result
    BY DEF StagedWhole, Result, Published, Requests, Undo
  <1>5. QED
    BY <1>1, <1>2, <1>3, <1>4 DEF SkillInv

\* However operations fail and die and whatever the user does meanwhile, the
\* stage, the quarantine and the marker are what the step of the operation says.
THEOREM SkillInvariant == PackageSpec => []SkillInv
  <1>1. SkillInv /\ [PackageNext]_packageVars => SkillInv'
    <2> SUFFICES ASSUME SkillInv, [PackageNext]_packageVars PROVE SkillInv'
      OBVIOUS
    <2>1. EntriesTyped' /\ MarkerTyped' /\ LocalTyped' /\ ToldTyped' /\ BudgetsTyped'
          /\ OthersTyped' /\ touched' \in BOOLEAN
      BY EntriesStep, MarkerTypedStep, LocalStep, ToldStep, BudgetStep, OthersStep, TypeParts
         DEF SkillInv
    <2>2. TypeOK'
      BY <2>1 DEF TypeOK, EntriesTyped, MarkerTyped, LocalTyped, ToldTyped, BudgetsTyped,
                  OthersTyped
    <2>3. Working' /\ Numbered' /\ Marking' /\ Quarantined' /\ StagedWhole' /\ Result'
      BY WorkingStep, NumberedStep, MarkingStep, QuarantinedStep, StagedStep, ResultStep
    <2>4. QED
      BY <2>2, <2>3 DEF SkillInv
  <1>2. QED
    BY SkillInit, <1>1, PTL DEF PackageSpec

\* A package in quarantine is always the original of the pending change that
\* the marker tells of: no crash or failure leaves one nothing explains.
THEOREM QuarantineExplained ==
    PackageSpec => [](\A o \in Ops : quarantine[o] # None =>
                  marker # None /\ marker.op = o /\ quarantine[o].id = marker.original)
  <1>1. SkillInv => \A o \in Ops : quarantine[o] # None =>
            marker # None /\ marker.op = o /\ quarantine[o].id = marker.original
    BY DEF SkillInv, Quarantined
  <1>2. QED
    BY SkillInvariant, <1>1, PTL

\* NothingLost of SkillPackages: what somebody relies on is destroyed by the
\* user, or after the marker of its replacement or removal says published.
THEOREM PackagesKept == PackageSpec => NothingLost
  <1>1. SkillInv /\ [PackageNext]_packageVars =>
            \A id \in Identities :
                Accepted(id) /\ Holds(id) /\ ~Holds(id)'
                => \/ edits' # edits
                   \/ marker # None /\ marker.phase = "published" /\ marker.original = id
    BY LossStep DEF Lost
  <1>2. QED
    BY SkillInvariant, <1>1, PTL DEF PackageSpec, NothingLost

\* ToldTruth of SkillPackages: an operation that reports success has left
\* exactly its result, one that reports package_exists no trace.
THEOREM AnswersTrue == PackageSpec => ToldTruth
  <1>1. SkillInv /\ [PackageNext]_packageVars =>
          \A o \in Ops : told'[o] # told[o] =>
          /\ told'[o] \in {"installed", "replaced", "removed"}
             => /\ marker' = None /\ Absent(stage'[o]) /\ Absent(quarantine'[o])
                /\ touched \/ IF told'[o] = "removed" THEN Absent(target')
                              ELSE target' = [id |-> o, whole |-> TRUE]
          /\ told'[o] = "package_exists" /\ ~touched => Absent(stage'[o]) /\ target' # None
    BY AnswerStep DEF Kept, Successes
  <1>2. QED
    BY SkillInvariant, <1>1, PTL DEF PackageSpec, ToldTruth
=============================================================================
