----------------------------- MODULE McpManager -----------------------------
(***************************************************************************)
(* One MCP server: extensions/mcp/manager.py, adapter.py, catalog.py,       *)
(* stdio.py, and the tools it owns in core/tools/registry.py.               *)
(*                                                                          *)
(* A connection is a session.  Its tools are registered under a generation, *)
(* and a call carries the generation its tool was resolved from.  One lock  *)
(* covers a call, a restart and a close.  A call whose outcome is unknown   *)
(* takes its session away, because the server may still be working on it.   *)
(***************************************************************************)
EXTENDS Integers, Sequences

CONSTANTS Calls, Admin, Free,
          MaxSessions,  \* bound: connections made
          MaxAdmin      \* bound: start, restart, enable, disable and close requests

ASSUME ManagerAssumption ==
    /\ {MaxSessions, MaxAdmin} \subseteq Nat
    /\ Admin \notin Calls /\ Free \notin Calls \cup {Admin}

VARIABLES
    server,    \* what the manager and the registry hold
    sessions,  \* every connection made, in order
    req,       \* each call's request to the server
    admin      \* the request that changes the server

managerVars == <<server, sessions, req, admin>>

-----------------------------------------------------------------------------

AdminOps == {"start", "restart", "enable", "disable", "close"}

NoServer == [generation |-> 0, client |-> 0, catalog |-> 0, registry |-> 0,
             status |-> "inactive", effective |-> TRUE, owner |-> Free]

NoRequest == [pc |-> "none", res |-> "none", cancel |-> FALSE, tool |-> 0]

Connection(g) == [generation |-> g, loading |-> TRUE, asked |-> {}, uncertain |-> FALSE]

ManagerInit ==
    /\ server = NoServer
    /\ sessions = <<>>
    /\ req = [p \in Calls |-> NoRequest]
    /\ admin = [pc |-> "idle", op |-> "none", count |-> 0]

\* What the adapter makes of a reply it can read: text within the bounds is
\* the tool's output; an error the tool reports, content that is not safe and
\* structured content that breaks the schema are failures of the call.
Replies == {"content", "tool_error", "unsafe", "off_schema"}
Adapted(reply) == IF reply = "content" THEN "ok" ELSE "expected"

\* A tool list compiles unless a name, a schema or a bound is broken.
ToolLists == {"valid", "unsafe_schema", "too_large"}
Compiles(list) == list = "valid"

Requested(p, res) == [req EXCEPT ![p] = [NoRequest EXCEPT !.pc = "ended", !.res = res]]

\* Catalog, client and registered tools go together, in one step.
Invalidated(s) ==
    [s EXCEPT !.client = 0, !.catalog = 0, !.generation = @ + 1, !.registry = 0]

-----------------------------------------------------------------------------
(* A call.                                                                  *)

\* The handler of a tool that was registered at generation g.
Submit(p, g) ==
    req' = [req EXCEPT ![p] =
              IF server.effective
              THEN [NoRequest EXCEPT !.pc = "lock", !.tool = g]
              ELSE [NoRequest EXCEPT !.pc = "ended", !.res = "expected"]]

\* Faulty: the generation of the tool is not compared.
Callable_AnyGeneration(g) ==
    server.client # 0 /\ server.catalog # 0 /\ server.status = "connected"

Callable(g) ==
    /\ server.client # 0 /\ server.catalog # 0
    /\ server.status = "connected"
    /\ server.catalog = g

Acquire(p) ==
    /\ req[p].pc = "lock" /\ ~req[p].cancel
    /\ server.owner = Free
    /\ IF Callable(req[p].tool)
       THEN /\ req' = [req EXCEPT ![p].pc = "sent"]
            /\ server' = [server EXCEPT !.owner = p]
            /\ sessions' = [sessions EXCEPT ![server.client].asked = @ \cup {req[p].tool}]
       ELSE /\ req' = Requested(p, "expected")
            /\ UNCHANGED <<server, sessions>>
    /\ UNCHANGED admin

CancelLocked(p) ==
    /\ req[p].pc = "lock" /\ req[p].cancel
    /\ req' = Requested(p, "cancelled")
    /\ UNCHANGED <<server, sessions, admin>>

Reply(p) ==
    /\ req[p].pc = "sent" /\ ~req[p].cancel
    /\ \E reply \in Replies : req' = Requested(p, Adapted(reply))
    /\ server' = [server EXCEPT !.owner = Free]
    /\ UNCHANGED <<sessions, admin>>

\* No answer in time, a failed call, or the caller's cancellation: the session
\* is given up before the wait for its close.
GiveUp(p) ==
    /\ req[p].pc = "sent"
    /\ req' = [req EXCEPT ![p].pc = "closing",
                          ![p].res = IF req[p].cancel THEN "cancelled" ELSE "uncertain"]
    /\ server' = [Invalidated(server) EXCEPT !.status = "error"]
    /\ sessions' = [sessions EXCEPT ![server.client].uncertain = TRUE]
    /\ UNCHANGED admin

\* The close ends, or is abandoned after five seconds; a cancellation that arrives now ends it too.
CallClosed(p) ==
    /\ req[p].pc = "closing"
    /\ req' = Requested(p, IF req[p].cancel THEN "cancelled" ELSE req[p].res)
    /\ server' = [server EXCEPT !.owner = Free]
    /\ UNCHANGED <<sessions, admin>>

-----------------------------------------------------------------------------
(* Start, restart, enable, disable, close.                                  *)

Ask(op) ==
    /\ admin.pc = "idle" /\ admin.count < MaxAdmin
    /\ admin' = [pc |-> "lock", op |-> op, count |-> admin.count + 1]
    /\ server' = [server EXCEPT !.effective =
                    CASE op = "enable" -> TRUE
                      [] op = "disable" -> FALSE
                      [] OTHER -> @]
    /\ UNCHANGED <<sessions, req>>

Connects == admin.op \in {"start", "restart"} /\ server.effective

Settled(s) == [s EXCEPT !.status = "inactive", !.owner = Free]

AdminIdle == admin' = [admin EXCEPT !.pc = "idle"]

\* A start leaves a connected server alone; everything else drops the client.
AdminAcquire ==
    /\ admin.pc = "lock" /\ server.owner = Free
    /\ IF admin.op = "start" /\ server.effective
       THEN IF server.client # 0
            THEN AdminIdle /\ UNCHANGED server
            ELSE /\ admin' = [admin EXCEPT !.pc = "connect"]
                 /\ server' = [server EXCEPT !.owner = Admin]
       ELSE /\ admin' = [admin EXCEPT !.pc = "dropping"]
            /\ server' = [Invalidated(server) EXCEPT !.owner = Admin]
    /\ UNCHANGED <<sessions, req>>

Dropped ==
    /\ admin.pc = "dropping"
    /\ IF Connects
       THEN /\ admin' = [admin EXCEPT !.pc = "connect"]
            /\ server' = [server EXCEPT !.status = "inactive"]
       ELSE AdminIdle /\ server' = Settled(server)
    /\ UNCHANGED <<sessions, req>>

\* A second connection waits for the task of the first one to end.
Connect ==
    /\ admin.pc = "connect"
    /\ IF \E s \in DOMAIN sessions : sessions[s].loading
       THEN /\ AdminIdle
            /\ server' = [Invalidated(server) EXCEPT !.status = "error", !.owner = Free]
            /\ UNCHANGED sessions
       ELSE /\ Len(sessions) < MaxSessions
            /\ admin' = [admin EXCEPT !.pc = "connecting"]
            /\ sessions' = Append(sessions, Connection(server.generation + 1))
            /\ UNCHANGED server
    /\ UNCHANGED req

\* The catalog arrives; replace_namespace may refuse it at the registry's limit.
Publish ==
    LET s == Len(sessions)  g == sessions[s].generation IN
    /\ admin.pc = "connecting"
    /\ sessions' = [sessions EXCEPT ![s].loading = FALSE]
    /\ \E list \in ToolLists, fits \in BOOLEAN :
          IF Compiles(list) /\ fits
          THEN /\ AdminIdle
               /\ server' = [server EXCEPT !.generation = g, !.client = s, !.catalog = g,
                                           !.registry = g, !.status = "connected",
                                           !.owner = Free]
          ELSE /\ admin' = [admin EXCEPT !.pc = "discard"]
               /\ UNCHANGED server
    /\ UNCHANGED req

\* The connection times out: its task is cancelled and may take its time.
ConnectTimesOut ==
    /\ admin.pc = "connecting"
    /\ admin' = [admin EXCEPT !.pc = "discard"]
    /\ UNCHANGED <<server, sessions, req>>

Discarded ==
    /\ admin.pc = "discard"
    /\ AdminIdle
    /\ server' = [Invalidated(server) EXCEPT !.status = "error", !.owner = Free]
    /\ UNCHANGED <<sessions, req>>

\* The cancelled connection task of a session nobody uses ends at last.
LateLoad ==
    /\ admin.pc # "connecting"
    /\ \E s \in DOMAIN sessions :
          /\ sessions[s].loading
          /\ sessions' = [sessions EXCEPT ![s].loading = FALSE]
    /\ UNCHANGED <<server, req, admin>>

ManagerCall(p) == Acquire(p) \/ CancelLocked(p) \/ GiveUp(p) \/ CallClosed(p)
ManagerAdmin == AdminAcquire \/ Dropped \/ Connect \/ Publish \/ ConnectTimesOut \/ Discarded
=============================================================================
