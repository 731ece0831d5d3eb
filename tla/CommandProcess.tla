--------------------------- MODULE CommandProcess ---------------------------
(***************************************************************************)
(* A shell command on POSIX: core/tools/builtins/execute.py, process.py and *)
(* _process_supervisor.py.                                                  *)
(*                                                                          *)
(* Core starts a supervisor in a session of its own and the supervisor      *)
(* starts the command.  A pipe from Core is the supervisor's lease: it ends *)
(* with the call or with Core.  The supervisor, the command (root) and its  *)
(* descendants (kin) form one process group.                                *)
(***************************************************************************)
EXTENDS Integers

VARIABLES
    run,      \* the coroutine of ProcessRunner.run for each call
    group,    \* the process group of each call
    crashed   \* Core is gone

processVars == <<run, group>>

-----------------------------------------------------------------------------

NoRun == [pc |-> "none", res |-> "none", why |-> "ok", cancel |-> FALSE]
NoGroup == [sup |-> "none", root |-> "none", kin |-> "none", told |-> "none"]
Gone == [NoGroup EXCEPT !.sup = "dead"]

ProcessInit(calls) ==
    /\ run = [p \in calls |-> NoRun]
    /\ group = [p \in calls |-> NoGroup]
    /\ crashed = FALSE

Killed(g) == [Gone EXCEPT !.told = g.told]

RunnerOver(p) == run[p].pc \in {"none", "ended"}

\* Both ends of a call's pipes close in run()'s finally clause, or with Core.
Lease(p) == ~crashed /\ ~RunnerOver(p)

Members(p) == {m \in {"root", "kin"} : group[p][m] = "alive"}
Exists(p) == group[p].sup \in {"born", "watch", "closing"} \/ Members(p) # {}

Go(p, pc) == run' = [run EXCEPT ![p].pc = pc]
Ended(p, res) == run' = [run EXCEPT ![p] = [NoRun EXCEPT !.pc = "ended", !.res = res]]

\* What the handler makes of the run: a timeout is an expected failure.
Verdict(p) ==
    CASE run[p].cancel -> "cancelled"
      [] run[p].why = "timeout" -> "expected"
      [] OTHER -> run[p].why

-----------------------------------------------------------------------------
(* The runner.                                                              *)

\* The command is refused, or the journal fails, before anything runs.
Admit(p) ==
    /\ run[p].pc = "record" /\ ~run[p].cancel
    /\ \/ Go(p, "spawn") /\ group' = [group EXCEPT ![p].sup = "pending"]
       \/ \E res \in {"expected", "broken"} : Ended(p, res) /\ UNCHANGED group

AdmitCancelled(p) ==
    /\ run[p].pc = "record" /\ run[p].cancel
    /\ Ended(p, "cancelled")
    /\ UNCHANGED group

\* create_subprocess_exec completes.  A runner that has given it up kills the
\* group from the task's done callback, one that still cleans up terminates it.
Spawned(p) ==
    /\ group[p].sup = "pending" /\ ~crashed
    /\ \/ /\ run[p].pc = "spawn" /\ ~run[p].cancel
          /\ Go(p, "watch")
          /\ group' = [group EXCEPT ![p].sup = "born"]
       \/ /\ run[p].pc = "late"
          /\ Go(p, "term")
          /\ group' = [group EXCEPT ![p].sup = "born"]
       \/ /\ run[p].pc = "ended"
          /\ group' = [group EXCEPT ![p] = Gone]
          /\ UNCHANGED run

\* A deadline of the call, or its cancellation, starts the cleanup.
Cleanup(p, why) ==
    run' = [run EXCEPT ![p].pc = IF @ = "spawn" THEN "late" ELSE "term",
                       ![p].why = why]

CommandTimesOut(p) ==
    /\ run[p].pc \in {"spawn", "watch"} /\ ~run[p].cancel
    /\ Cleanup(p, "timeout")
    /\ UNCHANGED group

RunCancelled(p) ==
    /\ run[p].pc \in {"spawn", "watch", "drain", "reap"} /\ run[p].cancel
    /\ Cleanup(p, "cancelled")
    /\ UNCHANGED group

\* 250 ms for a spawn that is still on its way.
LateGivesUp(p) ==
    /\ run[p].pc = "late" /\ group[p].sup = "pending"
    /\ Ended(p, Verdict(p))
    /\ UNCHANGED group

SeesResult(p) ==
    /\ run[p].pc = "watch" /\ ~run[p].cancel
    /\ \/ group[p].told = "result" /\ Go(p, "drain")
       \/ group[p].told = "error" /\ Cleanup(p, "broken")
    /\ UNCHANGED group

\* The pipes reach their end, or a descendant holds them past the grace.
Drained(p) ==
    /\ run[p].pc = "drain" /\ ~run[p].cancel
    /\ IF Members(p) = {} THEN Go(p, "reap") \/ Cleanup(p, "ok") ELSE Cleanup(p, "ok")
    /\ UNCHANGED group

Reaped(p) ==
    /\ run[p].pc = "reap" /\ ~run[p].cancel
    /\ IF Exists(p) THEN Cleanup(p, "ok") ELSE Ended(p, "ok")
    /\ UNCHANGED group

\* SIGTERM to the group: a supervisor dies of it unless it is closing the
\* group itself; members may ignore it.
SendTerm(p) ==
    /\ run[p].pc = "term"
    /\ \E ignoring \in SUBSET Members(p) :
          group' = [group EXCEPT ![p].sup = IF @ = "closing" THEN @ ELSE "dead",
                                 ![p].root = IF "root" \in ignoring THEN @ ELSE "none",
                                 ![p].kin = IF "kin" \in ignoring THEN @ ELSE "none"]
    /\ Go(p, "grace")

\* Faulty: a group that outlives the grace is left alone.
SendKill_Nothing(p) ==
    /\ run[p].pc = "grace"
    /\ Ended(p, Verdict(p))
    /\ UNCHANGED group

\* The group is gone within two seconds, or SIGKILL ends it.
SendKill(p) ==
    /\ run[p].pc = "grace"
    /\ Ended(p, Verdict(p))
    /\ group' = [group EXCEPT ![p] = Killed(@)]

RunnerStep(p) ==
    /\ ~crashed
    /\ \/ Admit(p) \/ AdmitCancelled(p) \/ CommandTimesOut(p) \/ RunCancelled(p)
       \/ LateGivesUp(p) \/ SeesResult(p) \/ Drained(p) \/ Reaped(p)
       \/ SendTerm(p) \/ SendKill(p)

-----------------------------------------------------------------------------
(* The supervisor and the command.                                          *)

\* The fork of a Core that has just died either happened or did not.
SpawnOrphaned(p) ==
    /\ group[p].sup = "pending" /\ crashed
    /\ \E sup \in {"born", "none"} : group' = [group EXCEPT ![p].sup = sup]
    /\ UNCHANGED run

\* The event of the spawn cannot be written once the call is over: the
\* supervisor kills its own group.
StartTarget(p) ==
    /\ group[p].sup = "born"
    /\ \/ group' = [group EXCEPT ![p] =
                      IF Lease(p) THEN [@ EXCEPT !.sup = "watch", !.root = "alive"] ELSE Gone]
       \/ group' = [group EXCEPT ![p].sup = "dead", ![p].told = "error"]
    /\ UNCHANGED run

Fork(p) ==
    /\ group[p].root = "alive" /\ group[p].kin = "none"
    /\ group' = [group EXCEPT ![p].kin = "alive"]
    /\ UNCHANGED run

Exit(p) ==
    /\ \E m \in Members(p) : group' = [group EXCEPT ![p][m] = "none"]
    /\ UNCHANGED run

\* Faulty: the supervisor never looks at its lease.
LeaseLost_Never(p) == FALSE

LeaseLost(p) == ~Lease(p)

Watch(p) ==
    /\ group[p].sup = "watch"
    /\ \/ group[p].root = "alive" /\ LeaseLost(p) /\ group' = [group EXCEPT ![p] = Killed(@)]
       \/ /\ group[p].root = "none"
          /\ group' = [group EXCEPT ![p] = IF Lease(p)
                                           THEN [@ EXCEPT !.sup = "closing", !.told = "result"]
                                           ELSE Killed(@)]
    /\ UNCHANGED run

\* After its result: SIGTERM, 100 ms, SIGKILL to its own group.
CloseGroup(p) ==
    /\ group[p].sup = "closing"
    /\ group' = [group EXCEPT ![p] = Killed(@)]
    /\ UNCHANGED run

SupervisorStep(p) == SpawnOrphaned(p) \/ StartTarget(p) \/ Watch(p) \/ CloseGroup(p)
CommandStep(p) == Fork(p) \/ Exit(p)
=============================================================================
