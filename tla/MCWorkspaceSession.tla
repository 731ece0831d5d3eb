-------------------------- MODULE MCWorkspaceSession --------------------------
(* One workspace of two Threads with an unfinished Turn in each. *)
EXTENDS WorkspaceSession, TLC

CONSTANTS t1, t2, u1, u2

MCThreads == {t1, t2}
MCFound == <<u1, u2>>
MCHome == (u1 :> t1) @@ (u2 :> t2)
=============================================================================
