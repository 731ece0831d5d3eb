--------------------------- MODULE ModelTransaction ---------------------------
(***************************************************************************)
(* The cross-store transaction of /model:                                    *)
(* application/provider_configuration.py, config/model_transaction.py.       *)
(*                                                                          *)
(* Several Awesome processes share config.yaml, application.db and a         *)
(* one-record write-ahead journal.  Every step that writes one of them runs  *)
(* inside a SQLite write transaction (BEGIN IMMEDIATE) and, within it, under *)
(* the lock of config.yaml; that lock is released before the transaction     *)
(* commits.  A process may crash between any two steps, a write may fail     *)
(* before or after it took effect.                                           *)
(***************************************************************************)
EXTENDS Naturals

CONSTANTS Procs, Threads, Models,
          NoRecord, NoWriter,
          MaxChanges, MaxCrashes, MaxFaults  \* bounds of the model

ASSUME ModelAssumption ==
    /\ NoWriter \notin Procs
    /\ {MaxChanges, MaxCrashes, MaxFaults} \subseteq Nat

VARIABLES
    default,   \* providers.default_model in config.yaml
    thread,    \* committed current_model of each Thread
    journal,   \* the record on disk
    writer,    \* the process inside a SQLite write transaction
    step,      \* what each process does next
    mine,      \* the record it works on
    fenced,    \* _recovery_required of its running configuration service
    changes, crashes, faults

stores == <<default, thread, journal>>
local  == <<step, mine, fenced>>
counts == <<changes, crashes, faults>>
modelVars == <<stores, writer, local, counts>>

-----------------------------------------------------------------------------

Records ==
    [id : 1..MaxChanges, phase : {"prepared", "committed"}, thread : Threads,
     target : Models, oldDefault : Models, oldThread : Models]
ASSUME RecordAssumption == NoRecord \notin Records

Starting == {"check", "reconcile", "store", "clear"}
Locking  == {"config", "restore", "mark"}     \* holding the lock of config.yaml
Changing == Locking \cup {"commit", "resolve", "finalize", "undo", "publish"}

ModelTypeOK ==
    /\ default \in Models /\ thread \in [Threads -> Models]
    /\ journal \in Records \cup {NoRecord}
    /\ writer \in Procs \cup {NoWriter}
    /\ step \in [Procs -> {"down", "idle"} \cup Starting \cup Changing]
    /\ mine \in [Procs -> Records \cup {NoRecord}]
    /\ fenced \in [Procs -> BOOLEAN]
    /\ changes \in 0..MaxChanges /\ crashes \in 0..MaxCrashes /\ faults \in 0..MaxFaults

ModelInit ==
    /\ default \in Models /\ thread \in [Threads -> Models] /\ journal = NoRecord
    /\ writer = NoWriter
    /\ step = [p \in Procs |-> "down"] /\ mine = [p \in Procs |-> NoRecord]
    /\ fenced = [p \in Procs |-> FALSE]
    /\ changes = 0 /\ crashes = 0 /\ faults = 0

-----------------------------------------------------------------------------

\* The values a record stands for: its target once committed, else the old ones.
EndDefault(r) == IF r.phase = "committed" THEN r.target ELSE r.oldDefault
EndThread(r)  == IF r.phase = "committed" THEN r.target ELSE r.oldThread

\* _verify_model_transaction_state.
AtEndpoint(r) == default = EndDefault(r) /\ thread[r.thread] = EndThread(r)

Committed(r) == [r EXCEPT !.phase = "committed"]
SetThread(r) == [thread EXCEPT ![r.thread] = EndThread(r)]

\* Nobody else removed the record, or wrote another one.
Undisturbed(p) == journal \in {NoRecord, mine[p]}

Locked == \E p \in Procs : step[p] \in Locking

Go(p, next) == step' = [step EXCEPT ![p] = next]
Fence(p) == fenced' = [fenced EXCEPT ![p] = TRUE]
Fault == faults < MaxFaults /\ faults' = faults + 1 /\ UNCHANGED <<changes, crashes>>

-----------------------------------------------------------------------------
(* Startup: reconcile_provider_model_transaction.                          *)

Start(p) ==
    /\ step[p] = "down" /\ Go(p, "check")
    /\ UNCHANGED <<stores, writer, mine, fenced, counts>>

CheckPending(p) ==
    /\ step[p] = "check" /\ ~Locked
    /\ Go(p, IF journal = NoRecord THEN "idle" ELSE "reconcile")
    /\ UNCHANGED <<stores, writer, mine, fenced, counts>>

\* The first write transaction: config.yaml is replaced at once, the Thread at
\* the commit.
Reconcile(p) ==
    /\ step[p] = "reconcile" /\ writer = NoWriter
    /\ IF journal = NoRecord
       THEN Go(p, "idle") /\ UNCHANGED <<default, writer, mine>>
       ELSE /\ default' = EndDefault(journal)
            /\ mine' = [mine EXCEPT ![p] = journal]
            /\ writer' = p /\ Go(p, "store")
    /\ UNCHANGED <<thread, journal, fenced, counts>>

ReconcileFails(p) ==
    /\ step[p] = "reconcile" /\ writer = NoWriter /\ journal # NoRecord
    /\ default' \in {default, EndDefault(journal)}
    /\ Go(p, "down") /\ Fault
    /\ UNCHANGED <<thread, journal, writer, mine, fenced>>

Store(p) ==
    /\ step[p] = "store"
    /\ thread' = SetThread(mine[p])
    /\ writer' = NoWriter /\ Go(p, "clear")
    /\ UNCHANGED <<default, journal, mine, fenced, counts>>

StoreFails(p) ==
    /\ step[p] = "store"
    /\ thread' \in {thread, SetThread(mine[p])}
    /\ writer' = NoWriter /\ Go(p, "down") /\ Fault
    /\ UNCHANGED <<default, journal, mine, fenced>>

\* The second one: verify_and_clear.
Clear(p) ==
    /\ step[p] = "clear" /\ writer = NoWriter
    /\ IF Undisturbed(p) /\ AtEndpoint(mine[p])
       THEN journal' = NoRecord /\ Go(p, "idle")
       ELSE UNCHANGED journal /\ Go(p, "down")
    /\ UNCHANGED <<default, thread, writer, mine, fenced, counts>>

\* A verified record may be gone although its removal raised.
Removal(p) == {journal} \cup IF Undisturbed(p) /\ AtEndpoint(mine[p]) THEN {NoRecord} ELSE {}

ClearFails(p) ==
    /\ step[p] = "clear" /\ writer = NoWriter
    /\ journal' \in Removal(p)
    /\ Go(p, "down") /\ Fault
    /\ UNCHANGED <<default, thread, writer, mine, fenced>>

-----------------------------------------------------------------------------
(* /model in a running process.                                            *)

NewRecord(t, m) ==
    [id |-> changes + 1, phase |-> "prepared", thread |-> t, target |-> m,
     oldDefault |-> default, oldThread |-> thread[t]]

CanChange(p) == step[p] = "idle" /\ ~fenced[p] /\ writer = NoWriter /\ changes < MaxChanges

\* Faulty: a record that waits for recovery is overwritten.
Prepare_Over(p, t, m) ==
    /\ CanChange(p)
    /\ journal' = NewRecord(t, m)
    /\ mine' = [mine EXCEPT ![p] = NewRecord(t, m)]
    /\ writer' = p /\ Go(p, "config")
    /\ changes' = changes + 1
    /\ UNCHANGED <<default, thread, fenced, crashes, faults>>

Prepare(p, t, m) ==
    /\ CanChange(p) /\ journal = NoRecord
    /\ journal' = NewRecord(t, m)
    /\ mine' = [mine EXCEPT ![p] = NewRecord(t, m)]
    /\ writer' = p /\ Go(p, "config")
    /\ changes' = changes + 1
    /\ UNCHANGED <<default, thread, fenced, crashes, faults>>

PrepareFails(p, t, m) ==
    /\ CanChange(p) /\ journal = NoRecord /\ faults < MaxFaults
    /\ journal' \in {NoRecord, NewRecord(t, m)}
    /\ Fence(p) /\ changes' = changes + 1 /\ faults' = faults + 1
    /\ UNCHANGED <<default, thread, writer, step, mine, crashes>>

WriteConfig(p) ==
    /\ step[p] = "config"
    /\ default' = mine[p].target /\ Go(p, "mark")
    /\ UNCHANGED <<thread, journal, writer, mine, fenced, counts>>

ChangeFails(p) ==
    /\ step[p] = "config"
    /\ default' \in {default, mine[p].target}
    /\ Go(p, "restore") /\ Fault
    /\ UNCHANGED <<thread, journal, writer, mine, fenced>>

\* _restore_model_change; the SQLite transaction rolls back.
Restore(p) ==
    /\ step[p] = "restore"
    /\ default' = mine[p].oldDefault
    /\ writer' = NoWriter /\ Go(p, "undo")
    /\ UNCHANGED <<thread, journal, mine, fenced, counts>>

RestoreFails(p) ==
    /\ step[p] = "restore"
    /\ default' \in {default, mine[p].oldDefault}
    /\ writer' = NoWriter /\ Go(p, "idle") /\ Fence(p) /\ Fault
    /\ UNCHANGED <<thread, journal, mine>>

Mark(p) ==
    /\ step[p] = "mark"
    /\ journal' = Committed(mine[p])
    /\ mine' = [mine EXCEPT ![p] = Committed(mine[p])]
    /\ Go(p, "commit")
    /\ UNCHANGED <<default, thread, writer, fenced, counts>>

\* The record may be committed although writing it raised; SQLite rolls back.
MarkFails(p) ==
    /\ step[p] = "mark"
    /\ journal' \in {journal, Committed(mine[p])}
    /\ writer' = NoWriter /\ Go(p, "idle") /\ Fence(p) /\ Fault
    /\ UNCHANGED <<default, thread, mine>>

Commit(p) ==
    /\ step[p] = "commit"
    /\ thread' = SetThread(mine[p])
    /\ writer' = NoWriter /\ Go(p, "finalize")
    /\ UNCHANGED <<default, journal, mine, fenced, counts>>

CommitFails(p) ==
    /\ step[p] = "commit"
    /\ thread' \in {thread, SetThread(mine[p])}
    /\ writer' = NoWriter /\ Go(p, "resolve") /\ Fault
    /\ UNCHANGED <<default, journal, mine, fenced>>

\* _resolve_model_transaction_boundary looks which side the stores are on.
AtOld(r) == default = r.oldDefault /\ thread[r.thread] = r.oldThread

Resolve(p) ==
    /\ step[p] = "resolve" /\ writer = NoWriter
    /\ \/ /\ Undisturbed(p) /\ AtEndpoint(mine[p])
          /\ Go(p, "finalize") /\ UNCHANGED fenced
       \/ /\ journal = NoRecord /\ AtOld(mine[p]) /\ ~AtEndpoint(mine[p])
          /\ Go(p, "idle") /\ UNCHANGED fenced
       \/ /\ ~(Undisturbed(p) /\ AtEndpoint(mine[p])) /\ ~(journal = NoRecord /\ AtOld(mine[p]))
          /\ Go(p, "idle") /\ Fence(p)
    /\ UNCHANGED <<stores, writer, mine, counts>>

\* finalize_model and _finalize_rolled_back_model_transaction verify and clear.
ClearMine(p, next) ==
    /\ writer = NoWriter
    /\ IF Undisturbed(p) /\ AtEndpoint(mine[p])
       THEN journal' = NoRecord /\ Go(p, next) /\ UNCHANGED fenced
       ELSE UNCHANGED journal /\ Go(p, "idle") /\ Fence(p)
    /\ UNCHANGED <<default, thread, writer, mine, counts>>

FinalizeModel(p) == step[p] = "finalize" /\ ClearMine(p, "publish")
Undo(p)     == step[p] = "undo" /\ ClearMine(p, "idle")

\* The three transactions after the commit boundary fail.
ClosingFails(p) ==
    /\ step[p] \in {"resolve", "finalize", "undo"} /\ writer = NoWriter
    /\ journal' \in IF step[p] = "resolve" THEN {journal} ELSE Removal(p)
    /\ Go(p, "idle") /\ Fence(p) /\ Fault
    /\ UNCHANGED <<default, thread, writer, mine>>

\* The published runtime has a configuration service of its own.
PublishModel(p) ==
    /\ step[p] = "publish" /\ Go(p, "idle")
    /\ fenced' = [fenced EXCEPT ![p] = FALSE]
    /\ UNCHANGED <<stores, writer, mine, counts>>

PublishFails(p) ==
    /\ step[p] = "publish" /\ Go(p, "idle")
    /\ Fence(p) /\ Fault
    /\ UNCHANGED <<stores, writer, mine>>

\* _require_consistent_locked, before a Turn or a mutation.
Check(p) ==
    /\ step[p] \in {"idle"} \cup Changing /\ ~fenced[p]
    /\ ~Locked /\ journal # NoRecord
    /\ Fence(p)
    /\ UNCHANGED <<stores, writer, step, mine, counts>>

-----------------------------------------------------------------------------

Exit(p) ==
    /\ Go(p, "down")
    /\ mine' = [mine EXCEPT ![p] = NoRecord]
    /\ fenced' = [fenced EXCEPT ![p] = FALSE]
    /\ writer' = IF writer = p THEN NoWriter ELSE writer

\* Awesome is closed, to be started again.
Stop(p) == step[p] = "idle" /\ Exit(p) /\ UNCHANGED <<stores, counts>>

\* SQLite rolls back whatever the process had not committed.
Crash(p) ==
    /\ step[p] # "down" /\ crashes < MaxCrashes /\ crashes' = crashes + 1
    /\ Exit(p)
    /\ UNCHANGED <<stores, changes, faults>>

Startup(p) ==
    \/ Start(p) \/ CheckPending(p) \/ Reconcile(p) \/ ReconcileFails(p)
    \/ Store(p) \/ StoreFails(p) \/ Clear(p) \/ ClearFails(p)

ModelCommand(p) ==
    \/ \E t \in Threads, m \in Models : Prepare(p, t, m) \/ PrepareFails(p, t, m)
    \/ WriteConfig(p) \/ ChangeFails(p) \/ Restore(p) \/ RestoreFails(p)
    \/ Mark(p) \/ MarkFails(p) \/ Commit(p) \/ CommitFails(p)
    \/ Resolve(p) \/ FinalizeModel(p) \/ Undo(p) \/ ClosingFails(p)
    \/ PublishModel(p) \/ PublishFails(p)

ModelNext == \E p \in Procs : Startup(p) \/ ModelCommand(p) \/ Check(p) \/ Stop(p) \/ Crash(p)

ModelSpec == ModelInit /\ [][ModelNext]_modelVars

-----------------------------------------------------------------------------
(* Properties.                                                             *)

\* Whatever failed or crashed, the record on disk explains the two stores: while
\* it is prepared the Thread is untouched and the default is old or new; once it
\* is committed the default is new and the Thread old or new.
EvidenceExplains ==
    journal # NoRecord =>
        LET r == journal IN
        IF r.phase = "prepared"
        THEN thread[r.thread] = r.oldThread /\ default \in {r.oldDefault, r.target}
        ELSE default = r.target /\ thread[r.thread] \in {r.oldThread, r.target}

\* A startup that finds its record still there has brought both stores to its
\* endpoint, so nothing but a fault or another process makes it fail.
RestartConverges ==
    \A p \in Procs :
        step[p] = "clear" /\ journal = mine[p] => AtEndpoint(mine[p])

\* The pair of models the stores and the record promise changes atomically.
Register == INSTANCE ModelRegister WITH
    default <- IF journal = NoRecord THEN default ELSE EndDefault(journal),
    thread  <- IF journal = NoRecord THEN thread ELSE SetThread(journal)
KeepsRegister == Register!Spec

\* A /model change is whole: the stores and the record change together, the
\* record always explains what is between them, and startups converge.
ChangeIsWhole == KeepsRegister /\ []EvidenceExplains /\ []RestartConverges
=============================================================================
