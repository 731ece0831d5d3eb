---------------------------- MODULE ChangeJournal ----------------------------
(***************************************************************************)
(* The change journal: core/changes/journal.py, core/changes/operations.py, *)
(* application/change_scope.py and the rows of storage/changes.py.          *)
(*                                                                          *)
(* A file is changed between two durable writes: its intent (a pending      *)
(* mutation) before, the record of the change after.  Undo and redo do the  *)
(* same for several files and commit the lifecycle once.  The process may   *)
(* die between any two steps, a durable write may raise, before or after it *)
(* took effect, and the user may replace any file at any time.              *)
(*                                                                          *)
(* A content stands for type, bytes and mode of a path, Absent included.    *)
(* Tools and commands hold the foreground and the workspace lock, so one    *)
(* journal operation runs at a time.                                        *)
(***************************************************************************)
EXTENDS Naturals, FiniteSets

CONSTANTS Paths, Contents, ChangeSets,
          Nobody,      \* no ChangeSet; as a writer, the user or the shell
          Absent,      \* the content of a path with no node
          Original,    \* the content every path has at first
          MaxOps,      \* bound: edits, undos and redos
          MaxEdits,    \* bound: replacements by the user
          MaxCrashes, MaxFaults

ASSUME JournalAssumption ==
    /\ Nobody \notin ChangeSets /\ {Absent, Original} \subseteq Contents
    /\ {MaxOps, MaxEdits, MaxCrashes, MaxFaults} \subseteq Nat

VARIABLES
    disk,       \* the workspace
    writer,     \* who wrote each path last
    lifecycle,  \* of each ChangeSet row, "none" without one
    before,     \* merged before states of the recorded changes
    after,      \* merged after states
    recorded,   \* the paths that remain in the merged record
    saved,      \* the mutations with a FileChange record
    executed,   \* ChangeSets with an execute observation
    pending,    \* the pending mutation rows
    published,  \* ChangeSets an owner is bound to
    mode,       \* the process
    job,        \* what is being done
    subject,    \* its ChangeSet
    step,       \* where it is
    prepared,   \* the intents it works on
    applied,    \* the paths it has written and not put back
    touched,    \* paths the user replaced since the job bound them
    ops, edits, crashes, faults

records == <<before, after, recorded, saved>>
rows    == <<lifecycle, records, executed, pending>>
files   == <<disk, writer>>
process == <<mode, published>>
working == <<job, subject, step, prepared, applied, touched>>
budgets == <<ops, edits, crashes, faults>>
vars == <<files, rows, process, working, budgets>>

-----------------------------------------------------------------------------

Jobs == {"none", "edit", "undo", "redo", "seal", "discard"}
Steps == {"idle", "intend", "effect", "record", "withdraw", "rollback", "clear", "settle"}
Intents == [id : 1..MaxOps, owner : ChangeSets, kind : {"edit", "undo", "redo"},
            path : Paths, from : Contents, to : Contents]

TypeOK ==
    /\ disk \in [Paths -> Contents]
    /\ writer \in [Paths -> ChangeSets \cup {Nobody}]
    /\ lifecycle \in [ChangeSets -> {"none", "open", "applied", "undone", "deleted"}]
    /\ before \in [ChangeSets -> [Paths -> Contents]]
    /\ after \in [ChangeSets -> [Paths -> Contents]]
    /\ recorded \in [ChangeSets -> SUBSET Paths]
    /\ saved \subseteq Intents /\ pending \subseteq Intents
    /\ executed \subseteq ChangeSets /\ published \subseteq ChangeSets
    /\ mode \in {"up", "down", "reconciling"}
    /\ job \in Jobs /\ step \in Steps
    /\ subject \in ChangeSets \cup {Nobody}
    /\ prepared \subseteq Intents
    /\ applied \subseteq Paths /\ touched \subseteq Paths
    /\ ops \in 0..MaxOps /\ edits \in 0..MaxEdits
    /\ crashes \in 0..MaxCrashes /\ faults \in 0..MaxFaults

Init ==
    /\ disk = [p \in Paths |-> Original] /\ writer = [p \in Paths |-> Nobody]
    /\ lifecycle = [c \in ChangeSets |-> "none"]
    /\ before = [c \in ChangeSets |-> [p \in Paths |-> Original]]
    /\ after = before
    /\ recorded = [c \in ChangeSets |-> {}]
    /\ saved = {} /\ executed = {} /\ pending = {}
    /\ mode = "up" /\ published = {}
    /\ job = "none" /\ subject = Nobody /\ step = "idle"
    /\ prepared = {} /\ applied = {} /\ touched = {}
    /\ ops = 0 /\ edits = 0 /\ crashes = 0 /\ faults = 0

-----------------------------------------------------------------------------

Fault == faults < MaxFaults /\ faults' = faults + 1
Idle == mode = "up" /\ job = "none"
Of(c) == {q \in pending : q.owner = c}
EditIntents == {q \in pending : q.kind = "edit"}
PathsOf(S) == {q.path : q \in S}

Stop ==
    /\ job' = "none" /\ subject' = Nobody /\ step' = "idle"
    /\ prepared' = {} /\ applied' = {} /\ touched' = {}

\* The operation raised; a startup that raises leaves the process.
Abandon ==
    /\ Stop
    /\ mode' = IF mode = "reconciling" THEN "down" ELSE mode
    /\ published' = IF job = "discard" THEN published \ {subject} ELSE published

Begin(what, c, first, intents) ==
    /\ job' = what /\ subject' = c /\ step' = first
    /\ prepared' = intents /\ applied' = {} /\ touched' = {}

GoTo(s) == step' = s /\ UNCHANGED <<job, subject, prepared, applied, touched>>

At(s) == mode # "down" /\ step = s

\* Merging one more FileChange: the first before state and the last after
\* state of a path count; created and deleted again is no change.
Record(q) ==
    LET c == q.owner
        known == q.path \in recorded[c]
    IN  /\ recorded' = [recorded EXCEPT ![c] =
                            IF known /\ before[c][q.path] = Absent /\ q.to = Absent
                            THEN @ \ {q.path} ELSE @ \cup {q.path}]
        /\ before' = [before EXCEPT ![c][q.path] = IF known THEN @ ELSE q.from]
        /\ after' = [after EXCEPT ![c][q.path] = q.to]
        /\ saved' = saved \cup {q}

\* The node there has the type, the digest and the mode of the content.
Holds(p, content) == disk[p] = content

\* The row of a ChangeSet is saved with another lifecycle.
SetLifecycle(c, value) == lifecycle' = [lifecycle EXCEPT ![c] = value]

\* The ChangeSet has the FileChange of this very intent.
IsRecorded(q) == q \in saved

Put(p, content, who) ==
    /\ disk' = [disk EXCEPT ![p] = content]
    /\ writer' = [writer EXCEPT ![p] = who]

\* What undo and redo make of a ChangeSet.
Source(kind) == IF kind = "undo" THEN "applied" ELSE "undone"

Committed(kind) == IF kind = "undo" THEN "undone" ELSE "applied"

HasFiles(c) == \E q \in saved : q.owner = c

-----------------------------------------------------------------------------
(* ChangeSets, edits, undo and redo.                                       *)

\* begin: a new row for this workspace.
NewChangeSet(c) == lifecycle[c] = "none" /\ SetLifecycle(c, "open")

\* ChangeScope.acquire binds its owner to a new ChangeSet.
OpenChangeSet(c) ==
    /\ Idle /\ NewChangeSet(c)
    /\ published' = published \cup {c}
    /\ UNCHANGED <<files, records, executed, pending, mode, working, budgets>>

\* record_execute, before the process is spawned.
RecordExecute(c) ==
    /\ Idle /\ c \in published /\ lifecycle[c] = "open" /\ Of(c) = {}
    /\ executed' = executed \cup {c}
    /\ UNCHANGED <<files, lifecycle, records, pending, process, working, budgets>>

\* apply_file_mutation up to its intent: open, and nothing unresolved.
BeginEdit(c, p, content) ==
    /\ Idle /\ ops < MaxOps
    /\ c \in published /\ lifecycle[c] = "open" /\ Of(c) = {}
    /\ content # disk[p]
    /\ ops' = ops + 1
    /\ Begin("edit", c, "intend",
             {[id |-> ops + 1, owner |-> c, kind |-> "edit", path |-> p,
               from |-> disk[p], to |-> content]})
    /\ UNCHANGED <<files, rows, process, edits, crashes, faults>>

\* The intents of an undo or redo, one for each merged change.
Restores(c, kind) ==
    {[id |-> ops + 1, owner |-> c, kind |-> kind, path |-> p, from |-> disk[p],
      to |-> IF kind = "undo" THEN before[c][p] ELSE after[c][p]] : p \in recorded[c]}

\* The conflict check: every path holds what the record says.
Matches(c, kind) ==
    \A p \in recorded[c] :
        Holds(p, IF kind = "undo" THEN after[c][p] ELSE before[c][p])

\* _operate and _prepare: undo of an applied ChangeSet or redo of an undone
\* one, unless it only has execute observations.
BeginRestore(c, kind) ==
    /\ Idle /\ ops < MaxOps
    /\ lifecycle[c] = Source(kind) /\ (HasFiles(c) \/ c \notin executed)
    /\ Matches(c, kind)
    /\ ops' = ops + 1
    /\ Begin(kind, c, IF recorded[c] = {} THEN "record" ELSE "intend", Restores(c, kind))
    /\ UNCHANGED <<files, rows, process, edits, crashes, faults>>

\* One intent becomes durable; the effects begin after the last.
SaveIntent(q) ==
    /\ At("intend") /\ q \in prepared \ pending
    /\ pending' = pending \cup {q}
    /\ GoTo(IF prepared \subseteq pending' THEN "effect" ELSE "intend")
    /\ UNCHANGED <<files, lifecycle, records, executed, process, budgets>>

\* The write raised, perhaps after it took effect.  An edit leaves it at that,
\* an undo or redo rolls back.
SaveIntentFails(q) ==
    /\ At("intend") /\ q \in prepared \ pending /\ Fault
    /\ pending' \in {pending, pending \cup {q}}
    /\ IF job = "edit" THEN Stop ELSE GoTo("rollback")
    /\ UNCHANGED <<files, lifecycle, records, executed, process, ops, edits, crashes>>

\* A path of the job that it has not written yet.
Unwritten(q) == At("effect") /\ q \in prepared /\ q.path \notin applied

Write(q) ==
    /\ Put(q.path, q.to, q.owner)
    /\ applied' = applied \cup {q.path}
    /\ step' = IF PathsOf(prepared) \subseteq applied' THEN "record" ELSE "effect"
    /\ UNCHANGED <<rows, process, job, subject, prepared, touched, budgets>>

\* Faulty: the identity of the bound node is not checked again.
Effect_Unchecked(q) == Unwritten(q) /\ Write(q)

\* mutate() or restore(): the node bound is still the node there.
Effect(q) == Unwritten(q) /\ q.path \notin touched /\ Write(q)

\* MutationTargetChanged: an edit withdraws its intent, an undo rolls back.
EffectRefused(q) ==
    /\ Unwritten(q) /\ q.path \in touched
    /\ GoTo(IF job = "edit" THEN "withdraw" ELSE "rollback")
    /\ UNCHANGED <<files, rows, process, budgets>>

\* The file system raised before or after the effect.
EffectFails(q) ==
    /\ Unwritten(q) /\ q.path \notin touched /\ Fault
    /\ Put(q.path, q.to, q.owner) \/ UNCHANGED files
    /\ IF job = "edit" THEN Stop ELSE GoTo("rollback")
    /\ UNCHANGED <<rows, process, ops, edits, crashes>>

\* delete_pending of the intent of a refused edit; it may raise.
Withdraw(q) ==
    /\ At("withdraw") /\ q \in prepared
    /\ \/ pending' = pending \ {q} /\ UNCHANGED faults
       \/ UNCHANGED pending /\ Fault
    /\ Stop
    /\ UNCHANGED <<files, lifecycle, records, executed, process, ops, edits, crashes>>

\* The after state is captured and must be the intended one.
RecordEdit(q) ==
    /\ At("record") /\ job = "edit" /\ q \in prepared
    /\ IF Holds(q.path, q.to)
       THEN Record(q) /\ GoTo("clear")
       ELSE UNCHANGED records /\ Stop
    /\ UNCHANGED <<files, lifecycle, executed, pending, process, budgets>>

RecordEditFails(q) ==
    /\ At("record") /\ job = "edit" /\ q \in prepared /\ Holds(q.path, q.to) /\ Fault
    /\ Record(q) \/ UNCHANGED records
    /\ Stop
    /\ UNCHANGED <<files, lifecycle, executed, pending, process, ops, edits, crashes>>

\* The lifecycle is the commit point of an undo or redo.
CommitRestore ==
    /\ At("record") /\ job \in {"undo", "redo"}
    /\ SetLifecycle(subject, Committed(job))
    /\ GoTo("clear")
    /\ UNCHANGED <<files, records, executed, pending, process, budgets>>

\* The commit raised: the stored lifecycle tells whether it took effect.
CommitRestoreFails ==
    /\ At("record") /\ job \in {"undo", "redo"} /\ Fault
    /\ \/ SetLifecycle(subject, Committed(job)) /\ Stop
       \/ UNCHANGED lifecycle /\ GoTo("rollback")
    /\ UNCHANGED <<files, records, executed, pending, process, ops, edits, crashes>>

\* A written path is put back if it still holds what was written; startup
\* skips one that is back already and refuses one replaced since it was bound.
RollBack(q) ==
    /\ At("rollback") /\ q \in prepared /\ q.path \in applied
    /\ IF \/ mode = "up" /\ Holds(q.path, q.to)
          \/ mode = "reconciling" /\ Holds(q.path, q.from)
          \/ mode = "reconciling" /\ Holds(q.path, q.to) /\ q.path \notin touched
       THEN /\ IF Holds(q.path, q.from)
               THEN UNCHANGED files
               ELSE Put(q.path, q.from, q.owner)
            /\ applied' = applied \ {q.path}
            /\ UNCHANGED <<process, job, subject, step, prepared, touched>>
       ELSE UNCHANGED files /\ Abandon
    /\ UNCHANGED <<rows, budgets>>

RollBackFails(q) ==
    /\ At("rollback") /\ q \in prepared /\ q.path \in applied /\ Holds(q.path, q.to)
    /\ Fault
    /\ Put(q.path, q.from, q.owner) \/ UNCHANGED files
    /\ Abandon
    /\ UNCHANGED <<rows, ops, edits, crashes>>

\* The evidence goes only when every path is back.
RolledBack ==
    /\ At("rollback") /\ applied = {}
    /\ IF \A q \in prepared : Holds(q.path, q.from)
       THEN GoTo("clear") /\ UNCHANGED process
       ELSE Abandon
    /\ UNCHANGED <<files, rows, budgets>>

\* delete_pending, one row at a time.
ClearIntent(q) ==
    /\ At("clear") /\ q \in prepared \cap pending
    /\ pending' = pending \ {q}
    /\ UNCHANGED <<files, lifecycle, records, executed, process, working, budgets>>

Cleared ==
    /\ At("clear") /\ prepared \cap pending = {}
    /\ Stop
    /\ UNCHANGED <<files, rows, process, budgets>>

ClearFails ==
    /\ At("clear") /\ prepared \cap pending # {} /\ Fault
    /\ Abandon
    /\ UNCHANGED <<files, rows, ops, edits, crashes>>

-----------------------------------------------------------------------------
(* Finalization and startup share the reconciliation of ordinary intents.  *)

\* ChangeScope.seal and finalize_failed; one already sealed is only unbound.
BeginSeal(c, what) ==
    /\ Idle /\ c \in published
    /\ IF lifecycle[c] = "open"
       THEN Begin(what, c, "settle", Of(c)) /\ UNCHANGED published
       ELSE published' = published \ {c} /\ UNCHANGED working
    /\ UNCHANGED <<files, rows, mode, budgets>>

Settles(c) ==
    \/ mode = "up" /\ step = "settle" /\ subject = c
    \/ mode = "reconciling" /\ step \in {"idle", "settle"} /\ subject \in {Nobody, c}

\* _reconcile_mutation.
Resolvable(q) ==
    /\ lifecycle[q.owner] \in {"open", "applied"}
    /\ Holds(q.path, q.to) \/ (~IsRecorded(q) /\ Holds(q.path, q.from))

\* Faulty: an interrupted edit that took effect is forgotten.
ReconcileEdit_Forgets(q) ==
    /\ q \in EditIntents /\ Settles(q.owner) /\ Resolvable(q)
    /\ pending' = pending \ {q} /\ subject' = q.owner /\ step' = "settle"
    /\ UNCHANGED <<files, lifecycle, records, executed, process,
                   job, prepared, applied, touched, budgets>>

\* An edit without effect, or with a record, is settled; one with an effect
\* and no record is recorded first.
ReconcileEdit(q) ==
    /\ q \in EditIntents /\ Settles(q.owner) /\ Resolvable(q)
    /\ IF IsRecorded(q) \/ Holds(q.path, q.from)
       THEN pending' = pending \ {q} /\ UNCHANGED records
       ELSE Record(q) /\ UNCHANGED pending
    /\ subject' = q.owner /\ step' = "settle"
    /\ UNCHANGED <<files, lifecycle, executed, process,
                   job, prepared, applied, touched, budgets>>

\* The evidence is preserved and finalization or startup fails.
EditConflicts(q) ==
    /\ q \in EditIntents /\ Settles(q.owner) /\ ~Resolvable(q)
    /\ Abandon
    /\ UNCHANGED <<files, rows, budgets>>

\* seal: an open ChangeSet without unresolved intents.
Seal(c) == lifecycle[c] = "open" /\ Of(c) = {} /\ SetLifecycle(c, "applied")

\* delete_empty_open: it has no files, no observation and no intent.
DeleteEmpty(c) == ~HasFiles(c) /\ c \notin executed /\ SetLifecycle(c, "deleted")

\* The ordinary intents of c are gone: it is sealed.  finalize_failed deletes
\* one that never changed anything, unless a ToolActivity refers to it.
Settle(c) ==
    /\ step = "settle" /\ subject = c /\ mode # "down"
    /\ Of(c) \cap EditIntents = {}
    /\ \/ Seal(c)
       \/ job = "discard" /\ prepared = {} /\ DeleteEmpty(c)
    /\ published' = published \ {c}
    /\ Stop
    /\ UNCHANGED <<files, records, executed, pending, mode, budgets>>

\* A delete or the seal raised, the seal perhaps after it took effect.
SettleFails(c) ==
    /\ step = "settle" /\ subject = c /\ mode # "down" /\ Fault
    /\ \/ UNCHANGED lifecycle
       \/ Of(c) = {} /\ SetLifecycle(c, "applied")
    /\ Abandon
    /\ UNCHANGED <<files, records, executed, pending, ops, edits, crashes>>

-----------------------------------------------------------------------------
(* The user, crashes and startup.                                          *)

\* The user replaces a node; what a job has bound is remembered.
External(p, content) ==
    /\ edits < MaxEdits /\ edits' = edits + 1
    /\ content # disk[p]
    /\ Put(p, content, Nobody)
    /\ touched' = IF p \in PathsOf(prepared) THEN touched \cup {p} ELSE touched
    /\ UNCHANGED <<rows, process, job, subject, step, prepared, applied,
                   ops, crashes, faults>>

Crash ==
    /\ crashes < MaxCrashes /\ mode # "down"
    /\ crashes' = crashes + 1
    /\ mode' = "down" /\ published' = {} /\ Stop
    /\ UNCHANGED <<files, rows, ops, edits, faults>>

Restart ==
    /\ mode = "down" /\ mode' = "reconciling"
    /\ published' = {}
    /\ UNCHANGED <<files, rows, working, budgets>>

\* reconcile_pending reached the interrupted undos and redos.
Group(c, kind) == {q \in pending : q.owner = c /\ q.kind = kind}
Reconciling(c, kind) ==
    /\ mode = "reconciling" /\ step = "idle"
    /\ EditIntents = {} /\ Group(c, kind) # {}

\* Faulty: a partly applied operation is a conflict.
Explained_AllOrNothing(c, kind) ==
    /\ lifecycle[c] \in {"applied", "undone"}
    /\ \/ \A q \in Group(c, kind) : Holds(q.path, q.to)
       \/ lifecycle[c] = Source(kind) /\ \A q \in Group(c, kind) : Holds(q.path, q.from)

\* Every path holds its state before or after; all after, once committed.
Explained(c, kind) ==
    /\ lifecycle[c] \in {"applied", "undone"}
    /\ \A q \in Group(c, kind) :
          \/ Holds(q.path, q.to)
          \/ Holds(q.path, q.from) /\ lifecycle[c] = Source(kind)

\* _reconcile_operation: a committed one is cleared, the others rolled back.
ReconcileOperation(c, kind) ==
    /\ Reconciling(c, kind) /\ Explained(c, kind)
    /\ job' = kind /\ subject' = c /\ prepared' = Group(c, kind) /\ touched' = {}
    /\ IF lifecycle[c] = Committed(kind)
       THEN step' = "clear" /\ applied' = {}
       ELSE step' = "rollback" /\ applied' = {q.path : q \in {r \in prepared' : disk[r.path] = r.to}}
    /\ UNCHANGED <<files, rows, process, budgets>>

OperationConflicts(c, kind) ==
    /\ Reconciling(c, kind) /\ ~Explained(c, kind)
    /\ Abandon
    /\ UNCHANGED <<files, rows, budgets>>

SealOrphan(c) ==
    /\ mode = "reconciling" /\ step = "idle" /\ pending = {}
    /\ Seal(c)
    /\ UNCHANGED <<files, records, executed, pending, process, working, budgets>>

Activate ==
    /\ mode = "reconciling" /\ step = "idle" /\ pending = {}
    /\ \A c \in ChangeSets : lifecycle[c] # "open"
    /\ mode' = "up"
    /\ UNCHANGED <<files, rows, published, working, budgets>>

-----------------------------------------------------------------------------

JobStep ==
    \/ \E q \in prepared :
          \/ SaveIntent(q) \/ SaveIntentFails(q)
          \/ Effect(q) \/ EffectRefused(q) \/ EffectFails(q) \/ Withdraw(q)
          \/ RecordEdit(q) \/ RecordEditFails(q)
          \/ RollBack(q) \/ RollBackFails(q) \/ ClearIntent(q)
    \/ CommitRestore \/ CommitRestoreFails \/ RolledBack \/ Cleared \/ ClearFails
    \/ \E q \in pending : ReconcileEdit(q) \/ EditConflicts(q)
    \/ \E c \in ChangeSets :
          \/ Settle(c) \/ SettleFails(c) \/ SealOrphan(c)
          \/ \E kind \in {"undo", "redo"} :
                ReconcileOperation(c, kind) \/ OperationConflicts(c, kind)
    \/ Activate

Next ==
    \/ JobStep
    \/ \E c \in ChangeSets :
          \/ OpenChangeSet(c) \/ RecordExecute(c)
          \/ \E p \in Paths, content \in Contents : BeginEdit(c, p, content)
          \/ \E kind \in {"undo", "redo"} : BeginRestore(c, kind)
          \/ \E what \in {"seal", "discard"} : BeginSeal(c, what)
    \/ \E p \in Paths, content \in Contents : External(p, content)
    \/ Crash \/ Restart

Spec == Init /\ [][Next]_vars

-----------------------------------------------------------------------------
(* Properties.                                                             *)

\* No program write without durable evidence: whenever the program changes a
\* path there is a pending row that names what was there and what is written.
\* In particular a replacement by the user is never overwritten unseen.
WriteAhead ==
    [][\A p \in Paths :
         disk'[p] # disk[p] /\ edits' = edits =>
             \E q \in pending : q.path = p /\ {disk[p], disk'[p]} = {q.from, q.to}]_vars

\* Between operations a path the program wrote last and holds no evidence on
\* has the state the record of its writer gives for its lifecycle: an undo or
\* redo is never half done and an edit never unrecorded, after any failure,
\* crash and recovery.
JournalTellsTruth ==
    Idle =>
        \A p \in Paths, c \in ChangeSets :
            writer[p] = c /\ p \notin PathsOf(pending) =>
                disk[p] = CASE p \notin recorded[c] -> Absent
                            [] p \in recorded[c] /\ lifecycle[c] = "undone" -> before[c][p]
                            [] OTHER -> after[c][p]

\* A deleted ChangeSet never had an effect.
DiscardedIsEmpty ==
    \A c \in ChangeSets :
        lifecycle[c] = "deleted" =>
            /\ c \notin executed /\ ~HasFiles(c) /\ Of(c) = {}
            /\ \A p \in Paths : writer[p] # c

\* What the journal says is so, and what it has dropped never happened.
JournalSound == JournalTellsTruth /\ DiscardedIsEmpty

\* Without a user edit and a failed write, no crash makes a startup fail: what
\* the process left at any point can be settled.
StartupFails == mode = "reconciling" /\ mode' = "down" /\ crashes' = crashes
RestartRecovers == [][StartupFails => edits > 0 \/ faults' > 0]_vars

\* An operation or a startup that has begun has a next step, whichever of its
\* steps failed or crashed before (each leads on, so it ends).
NeverStuck == job # "none" \/ mode = "reconciling" => ENABLED JobStep

\* Startups settle what a process left, and nothing hangs half way.
WorkSettles == RestartRecovers /\ []NeverStuck
=============================================================================
