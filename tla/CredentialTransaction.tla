------------------------- MODULE CredentialTransaction -------------------------
(***************************************************************************)
(* Saving, replacing, deleting and selecting the API key of a service:      *)
(* application/provider_configuration.py, config/credentials.py,            *)
(* config/credential_transaction.py, config/loader.py.                      *)
(*                                                                          *)
(* The processes of one user share .env and config.yaml, and the two files  *)
(* of a pending transaction: a journal record and a copy of .env.  One      *)
(* change runs on a worker thread under the locks of config.yaml and .env,  *)
(* taken in that order, so the first one stands for both; the event loop    *)
(* that asked for it may be cancelled meanwhile, and waits a bounded time.  *)
(* What was committed is published as a new Runtime afterwards.             *)
(*                                                                          *)
(* Between two steps a process may crash, a durable write may fail before   *)
(* or after it took effect, and the user may edit .env by hand.             *)
(***************************************************************************)
EXTENDS Naturals, FiniteSets

CONSTANTS Procs, Services,
          Exported,                 \* services whose variable is set in the environment
          Keys,                     \* the API keys a user types
          ExportedKey,              \* the one in the environment
          NoKey, Nobody, NoFile, NoRecord,
          MaxRequests, MaxMishaps   \* bounds of the model

ASSUME CredentialAssumption ==
    /\ Exported \subseteq Services /\ Nobody \notin Procs
    /\ NoKey \notin Keys
    /\ NoFile \notin [Services -> Keys \cup {NoKey}]
    /\ {MaxRequests, MaxMishaps} \subseteq Nat

VARIABLES
    disk,      \* .env, its backup, the journal, the source of each service in config.yaml
    lock,      \* the process whose worker holds the locks
    at,        \* the next step of each worker
    mode,      \* what it is in: "start", "change", "select", "undo", "keep"
    rec,       \* the change it was asked for, as the journal records it
    fenced,    \* _recovery_required of the running configuration service
    call,      \* the coroutine that awaits the worker, then publishes
    runtime,   \* the keys the process runs with
    snap,      \* what its last committed change loaded
    edited,    \* .env was edited by hand during the pending change
    faulty,    \* a write, or the building of a Runtime, failed
    requests,
    mishaps    \* crashes, failures, cancellations and edits so far

worker == <<at, mode, rec>>
loop   == <<fenced, call, runtime>>
counts == <<faulty, requests, mishaps>>
vars == <<disk, lock, worker, loop, snap, edited, counts>>

-----------------------------------------------------------------------------
(* Files.                                                                  *)

EnvFiles == [Services -> Keys \cup {NoKey}] \cup {NoFile}
Sources  == {"none", "environment", "awesome"}
Loads    == [Services -> Keys \cup {NoKey, ExportedKey}]

\* ProviderCredentialTransactionRecord: the change, its two ends and how far it is.
Changes == [phase : {"prepared", "secret_committed", "committed"}, service : Services,
            env : EnvFiles, target : EnvFiles, source : Sources, targetSource : Sources]
Choices == [service : Services, source : Sources]
Disks   == [env : EnvFiles, backup : EnvFiles, journal : Changes \cup {NoRecord},
            source : [Services -> Sources]]

ASSUME RecordAssumption == NoRecord \notin Changes

Lines(env) == IF env = NoFile THEN [s \in Services |-> NoKey] ELSE env

\* plan_set and plan_delete: the rest of the file is kept; deleting the last
\* line leaves an empty file.
Put(env, s, k) == [Lines(env) EXCEPT ![s] = k]

\* resolve_provider_credential_statuses: a service nobody selected a source for.
Selected(d, s) ==
    IF d.source[s] # "none" THEN d.source[s]
    ELSE IF s \in Exported THEN "environment"
    ELSE IF Lines(d.env)[s] # NoKey THEN "awesome" ELSE "none"

\* The keys that loading the two files gives.
Load(d) ==
    [s \in Services |->
        CASE Selected(d, s) = "environment" /\ s \in Exported -> ExportedKey
          [] Selected(d, s) = "awesome" -> Lines(d.env)[s]
          [] OTHER -> NoKey]

\* read: no file, or a valid record.
Recorded == disk.journal # NoRecord
Clean    == ~Recorded /\ disk.backup = NoFile

\* The two ends of a recorded change.
End(r, target) == IF target THEN [env |-> r.target, source |-> r.targetSource]
                            ELSE [env |-> r.env, source |-> r.source]

\* _verify_credential_transaction_state.
AtEnd(r, target) ==
    disk.env = End(r, target).env /\ disk.source[r.service] = End(r, target).source

-----------------------------------------------------------------------------

Steps == {"lock", "stage", "prepare", "write", "mark", "select", "commit", "unback",
          "unjournal", "decide", "orphan", "restore", "source", "verify", "rest"}
Results == {"saved", "failed", "stuck"}

Modes   == {"start", "change", "select", "undo", "keep"}

TypeOK ==
    /\ disk \in Disks
    /\ lock \in Procs \cup {Nobody}
    /\ at \in [Procs -> {"down", "load", "idle"} \cup Steps \cup Results]
    /\ mode \in [Procs -> Modes]
    /\ rec \in [Procs -> Changes \cup Choices \cup {NoRecord}]
    /\ fenced \in [Procs -> BOOLEAN]
    /\ call \in [Procs -> {"none", "waiting", "cancelled", "publishing", "leaving"}]
    /\ runtime \in [Procs -> Loads] /\ snap \in [Procs -> Loads]
    /\ edited \in BOOLEAN /\ faulty \in BOOLEAN
    /\ requests \in Nat /\ mishaps \in Nat

Nothing == [s \in Services |-> NoKey]

Init ==
    /\ \E env \in EnvFiles :
          disk = [env |-> env, backup |-> NoFile, journal |-> NoRecord,
                  source |-> [s \in Services |-> "none"]]
    /\ lock = Nobody
    /\ at = [p \in Procs |-> "down"] /\ mode = [p \in Procs |-> "start"]
    /\ rec = [p \in Procs |-> NoRecord]
    /\ fenced = [p \in Procs |-> FALSE] /\ call = [p \in Procs |-> "none"]
    /\ runtime = [p \in Procs |-> Nothing] /\ snap = [p \in Procs |-> Nothing]
    /\ edited = FALSE
    /\ faulty = FALSE /\ requests = 0 /\ mishaps = 0

Go(p, step)   == at' = [at EXCEPT ![p] = step]
Become(p, m)  == mode' = [mode EXCEPT ![p] = m]
Fence(p)      == fenced' = [fenced EXCEPT ![p] = TRUE]
Holds(p)      == lock = p
Mishap        == mishaps < MaxMishaps /\ mishaps' = mishaps + 1 /\ UNCHANGED requests
Fault         == Mishap /\ faulty' = TRUE

\* Faulty: the step that failed tells whether the change is kept, not its record.
Throw_ByStep(p) ==
    CASE mode[p] = "change" ->
            /\ Go(p, "decide")
            /\ Become(p, IF at[p] \in {"unback", "unjournal"} THEN "keep" ELSE "undo")
      [] mode[p] = "select" -> Go(p, "failed") /\ UNCHANGED mode
      [] OTHER -> Go(p, "stuck") /\ UNCHANGED mode

\* An exception in a step: the change is undone, or kept once its record says
\* committed; a failing recovery, or startup, gives up; selecting has nothing
\* to recover.
Throw(p) ==
    CASE mode[p] = "change" ->
            /\ Go(p, "decide")
            /\ Become(p, IF \/ at[p] \in {"unback", "unjournal"}
                            \/ (Recorded' /\ disk'.journal.phase = "committed")
                         THEN "keep" ELSE "undo")
      [] mode[p] = "select" -> Go(p, "failed") /\ UNCHANGED mode
      [] OTHER -> Go(p, "stuck") /\ UNCHANGED mode

\* A durable write: it happens, or fails before or after taking effect.
Write(p, step, new, next) ==
    /\ at[p] = step /\ Holds(p)
    /\ \/ disk' = new /\ Go(p, next) /\ UNCHANGED <<mode, counts>>
       \/ Fault /\ disk' \in {disk, new} /\ Throw(p)
    /\ UNCHANGED <<lock, rec, loop, snap, edited>>

\* What a step reads is not what it must be.
Refuse(p) ==
    /\ UNCHANGED disk /\ Throw(p)
    /\ UNCHANGED <<lock, rec, loop, snap, edited, counts>>

-----------------------------------------------------------------------------
(* A process, and what it is asked to do.                                  *)

Start(p) ==
    /\ at[p] = "down" /\ Go(p, "lock") /\ Become(p, "start")
    /\ UNCHANGED <<disk, lock, rec, loop, snap, edited, counts>>

\* After reconciling, the files are read again, without their locks.
LoadAtStart(p) ==
    /\ at[p] = "load" /\ Go(p, "idle")
    /\ runtime' = [runtime EXCEPT ![p] = Load(disk)]
    /\ snap' = [snap EXCEPT ![p] = Load(disk)]
    /\ UNCHANGED <<disk, lock, mode, rec, fenced, call, edited, counts>>

Free(p) == at[p] = "idle" /\ call[p] = "none" /\ requests < MaxRequests
Ask(p, m) ==
    /\ Free(p) /\ Go(p, "lock") /\ Become(p, m)
    /\ call' = [call EXCEPT ![p] = "waiting"] /\ requests' = requests + 1
    /\ UNCHANGED <<disk, lock, rec, fenced, runtime, snap, edited, faulty, mishaps>>

\* set_credential, of which service and key the worker's first step tells; an
\* invalid key, and one that could not be validated and was not confirmed, end
\* here.
SetCredential(p) == Ask(p, "change")

\* /auth <service> <source>.
SelectSource(p) == ~fenced[p] /\ Ask(p, "select")

\* ensure_consistent, before any other request.
Check(p) ==
    /\ at[p] = "idle" /\ lock = Nobody /\ ~Clean /\ Fence(p)
    /\ UNCHANGED <<disk, lock, worker, call, runtime, snap, edited, counts>>

Crash(p) ==
    /\ at[p] # "down" /\ Mishap
    /\ lock' = IF Holds(p) THEN Nobody ELSE lock
    /\ Go(p, "down") /\ Become(p, "start")
    /\ rec' = [rec EXCEPT ![p] = NoRecord]
    /\ fenced' = [fenced EXCEPT ![p] = FALSE] /\ call' = [call EXCEPT ![p] = "none"]
    /\ runtime' = [runtime EXCEPT ![p] = Nothing] /\ snap' = [snap EXCEPT ![p] = Nothing]
    /\ edited' = (edited /\ (~Clean \/ lock' # Nobody))
    /\ UNCHANGED <<disk, faulty>>

\* The user saves .env from an editor.
Edit ==
    /\ Mishap
    /\ \E s \in Services, k \in Keys \cup {NoKey} :
          disk' = [disk EXCEPT !.env = Put(disk.env, s, k)]
    /\ edited' = (lock # Nobody \/ ~Clean)
    /\ UNCHANGED <<lock, worker, loop, snap, faulty>>

-----------------------------------------------------------------------------
(* The change, on a worker.                                                *)

Lock(p) == at[p] = "lock" /\ lock = Nobody /\ lock' = p

\* Ten seconds pass and another process still has the locks.
LockTimesOut(p) ==
    /\ at[p] = "lock" /\ lock \notin {p, Nobody}
    /\ IF mode[p] = "start" THEN Go(p, "down") /\ UNCHANGED call
       ELSE Go(p, "idle") /\ call' = [call EXCEPT ![p] = "none"]
    /\ UNCHANGED <<disk, lock, mode, rec, fenced, runtime, snap, edited, counts>>

\* _require_consistent_locked; what it finds is remembered.
FoundPending(p) ==
    /\ Lock(p) /\ mode[p] # "start" /\ (fenced[p] \/ ~Clean)
    /\ Fence(p) /\ Go(p, "stuck")
    /\ UNCHANGED <<disk, mode, rec, call, runtime, snap, edited, counts>>

\* Faulty: deleting the last key is planned as removing the file.
Planned_NoEmptyFile(s, k) ==
    LET env == Put(disk.env, s, k)
    IN  [phase |-> "prepared", service |-> s,
         env |-> disk.env, source |-> disk.source[s],
         target |-> IF env = Nothing THEN NoFile ELSE env,
         targetSource |-> IF k = NoKey THEN disk.source[s] ELSE "awesome"]

\* The record, from what the locked files say.
Planned(s, k) ==
    [phase |-> "prepared", service |-> s,
     env |-> disk.env, source |-> disk.source[s],
     target |-> Put(disk.env, s, k),
     targetSource |-> IF k = NoKey THEN disk.source[s] ELSE "awesome"]

\* Deleting a key that is not there only loads.
Plan(p) ==
    /\ Lock(p) /\ mode[p] = "change" /\ ~fenced[p] /\ Clean
    /\ \E s \in Services, k \in Keys \cup {NoKey} :
           IF k = NoKey /\ Lines(disk.env)[s] = NoKey
           THEN /\ snap' = [snap EXCEPT ![p] = Load(disk)]
                /\ Go(p, "saved") /\ UNCHANGED rec
           ELSE /\ rec' = [rec EXCEPT ![p] = Planned(s, k)]
                /\ Go(p, "stage") /\ UNCHANGED snap
    /\ UNCHANGED <<disk, mode, loop, edited, counts>>

StageBackup(p) == at[p] = "stage" /\ Write(p, "stage", [disk EXCEPT !.backup = rec[p].env], "prepare")

\* Faulty: the journal does not wait for the key to be saved.
Prepare_Committed(p) ==
    /\ at[p] = "prepare"
    /\ Write(p, "prepare", [disk EXCEPT !.journal = [rec[p] EXCEPT !.phase = "committed"]], "write")

Prepare(p) == Write(p, "prepare", [disk EXCEPT !.journal = rec[p]], "write")

\* set and delete plan again, from the file as it is now.
WriteEnv(p) ==
    /\ at[p] = "write"
    /\ LET s == rec[p].service IN
       Write(p, "write", [disk EXCEPT !.env = Put(disk.env, s, Lines(rec[p].target)[s])], "mark")

Mark(p, step, phase, next) ==
    Write(p, step, [disk EXCEPT !.journal = [rec[p] EXCEPT !.phase = phase]], next)

MarkSecret(p) ==
    /\ at[p] = "mark"
    /\ IF disk.env = rec[p].target THEN Mark(p, "mark", "secret_committed", "select")
       ELSE Refuse(p)

\* _write_credential_source, at the end of a change, of a recovery, and alone.
WriteSource(p) ==
    \/ /\ at[p] = "select" /\ mode[p] = "change"
       /\ Write(p, "select",
                [disk EXCEPT !.source[rec[p].service] = rec[p].targetSource], "commit")
    \/ /\ at[p] = "source"
       /\ Write(p, "source",
                [disk EXCEPT !.source[disk.journal.service] =
                    End(disk.journal, disk.journal.phase = "committed").source], "verify")

\* Loading fails as a write does, after the source was written.
WriteSelected(p) ==
    /\ at[p] = "select" /\ mode[p] = "select" /\ Holds(p)
    /\ LET new == [disk EXCEPT !.source[rec[p].service] = rec[p].source]
       IN  \/ /\ disk' = new /\ snap' = [snap EXCEPT ![p] = Load(new)]
              /\ Go(p, "saved") /\ UNCHANGED counts
           \/ Fault /\ disk' \in {disk, new} /\ Go(p, "failed") /\ UNCHANGED snap
    /\ UNCHANGED <<lock, mode, rec, loop, edited>>

\* _select_source holds the configuration lock only.
Select(p) ==
    /\ Lock(p) /\ mode[p] = "select" /\ ~fenced[p] /\ Clean /\ Go(p, "select")
    /\ \E s \in Services, src \in {"environment", "awesome"} :
          /\ src = "environment" => s \in Exported
          /\ rec' = [rec EXCEPT ![p] = [service |-> s, source |-> src]]
    /\ UNCHANGED <<disk, mode, loop, snap, edited, counts>>

Commit(p) ==
    /\ at[p] = "commit"
    /\ IF AtEnd(rec[p], TRUE) THEN Mark(p, "commit", "committed", "unback")
       ELSE Refuse(p)

\* journal.clear: the backup first, the record last.
Clear(p) ==
    \/ Write(p, "unback", [disk EXCEPT !.backup = NoFile], "unjournal")
    \/ Write(p, "unjournal", [disk EXCEPT !.journal = NoRecord], "rest")

-----------------------------------------------------------------------------
(* reconcile_provider_credential_transaction: at startup, and after a       *)
(* failed change.                                                           *)

StartRecovery(p) ==
    /\ Lock(p) /\ mode[p] = "start" /\ Go(p, "decide")
    /\ UNCHANGED <<disk, mode, rec, loop, snap, edited, counts>>

BackupTells == disk.backup = disk.journal.env

Decision ==
    IF ~Recorded THEN (IF disk.backup = NoFile THEN "rest" ELSE "orphan")
    ELSE IF disk.journal.phase = "committed"
    THEN (IF disk.env = disk.journal.target THEN "source" ELSE "refuse")
    ELSE IF disk.env = disk.journal.env THEN "source"
    ELSE IF disk.env = disk.journal.target /\ BackupTells THEN "restore" ELSE "refuse"

Decide(p) ==
    /\ at[p] = "decide" /\ Holds(p)
    /\ IF Decision = "refuse" THEN Refuse(p)
       ELSE /\ Go(p, Decision)
            /\ UNCHANGED <<disk, lock, mode, rec, loop, snap, edited, counts>>

ClearOrphan(p) == Write(p, "orphan", [disk EXCEPT !.backup = NoFile], "rest")
Restore(p)     == Write(p, "restore", [disk EXCEPT !.env = disk.backup], "source")

Verify(p) ==
    /\ at[p] = "verify" /\ Holds(p)
    /\ IF AtEnd(disk.journal, disk.journal.phase = "committed")
       THEN Go(p, "unback") /\ UNCHANGED <<disk, lock, mode, rec, loop, snap, edited, counts>>
       ELSE Refuse(p)

\* Nothing is pending any more: the change is kept or gone, or the process
\* starts.
Rest(p) ==
    /\ at[p] = "rest" /\ Holds(p)
    /\ CASE mode[p] = "start" -> /\ Go(p, "load") /\ lock' = Nobody /\ edited' = FALSE
                                 /\ UNCHANGED <<disk, mode, rec, loop, snap, counts>>
         [] mode[p] = "undo" -> /\ Go(p, "failed")
                                /\ UNCHANGED <<disk, lock, mode, rec, loop, snap, edited, counts>>
         [] mode[p] = "keep" /\ ~AtEnd(rec[p], TRUE) -> Refuse(p)
         [] OTHER -> /\ Go(p, "saved") /\ snap' = [snap EXCEPT ![p] = Load(disk)]
                     /\ UNCHANGED <<disk, lock, mode, rec, loop, edited, counts>>

-----------------------------------------------------------------------------
(* The coroutine: _persist_and_apply.                                      *)

\* The worker is done.  A failed recovery fences the process, at startup it
\* ends it; what a cancelled or fenced caller no longer awaits is dropped.
Return(p) ==
    /\ at[p] \in Results /\ Holds(p) /\ lock' = Nobody
    /\ Go(p, IF mode[p] = "start" THEN "down" ELSE "idle")
    /\ fenced' = [fenced EXCEPT ![p] = mode[p] # "start" /\ (@ \/ at[p] = "stuck")]
    /\ call' = [call EXCEPT ![p] =
          CASE at[p] = "saved" /\ @ = "waiting"   -> "publishing"
            [] at[p] = "saved" /\ @ = "cancelled" -> "leaving"
            [] OTHER -> "none"]
    /\ rec' = [rec EXCEPT ![p] = NoRecord]
    /\ edited' = (edited /\ ~Clean)
    /\ UNCHANGED <<disk, mode, runtime, snap, counts>>

Cancel(p) ==
    /\ call[p] \in {"waiting", "publishing"} /\ Mishap
    /\ call' = [call EXCEPT ![p] = IF @ = "waiting" THEN "cancelled" ELSE "leaving"]
    /\ UNCHANGED <<disk, lock, worker, fenced, runtime, snap, edited, faulty>>

\* Faulty: what was committed before the cancellation is not published.
Abandon_AndForget(p) ==
    /\ call[p] \in {"cancelled", "leaving"}
    /\ call' = [call EXCEPT ![p] = "none"]
    /\ IF call[p] = "cancelled" THEN Fence(p) ELSE UNCHANGED fenced
    /\ UNCHANGED <<disk, lock, worker, runtime, snap, edited, counts>>

\* A cancelled caller waits 22 s for the worker, then for the publication; it
\* revokes the authority of a publication that is late.
Abandon(p) ==
    /\ call[p] \in {"cancelled", "leaving"}
    /\ call' = [call EXCEPT ![p] = "none"] /\ Fence(p)
    /\ UNCHANGED <<disk, lock, worker, runtime, snap, edited, counts>>

\* _apply_configuration builds a Runtime, which may fail, and publishes it.
Publish(p) ==
    /\ call[p] \in {"publishing", "leaving"} /\ call' = [call EXCEPT ![p] = "none"]
    /\ \/ runtime' = [runtime EXCEPT ![p] = snap[p]] /\ UNCHANGED <<fenced, counts>>
       \/ Fault /\ Fence(p) /\ UNCHANGED runtime
    /\ UNCHANGED <<disk, lock, worker, snap, edited>>

-----------------------------------------------------------------------------

Worker(p) ==
    \/ LoadAtStart(p) \/ LockTimesOut(p) \/ FoundPending(p) \/ Plan(p)
    \/ StageBackup(p) \/ Prepare(p) \/ WriteEnv(p) \/ MarkSecret(p)
    \/ WriteSource(p) \/ WriteSelected(p) \/ Select(p) \/ Commit(p) \/ Clear(p)
    \/ StartRecovery(p) \/ Decide(p) \/ ClearOrphan(p) \/ Restore(p)
    \/ Verify(p) \/ Rest(p) \/ Return(p)

Next ==
    \/ Edit
    \/ \E p \in Procs :
         \/ Worker(p) \/ Start(p) \/ SetCredential(p) \/ SelectSource(p) \/ Check(p)
         \/ Crash(p) \/ Cancel(p) \/ Abandon(p) \/ Publish(p)

Spec == Init /\ [][Next]_vars

-----------------------------------------------------------------------------

\* What the files stand for: while a change is recorded, one of its two ends.
Value ==
    LET j == disk.journal
    IN  IF j = NoRecord THEN <<disk.env, disk.source>>
        ELSE LET e == End(j, j.phase = "committed")
             IN  <<e.env, [disk.source EXCEPT ![j.service] = e.source]>>

Committing ==
    /\ Recorded /\ Recorded'
    /\ disk.journal.phase # "committed" /\ disk'.journal.phase = "committed"

\* The key and the source of a service change together, at the one write that
\* marks the record committed: no crash, no failing write and no other process
\* leaves one of them without the other, the startup that finds the record
\* restores every line of .env, and only then is the record removed.
AtomicChange ==
    [][(Value' # Value /\ ~edited /\ ~Edit)
          => Committing \/ \E p \in Procs : WriteSelected(p)]_vars

\* A caller is told that its key was saved only when both files say so, and is
\* told of a plain failure only when both are as before; anything else fences.
ToldTruth ==
    \A p \in Procs :
        (mode[p] \in {"change", "undo", "keep"} /\ ~edited /\ at[p] \in {"saved", "failed"}) =>
            /\ Clean
            /\ rec[p] # NoRecord => AtEnd(rec[p], at[p] = "saved")

\* Recovery that finds files it cannot explain asks for a human; without a
\* hand edit or an error of the disk the two processes never get there.
RefusalHasReason ==
    \A p \in Procs :
        (at[p] = "stuck" /\ ~faulty /\ ~edited) => fenced[p]

\* A process that goes on serving runs with what its last change committed: a
\* caller that was cancelled after the commit has it published, or the process
\* is fenced.
AppliedOrFenced ==
    \A p \in Procs :
        (at[p] = "idle" /\ call[p] = "none" /\ ~fenced[p]) => runtime[p] = snap[p]
=============================================================================
