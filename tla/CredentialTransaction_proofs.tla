--------------------- MODULE CredentialTransaction_proofs ---------------------
(***************************************************************************)
(* The inductive invariant of CredentialTransaction and what follows from  *)
(* it, for any number of processes, services, keys, requests and mishaps:  *)
(* Hands, Asked and Stages hold whatever is edited; Explained says what    *)
(* the files hold while nobody edits .env by hand.                         *)
(***************************************************************************)
EXTENDS CredentialTransaction, TLAPS

\* Where a worker holds no lock.
Away == {"down", "load", "idle", "lock"}
Recovery == {"decide", "orphan", "restore", "source", "verify", "unback", "unjournal",
             "rest", "stuck"}

\* The points each kind of work passes.
PointsOf(m) ==
    CASE m = "start"  -> Recovery \cup {"down", "lock", "load", "idle"}
      [] m = "change" -> {"idle", "lock", "stage", "prepare", "write", "mark", "select",
                          "commit", "unback", "unjournal", "rest", "saved", "stuck"}
      [] m = "select" -> {"idle", "lock", "select", "saved", "failed", "stuck"}
      [] m = "undo"   -> Recovery \cup {"idle", "failed"}
      [] OTHER        -> Recovery \cup {"idle", "saved"}

\* The worker, its lock and the coroutine that awaits it.
Hands == \A p \in Procs :
    /\ lock = p <=> at[p] \notin Away
    /\ at[p] \in PointsOf(mode[p])
    /\ mode[p] = "start" => call[p] = "none" /\ (fenced[p] => at[p] = "idle")
    /\ call[p] \in {"publishing", "leaving"} => at[p] = "idle"
    /\ at[p] = "idle" => call[p] \notin {"waiting", "cancelled"}
    /\ mode[p] # "start" /\ at[p] # "idle" /\ call[p] = "none" => fenced[p]

\* What is served is what was committed, unless somebody still has to publish it.
Synced == \A p \in Procs :
    \/ fenced[p] \/ runtime[p] = snap[p]
    \/ at[p] = "saved" \/ call[p] \in {"publishing", "leaving"}

\* A change as it was planned: its target differs from .env in one line.
Fresh(r) ==
    /\ r \in Changes /\ r.phase = "prepared"
    /\ r.target = Put(r.env, r.service, Lines(r.target)[r.service])

\* What each worker was asked for.
Asked == \A p \in Procs :
    /\ lock # p \/ mode[p] = "start" => rec[p] = NoRecord
    /\ lock = p /\ mode[p] \in {"change", "undo", "keep"} =>
          \/ Fresh(rec[p])
          \/ mode[p] = "change" /\ at[p] \in {"saved", "stuck"} /\ rec[p] = NoRecord
    /\ lock = p /\ mode[p] = "select" /\ at[p] = "select" => rec[p] \in Choices

\* The record in the journal, whatever its phase, is the one r describes.
Same(j, r) == [j EXCEPT !.phase = "prepared"] = r

\* A record in another phase.
Marked(r, ph) == [r EXCEPT !.phase = ph]

\* The journal and the copy of .env, by how far the worker is: hand edits of
\* .env do not touch them.
Stage(p) ==
    /\ at[p] \in {"stage", "rest", "saved"} /\ mode[p] # "select" => Clean
    /\ at[p] = "failed" /\ mode[p] = "undo" => Clean
    /\ at[p] \in {"prepare", "orphan"} => ~Recorded
    /\ at[p] \in {"write", "mark"} => disk.journal = rec[p]
    /\ at[p] \in {"select", "commit"} /\ mode[p] = "change"
       => disk.journal = Marked(rec[p], "secret_committed")
    /\ at[p] \in {"unback", "unjournal"} /\ mode[p] = "change"
       => disk.journal = Marked(rec[p], "committed")
    /\ at[p] \in {"restore", "source", "verify", "unback", "unjournal"} => Recorded
    /\ at[p] = "restore" => disk.journal.phase # "committed"
    /\ at[p] = "unjournal" => disk.backup = NoFile
    /\ mode[p] \in {"undo", "keep"} /\ Recorded =>
          /\ Same(disk.journal, rec[p])
          /\ disk.journal.phase = "committed" <=> mode[p] = "keep"

Stages == \A p \in Procs : lock = p => Stage(p)

Core == TypeOK /\ Hands /\ Asked /\ Stages

\* Planning a line gives a file.
LEMMA PutType == ASSUME NEW env \in EnvFiles, NEW s \in Services, NEW k \in Keys \cup {NoKey}
                 PROVE  /\ Put(env, s, k) \in EnvFiles /\ Lines(env) \in [Services -> Keys \cup {NoKey}]
                        /\ Put(env, s, k) \in [Services -> Keys \cup {NoKey}]
  BY CredentialAssumption DEF Put, Lines, EnvFiles

\* Loading gives keys.
LEMMA LoadType == ASSUME NEW d \in Disks PROVE Load(d) \in Loads
  <1>1. d.env \in EnvFiles
    BY DEF Disks
  <1>2. Lines(d.env) \in [Services -> Keys \cup {NoKey}]
    BY <1>1 DEF Lines, EnvFiles
  <1>3. QED
    BY <1>2 DEF Load, Loads

\* One durable write leaves well-formed files.
LEMMA FilesType ==
    ASSUME NEW d \in Disks
    PROVE  /\ \A e \in EnvFiles : [d EXCEPT !.env = e] \in Disks
           /\ \A e \in EnvFiles : [d EXCEPT !.backup = e] \in Disks
           /\ \A j \in Changes \cup {NoRecord} : [d EXCEPT !.journal = j] \in Disks
           /\ \A s \in Services, x \in Sources : [d EXCEPT !.source[s] = x] \in Disks
  BY DEF Disks

\* What the two ends of a recorded change are.
LEMMA Parts ==
    ASSUME NEW r \in Changes
    PROVE  /\ r.service \in Services /\ r.env \in EnvFiles /\ r.target \in EnvFiles
           /\ r.source \in Sources /\ r.targetSource \in Sources
           /\ \A ph \in {"prepared", "secret_committed", "committed"} :
                 [r EXCEPT !.phase = ph] \in Changes
           /\ \A t \in BOOLEAN : End(r, t).env \in EnvFiles /\ End(r, t).source \in Sources
  BY DEF Changes, End

\* An exception leaves the worker at a step.
LEMMA ThrowType == ASSUME TypeOK, NEW p \in Procs, Throw(p)
                   PROVE  /\ at' \in [Procs -> {"down", "load", "idle"} \cup Steps \cup Results]
                          /\ mode' \in [Procs -> Modes]
  BY DEF TypeOK, Throw, Go, Become, Steps, Results, Modes

\* A durable write keeps the types, whether it fails or not.
LEMMA WriteType ==
    ASSUME TypeOK, NEW p \in Procs, NEW step, NEW new \in Disks, NEW next \in Steps,
           Write(p, step, new, next)
    PROVE  TypeOK'
  <1>1. CASE disk' = new /\ Go(p, next) /\ UNCHANGED <<mode, counts>>
    BY <1>1 DEF Write, TypeOK, Go, loop, counts
  <1>2. CASE Fault /\ disk' \in {disk, new} /\ Throw(p)
    BY <1>2, ThrowType DEF Write, TypeOK, Fault, Mishap, loop
  <1>3. QED
    BY <1>1, <1>2 DEF Write

\* So does refusing what was read.
LEMMA RefuseType == ASSUME TypeOK, NEW p \in Procs, Refuse(p) PROVE TypeOK'
  BY ThrowType DEF Refuse, TypeOK, loop, counts

\* And counting a mishap.
LEMMA CountsType == ASSUME TypeOK, Fault \/ UNCHANGED counts
                    PROVE  faulty' \in BOOLEAN /\ requests' \in Nat /\ mishaps' \in Nat
  <1>1. faulty' \in BOOLEAN
    BY Zenon DEF TypeOK, Fault, counts
  <1>2. requests' \in Nat /\ mishaps' \in Nat
    BY DEF TypeOK, Fault, Mishap, counts
  <1>3. QED
    BY <1>1, <1>2

\* Every step keeps the types.
LEMMA TypeStep == Core /\ [Next]_vars => TypeOK'
  <1> SUFFICES ASSUME Core, [Next]_vars PROVE TypeOK'
    OBVIOUS
  <1> USE CredentialAssumption DEF Core, TypeOK, Hands, Away, Recovery, PointsOf, Steps,
     Results, Modes, Go, Become, Fence, Holds, Mishap, Fault, Mark, Lock, Ask, Free,
     worker, loop, counts, vars
  <1>1. ASSUME NEW p \in Procs, LoadAtStart(p) PROVE TypeOK'
    BY <1>1, LoadType DEF LoadAtStart
  <1>2. ASSUME NEW p \in Procs, LockTimesOut(p) PROVE TypeOK'
    BY <1>2 DEF LockTimesOut
  <1>3. ASSUME NEW p \in Procs, FoundPending(p) PROVE TypeOK'
    BY <1>3 DEF FoundPending
  <1>4. ASSUME NEW p \in Procs, Plan(p) PROVE TypeOK'
    <2>1. disk.env \in EnvFiles /\ disk.source \in [Services -> Sources]
      BY DEF Disks
    <2>2. \A s \in Services, k \in Keys \cup {NoKey} : Planned(s, k) \in Changes
      BY <2>1, PutType DEF Planned, Changes, Sources
    <2>3. QED
      BY <1>4, <2>2, LoadType DEF Plan
  <1>5. ASSUME NEW p \in Procs, StageBackup(p) PROVE TypeOK'
    <2>1. rec[p].env \in EnvFiles
      BY <1>5, Parts DEF StageBackup, Asked, Fresh
    <2>2. QED
      BY <1>5, <2>1, FilesType, WriteType DEF StageBackup
  <1>6. ASSUME NEW p \in Procs, Prepare(p) PROVE TypeOK'
    <2>1. rec[p] \in Changes
      BY <1>6 DEF Prepare, Write, Asked, Fresh
    <2>2. QED
      BY <1>6, <2>1, FilesType, WriteType DEF Prepare
  <1>7. ASSUME NEW p \in Procs, WriteEnv(p) PROVE TypeOK'
    <2>1. rec[p] \in Changes
      BY <1>7 DEF WriteEnv, Asked, Fresh
    <2>2. rec[p].service \in Services /\ rec[p].target \in EnvFiles /\ disk.env \in EnvFiles
      BY <2>1, Parts DEF Disks
    <2>3. Lines(rec[p].target)[rec[p].service] \in Keys \cup {NoKey}
      BY <2>2 DEF Lines, EnvFiles
    <2>4. Put(disk.env, rec[p].service, Lines(rec[p].target)[rec[p].service]) \in EnvFiles
      BY <2>2, <2>3, PutType
    <2>5. QED
      BY <1>7, <2>4, FilesType, WriteType DEF WriteEnv
  <1>8. ASSUME NEW p \in Procs, MarkSecret(p) PROVE TypeOK'
    <2>1. rec[p] \in Changes
      BY <1>8 DEF MarkSecret, Asked, Fresh
    <2>2. [rec[p] EXCEPT !.phase = "secret_committed"] \in Changes
      BY <2>1, Parts
    <2>3. QED
      BY <1>8, <2>2, FilesType, WriteType, RefuseType DEF MarkSecret
  <1>9. ASSUME NEW p \in Procs, WriteSource(p) PROVE TypeOK'
    <2>1. CASE at[p] = "select" /\ mode[p] = "change"
      <3>1. rec[p].service \in Services /\ rec[p].targetSource \in Sources
        BY <1>9, <2>1, Parts DEF Asked, Fresh
      <3>2. QED
        BY <1>9, <2>1, <3>1, FilesType, WriteType DEF WriteSource
    <2>2. CASE at[p] = "source"
      <3>1. disk.journal \in Changes
        BY <1>9, <2>2 DEF Stages, Stage, Recorded, Disks
      <3>2. /\ disk.journal.service \in Services
            /\ End(disk.journal, disk.journal.phase = "committed").source \in Sources
        BY <3>1, Parts
      <3>3. QED
        BY <1>9, <2>2, <3>2, FilesType, WriteType DEF WriteSource
    <2>3. QED
      BY <1>9, <2>1, <2>2 DEF WriteSource
  <1>10. ASSUME NEW p \in Procs, WriteSelected(p) PROVE TypeOK'
    <2>1. rec[p] \in Choices
      BY <1>10 DEF WriteSelected, Asked
    <2>2. rec[p].service \in Services /\ rec[p].source \in Sources
      BY <2>1 DEF Choices
    <2>3. [disk EXCEPT !.source[rec[p].service] = rec[p].source] \in Disks
      BY <2>2, FilesType
    <2>4. disk' \in Disks /\ snap' \in [Procs -> Loads]
      BY <1>10, <2>3, LoadType DEF WriteSelected
    <2>5. faulty' \in BOOLEAN /\ requests' \in Nat /\ mishaps' \in Nat
      BY <1>10, CountsType DEF WriteSelected
    <2>6. at' \in [Procs -> {"down", "load", "idle"} \cup Steps \cup Results]
      BY <1>10 DEF WriteSelected
    <2>7. QED
      BY <1>10, <2>4, <2>5, <2>6 DEF WriteSelected
  <1>11. ASSUME NEW p \in Procs, Select(p) PROVE TypeOK'
    BY <1>11 DEF Select, Choices, Sources
  <1>12. ASSUME NEW p \in Procs, Commit(p) PROVE TypeOK'
    <2>1. rec[p] \in Changes
      BY <1>12 DEF Commit, Asked, Fresh
    <2>2. [rec[p] EXCEPT !.phase = "committed"] \in Changes
      BY <2>1, Parts
    <2>3. QED
      BY <1>12, <2>2, FilesType, WriteType, RefuseType DEF Commit
  <1>13. ASSUME NEW p \in Procs, Clear(p) PROVE TypeOK'
    <2>1. NoFile \in EnvFiles
      BY DEF EnvFiles
    <2>2. QED
      BY <1>13, <2>1, FilesType, WriteType DEF Clear
  <1>14. ASSUME NEW p \in Procs, StartRecovery(p) PROVE TypeOK'
    BY <1>14 DEF StartRecovery
  <1>15. ASSUME NEW p \in Procs, Decide(p) PROVE TypeOK'
    <2>1. Decision \in {"rest", "orphan", "source", "restore", "refuse"}
      BY DEF Decision
    <2>2. QED
      BY <1>15, <2>1, RefuseType DEF Decide
  <1>16. ASSUME NEW p \in Procs, ClearOrphan(p) PROVE TypeOK'
    <2>1. NoFile \in EnvFiles
      BY DEF EnvFiles
    <2>2. QED
      BY <1>16, <2>1, FilesType, WriteType DEF ClearOrphan
  <1>17. ASSUME NEW p \in Procs, Restore(p) PROVE TypeOK'
    <2>1. disk.backup \in EnvFiles
      BY DEF Disks
    <2>2. QED
      BY <1>17, <2>1, FilesType, WriteType DEF Restore
  <1>18. ASSUME NEW p \in Procs, Verify(p) PROVE TypeOK'
    BY <1>18, RefuseType DEF Verify
  <1>19. ASSUME NEW p \in Procs, Rest(p) PROVE TypeOK'
    <2>1. CASE Refuse(p)
      BY <2>1, RefuseType
    <2>2. CASE mode[p] = "start"
      <3>1. Go(p, "load") /\ lock' = Nobody /\ edited' = FALSE
            /\ UNCHANGED <<disk, mode, rec, loop, snap, counts>>
        BY <1>19, <2>2 DEF Rest
      <3>2. QED
        BY <3>1
    <2>3. CASE mode[p] = "undo"
      <3>1. Go(p, "failed") /\ UNCHANGED <<disk, lock, mode, rec, loop, snap, edited, counts>>
        BY <1>19, <2>3 DEF Rest
      <3>2. QED
        BY <3>1
    <2>4. CASE mode[p] \notin {"start", "undo"} /\ ~Refuse(p)
      <3>1. /\ Go(p, "saved") /\ snap' = [snap EXCEPT ![p] = Load(disk)]
            /\ UNCHANGED <<disk, lock, mode, rec, loop, edited, counts>>
        BY <1>19, <2>4 DEF Rest
      <3>2. snap' \in [Procs -> Loads]
        BY <3>1, LoadType
      <3>3. QED
        BY <3>1, <3>2
    <2>5. QED
      BY <2>1, <2>2, <2>3, <2>4
  <1>20. ASSUME NEW p \in Procs, Return(p) PROVE TypeOK'
    BY <1>20 DEF Return
  <1>21. ASSUME NEW p \in Procs, Start(p) PROVE TypeOK'
    BY <1>21 DEF Start
  <1>22. ASSUME NEW p \in Procs, SetCredential(p) PROVE TypeOK'
    BY <1>22 DEF SetCredential
  <1>23. ASSUME NEW p \in Procs, SelectSource(p) PROVE TypeOK'
    BY <1>23 DEF SelectSource
  <1>24. ASSUME NEW p \in Procs, Check(p) PROVE TypeOK'
    BY <1>24 DEF Check
  <1>25. ASSUME NEW p \in Procs, Crash(p) PROVE TypeOK'
    <2>1. Nothing \in Loads
      BY DEF Nothing, Loads
    <2>2. QED
      BY <1>25, <2>1 DEF Crash
  <1>26. ASSUME NEW p \in Procs, Cancel(p) PROVE TypeOK'
    BY <1>26 DEF Cancel
  <1>27. ASSUME NEW p \in Procs, Abandon(p) PROVE TypeOK'
    BY <1>27 DEF Abandon
  <1>28. ASSUME NEW p \in Procs, Publish(p) PROVE TypeOK'
    <2>1. snap[p] \in Loads
      OBVIOUS
    <2>2. runtime' \in [Procs -> Loads] /\ fenced' \in [Procs -> BOOLEAN]
      BY <1>28, <2>1 DEF Publish
    <2>3. faulty' \in BOOLEAN /\ requests' \in Nat /\ mishaps' \in Nat
      BY <1>28, CountsType DEF Publish
    <2>4. call' \in [Procs -> {"none", "waiting", "cancelled", "publishing", "leaving"}]
      BY <1>28 DEF Publish
    <2>5. QED
      BY <1>28, <2>2, <2>3, <2>4 DEF Publish
  <1>29. CASE Edit
    <2>1. disk.env \in EnvFiles
      BY DEF Disks
    <2>2. disk' \in Disks
      BY <1>29, <2>1, PutType, FilesType DEF Edit
    <2>3. QED
      BY <1>29, <2>2 DEF Edit
  <1>30. CASE UNCHANGED vars
    BY <1>30
  <1>31. QED
    BY <1>1, <1>2, <1>3, <1>4, <1>5, <1>6, <1>7, <1>8, <1>9, <1>10, <1>11, <1>12, <1>13,
       <1>14, <1>15, <1>16, <1>17, <1>18, <1>19, <1>20, <1>21, <1>22, <1>23, <1>24,
       <1>25, <1>26, <1>27, <1>28, <1>29, <1>30 DEF Next, Worker

\* A record is planned from what .env and config.yaml say.
LEMMA PlanIsFresh == ASSUME TypeOK, NEW s \in Services, NEW k \in Keys \cup {NoKey}
                     PROVE  Fresh(Planned(s, k))
  <1>1. disk.env \in EnvFiles /\ disk.source \in [Services -> Sources]
    BY DEF TypeOK, Disks
  <1>2. Put(disk.env, s, k) \in [Services -> Keys \cup {NoKey}] /\ Lines(disk.env) \in [Services -> Keys \cup {NoKey}]
    BY <1>1, PutType
  <1>3. Lines(Put(disk.env, s, k)) = Put(disk.env, s, k)
    BY <1>2, CredentialAssumption DEF Lines
  <1>4. Put(disk.env, s, k)[s] = k
    BY <1>2 DEF Put
  <1>5. Planned(s, k) \in Changes /\ Planned(s, k).phase = "prepared"
    BY <1>1, <1>2 DEF Planned, Changes, Sources, EnvFiles
  <1>6. QED
    BY <1>3, <1>4, <1>5 DEF Planned, Fresh

\* Every step keeps worker, lock and coroutine together.
LEMMA HandsStep == Core /\ [Next]_vars => Hands'
  <1> SUFFICES ASSUME Core, [Next]_vars PROVE Hands'
    OBVIOUS
  <1> USE CredentialAssumption DEF Core, TypeOK, Hands, Away, Recovery, PointsOf, Steps,
     Results, Modes, Go, Become, Fence, Holds, Mishap, Fault, Write, Throw, Refuse,
     Mark, Lock, Ask, Free, worker, loop, counts, vars
  <1>1. ASSUME NEW p \in Procs, LoadAtStart(p) PROVE Hands'
    BY <1>1 DEF LoadAtStart
  <1>2. ASSUME NEW p \in Procs, LockTimesOut(p) PROVE Hands'
    BY <1>2 DEF LockTimesOut
  <1>3. ASSUME NEW p \in Procs, FoundPending(p) PROVE Hands'
    BY <1>3 DEF FoundPending
  <1>4. ASSUME NEW p \in Procs, Plan(p) PROVE Hands'
    BY <1>4 DEF Plan
  <1>5. ASSUME NEW p \in Procs, StageBackup(p) PROVE Hands'
    BY <1>5 DEF StageBackup
  <1>6. ASSUME NEW p \in Procs, Prepare(p) PROVE Hands'
    BY <1>6 DEF Prepare
  <1>7. ASSUME NEW p \in Procs, WriteEnv(p) PROVE Hands'
    BY <1>7 DEF WriteEnv
  <1>8. ASSUME NEW p \in Procs, MarkSecret(p) PROVE Hands'
    BY <1>8 DEF MarkSecret
  <1>9. ASSUME NEW p \in Procs, WriteSource(p) PROVE Hands'
    BY <1>9 DEF WriteSource
  <1>10. ASSUME NEW p \in Procs, WriteSelected(p) PROVE Hands'
    BY <1>10 DEF WriteSelected
  <1>11. ASSUME NEW p \in Procs, Select(p) PROVE Hands'
    BY <1>11 DEF Select
  <1>12. ASSUME NEW p \in Procs, Commit(p) PROVE Hands'
    <2>1. CASE AtEnd(rec[p], TRUE)
      BY <1>12, <2>1 DEF Commit
    <2>2. CASE ~AtEnd(rec[p], TRUE)
      BY <1>12, <2>2 DEF Commit
    <2>3. QED
      BY <2>1, <2>2
  <1>13. ASSUME NEW p \in Procs, Clear(p) PROVE Hands'
    BY <1>13 DEF Clear
  <1>14. ASSUME NEW p \in Procs, StartRecovery(p) PROVE Hands'
    BY <1>14 DEF StartRecovery
  <1>15. ASSUME NEW p \in Procs, Decide(p) PROVE Hands'
    <2>1. Decision \in {"rest", "orphan", "source", "restore", "refuse"}
      BY DEF Decision
    <2>2. CASE Decision = "refuse"
      BY <1>15, <2>2 DEF Decide
    <2>3. CASE Decision # "refuse"
      BY <1>15, <2>1, <2>3 DEF Decide
    <2>4. QED
      BY <2>2, <2>3
  <1>16. ASSUME NEW p \in Procs, ClearOrphan(p) PROVE Hands'
    BY <1>16 DEF ClearOrphan
  <1>17. ASSUME NEW p \in Procs, Restore(p) PROVE Hands'
    BY <1>17 DEF Restore
  <1>18. ASSUME NEW p \in Procs, Verify(p) PROVE Hands'
    BY <1>18 DEF Verify
  <1>19. ASSUME NEW p \in Procs, Rest(p) PROVE Hands'
    <2>1. CASE mode[p] = "start"
      BY <1>19, <2>1 DEF Rest
    <2>2. CASE mode[p] = "undo"
      BY <1>19, <2>2 DEF Rest
    <2>3. CASE mode[p] = "keep" /\ ~AtEnd(rec[p], TRUE)
      BY <1>19, <2>3 DEF Rest
    <2>4. CASE mode[p] \in {"change", "select"} \/ (mode[p] = "keep" /\ AtEnd(rec[p],
       TRUE))
      <3>1. Holds(p) /\ at[p] = "rest" /\ Go(p, "saved")
            /\ UNCHANGED <<disk, lock, mode, rec, loop, edited, counts>>
        BY <1>19, <2>4 DEF Rest
      <3>2. mode[p] \in {"change", "keep"}
        BY <2>4, <3>1
      <3>3. QED
        BY <3>1, <3>2
    <2>5. QED
      BY <2>1, <2>2, <2>3, <2>4
  <1>20. ASSUME NEW p \in Procs, Return(p) PROVE Hands'
    BY <1>20 DEF Return
  <1>21. ASSUME NEW p \in Procs, Start(p) PROVE Hands'
    BY <1>21 DEF Start
  <1>22. ASSUME NEW p \in Procs, SetCredential(p) PROVE Hands'
    BY <1>22 DEF SetCredential
  <1>23. ASSUME NEW p \in Procs, SelectSource(p) PROVE Hands'
    BY <1>23 DEF SelectSource
  <1>24. ASSUME NEW p \in Procs, Check(p) PROVE Hands'
    BY <1>24 DEF Check
  <1>25. ASSUME NEW p \in Procs, Crash(p) PROVE Hands'
    BY <1>25 DEF Crash
  <1>26. ASSUME NEW p \in Procs, Cancel(p) PROVE Hands'
    BY <1>26 DEF Cancel
  <1>27. ASSUME NEW p \in Procs, Abandon(p) PROVE Hands'
    BY <1>27 DEF Abandon
  <1>28. ASSUME NEW p \in Procs, Publish(p) PROVE Hands'
    BY <1>28 DEF Publish
  <1>29. CASE Edit
    BY <1>29 DEF Edit
  <1>30. CASE UNCHANGED vars
    BY <1>30
  <1>31. QED
    BY <1>1, <1>2, <1>3, <1>4, <1>5, <1>6, <1>7, <1>8, <1>9, <1>10, <1>11, <1>12, <1>13,
       <1>14, <1>15, <1>16, <1>17, <1>18, <1>19, <1>20, <1>21, <1>22, <1>23, <1>24,
       <1>25, <1>26, <1>27, <1>28, <1>29, <1>30 DEF Next, Worker

\* Every step keeps what is served in step with what was committed.
LEMMA SyncedStep == Core /\ Synced /\ [Next]_vars => Synced'
  <1> SUFFICES ASSUME Core /\ Synced, [Next]_vars PROVE Synced'
    OBVIOUS
  <1> USE CredentialAssumption DEF Core, TypeOK, Hands, Synced, Away, Recovery,
     PointsOf, Results, Go, Become, Fence, Holds, Mishap, Fault, Write, Throw, Refuse,
     Mark, Lock, Ask, Free, worker, loop, counts, vars
  <1>1. ASSUME NEW p \in Procs, LoadAtStart(p) PROVE Synced'
    BY <1>1 DEF LoadAtStart
  <1>2. ASSUME NEW p \in Procs, LockTimesOut(p) PROVE Synced'
    BY <1>2 DEF LockTimesOut
  <1>3. ASSUME NEW p \in Procs, FoundPending(p) PROVE Synced'
    BY <1>3 DEF FoundPending
  <1>4. ASSUME NEW p \in Procs, Plan(p) PROVE Synced'
    BY <1>4 DEF Plan
  <1>5. ASSUME NEW p \in Procs, StageBackup(p) PROVE Synced'
    BY <1>5 DEF StageBackup
  <1>6. ASSUME NEW p \in Procs, Prepare(p) PROVE Synced'
    BY <1>6 DEF Prepare
  <1>7. ASSUME NEW p \in Procs, WriteEnv(p) PROVE Synced'
    BY <1>7 DEF WriteEnv
  <1>8. ASSUME NEW p \in Procs, MarkSecret(p) PROVE Synced'
    BY <1>8 DEF MarkSecret
  <1>9. ASSUME NEW p \in Procs, WriteSource(p) PROVE Synced'
    BY <1>9 DEF WriteSource
  <1>10. ASSUME NEW p \in Procs, WriteSelected(p) PROVE Synced'
    BY <1>10 DEF WriteSelected
  <1>11. ASSUME NEW p \in Procs, Select(p) PROVE Synced'
    BY <1>11 DEF Select
  <1>12. ASSUME NEW p \in Procs, Commit(p) PROVE Synced'
    BY <1>12 DEF Commit
  <1>13. ASSUME NEW p \in Procs, Clear(p) PROVE Synced'
    BY <1>13 DEF Clear
  <1>14. ASSUME NEW p \in Procs, StartRecovery(p) PROVE Synced'
    BY <1>14 DEF StartRecovery
  <1>15. ASSUME NEW p \in Procs, Decide(p) PROVE Synced'
    BY <1>15 DEF Decide
  <1>16. ASSUME NEW p \in Procs, ClearOrphan(p) PROVE Synced'
    BY <1>16 DEF ClearOrphan
  <1>17. ASSUME NEW p \in Procs, Restore(p) PROVE Synced'
    BY <1>17 DEF Restore
  <1>18. ASSUME NEW p \in Procs, Verify(p) PROVE Synced'
    BY <1>18 DEF Verify
  <1>19. ASSUME NEW p \in Procs, Rest(p) PROVE Synced'
    BY <1>19 DEF Rest
  <1>20. ASSUME NEW p \in Procs, Return(p) PROVE Synced'
    BY <1>20 DEF Return
  <1>21. ASSUME NEW p \in Procs, Start(p) PROVE Synced'
    BY <1>21 DEF Start
  <1>22. ASSUME NEW p \in Procs, SetCredential(p) PROVE Synced'
    BY <1>22 DEF SetCredential
  <1>23. ASSUME NEW p \in Procs, SelectSource(p) PROVE Synced'
    BY <1>23 DEF SelectSource
  <1>24. ASSUME NEW p \in Procs, Check(p) PROVE Synced'
    BY <1>24 DEF Check
  <1>25. ASSUME NEW p \in Procs, Crash(p) PROVE Synced'
    BY <1>25 DEF Crash
  <1>26. ASSUME NEW p \in Procs, Cancel(p) PROVE Synced'
    BY <1>26 DEF Cancel
  <1>27. ASSUME NEW p \in Procs, Abandon(p) PROVE Synced'
    BY <1>27 DEF Abandon
  <1>28. ASSUME NEW p \in Procs, Publish(p) PROVE Synced'
    BY <1>28 DEF Publish
  <1>29. CASE Edit
    BY <1>29 DEF Edit
  <1>30. CASE UNCHANGED vars
    BY <1>30
  <1>31. QED
    BY <1>1, <1>2, <1>3, <1>4, <1>5, <1>6, <1>7, <1>8, <1>9, <1>10, <1>11, <1>12, <1>13,
       <1>14, <1>15, <1>16, <1>17, <1>18, <1>19, <1>20, <1>21, <1>22, <1>23, <1>24,
       <1>25, <1>26, <1>27, <1>28, <1>29, <1>30 DEF Next, Worker

\* Every step keeps the change a worker was asked for.
LEMMA AskedStep == Core /\ [Next]_vars => Asked'
  <1> SUFFICES ASSUME Core, [Next]_vars PROVE Asked'
    OBVIOUS
  <1> USE CredentialAssumption DEF Core, TypeOK, Hands, Asked, Away, Recovery, PointsOf,
     Steps, Results, Modes, Go, Become, Fence, Holds, Mishap, Fault, Write, Throw,
     Refuse, Mark, Lock, Ask, Free, worker, loop, counts, vars
  <1>1. ASSUME NEW p \in Procs, LoadAtStart(p) PROVE Asked'
    BY <1>1 DEF LoadAtStart
  <1>2. ASSUME NEW p \in Procs, LockTimesOut(p) PROVE Asked'
    BY <1>2 DEF LockTimesOut
  <1>3. ASSUME NEW p \in Procs, FoundPending(p) PROVE Asked'
    BY <1>3 DEF FoundPending
  <1>4. ASSUME NEW p \in Procs, Plan(p) PROVE Asked'
    BY <1>4, PlanIsFresh DEF Plan
  <1>5. ASSUME NEW p \in Procs, StageBackup(p) PROVE Asked'
    BY <1>5 DEF StageBackup
  <1>6. ASSUME NEW p \in Procs, Prepare(p) PROVE Asked'
    BY <1>6 DEF Prepare
  <1>7. ASSUME NEW p \in Procs, WriteEnv(p) PROVE Asked'
    BY <1>7 DEF WriteEnv
  <1>8. ASSUME NEW p \in Procs, MarkSecret(p) PROVE Asked'
    BY <1>8 DEF MarkSecret
  <1>9. ASSUME NEW p \in Procs, WriteSource(p) PROVE Asked'
    BY <1>9 DEF WriteSource
  <1>10. ASSUME NEW p \in Procs, WriteSelected(p) PROVE Asked'
    BY <1>10 DEF WriteSelected
  <1>11. ASSUME NEW p \in Procs, Select(p) PROVE Asked'
    BY <1>11 DEF Select, Choices, Sources
  <1>12. ASSUME NEW p \in Procs, Commit(p) PROVE Asked'
    <2>1. CASE AtEnd(rec[p], TRUE)
      BY <1>12, <2>1 DEF Commit
    <2>2. CASE ~AtEnd(rec[p], TRUE)
      BY <1>12, <2>2 DEF Commit
    <2>3. QED
      BY <2>1, <2>2
  <1>13. ASSUME NEW p \in Procs, Clear(p) PROVE Asked'
    BY <1>13 DEF Clear
  <1>14. ASSUME NEW p \in Procs, StartRecovery(p) PROVE Asked'
    BY <1>14 DEF StartRecovery
  <1>15. ASSUME NEW p \in Procs, Decide(p) PROVE Asked'
    <2>1. Decision \in {"rest", "orphan", "source", "restore", "refuse"}
      BY DEF Decision
    <2>2. CASE Decision = "refuse"
      BY <1>15, <2>2 DEF Decide
    <2>3. CASE Decision # "refuse"
      BY <1>15, <2>1, <2>3 DEF Decide
    <2>4. QED
      BY <2>2, <2>3
  <1>16. ASSUME NEW p \in Procs, ClearOrphan(p) PROVE Asked'
    BY <1>16 DEF ClearOrphan
  <1>17. ASSUME NEW p \in Procs, Restore(p) PROVE Asked'
    BY <1>17 DEF Restore
  <1>18. ASSUME NEW p \in Procs, Verify(p) PROVE Asked'
    BY <1>18 DEF Verify
  <1>19. ASSUME NEW p \in Procs, Rest(p) PROVE Asked'
    <2>1. CASE mode[p] = "start"
      BY <1>19, <2>1 DEF Rest
    <2>2. CASE mode[p] = "undo"
      BY <1>19, <2>2 DEF Rest
    <2>3. CASE mode[p] = "keep" /\ ~AtEnd(rec[p], TRUE)
      BY <1>19, <2>3 DEF Rest
    <2>4. CASE mode[p] \in {"change", "select"} \/ (mode[p] = "keep" /\ AtEnd(rec[p],
       TRUE))
      <3>1. Holds(p) /\ at[p] = "rest" /\ Go(p, "saved")
            /\ UNCHANGED <<disk, lock, mode, rec, loop, edited, counts>>
        BY <1>19, <2>4 DEF Rest
      <3>2. mode[p] \in {"change", "keep"}
        BY <2>4, <3>1
      <3>3. QED
        BY <3>1, <3>2
    <2>5. QED
      BY <2>1, <2>2, <2>3, <2>4
  <1>20. ASSUME NEW p \in Procs, Return(p) PROVE Asked'
    BY <1>20 DEF Return
  <1>21. ASSUME NEW p \in Procs, Start(p) PROVE Asked'
    BY <1>21 DEF Start
  <1>22. ASSUME NEW p \in Procs, SetCredential(p) PROVE Asked'
    BY <1>22 DEF SetCredential
  <1>23. ASSUME NEW p \in Procs, SelectSource(p) PROVE Asked'
    BY <1>23 DEF SelectSource
  <1>24. ASSUME NEW p \in Procs, Check(p) PROVE Asked'
    BY <1>24 DEF Check
  <1>25. ASSUME NEW p \in Procs, Crash(p) PROVE Asked'
    BY <1>25 DEF Crash
  <1>26. ASSUME NEW p \in Procs, Cancel(p) PROVE Asked'
    BY <1>26 DEF Cancel
  <1>27. ASSUME NEW p \in Procs, Abandon(p) PROVE Asked'
    BY <1>27 DEF Abandon
  <1>28. ASSUME NEW p \in Procs, Publish(p) PROVE Asked'
    BY <1>28 DEF Publish
  <1>29. CASE Edit
    BY <1>29 DEF Edit
  <1>30. CASE UNCHANGED vars
    BY <1>30
  <1>31. QED
    BY <1>1, <1>2, <1>3, <1>4, <1>5, <1>6, <1>7, <1>8, <1>9, <1>10, <1>11, <1>12, <1>13,
       <1>14, <1>15, <1>16, <1>17, <1>18, <1>19, <1>20, <1>21, <1>22, <1>23, <1>24,
       <1>25, <1>26, <1>27, <1>28, <1>29, <1>30 DEF Next, Worker
-----------------------------------------------------------------------------

\* While nobody has edited .env during the change: the pending change can be
\* finished or undone, ...
Explicable == Recorded =>
    IF disk.journal.phase = "committed" THEN disk.env = disk.journal.target
    ELSE \/ disk.env = disk.journal.env
         \/ disk.env = disk.journal.target /\ BackupTells

\* ... and the two files and the copy of .env are as the worker left them.
Left(p) ==
    /\ at[p] \in {"stage", "prepare", "write"} => AtEnd(rec[p], FALSE)
    /\ at[p] \in {"prepare", "write", "mark"} => disk.backup = rec[p].env
    /\ at[p] = "mark" => disk.env = rec[p].target
    /\ at[p] \in {"select", "commit"} /\ mode[p] = "change"
       => disk.env = rec[p].target /\ disk.backup = rec[p].env
    /\ at[p] = "commit" => AtEnd(rec[p], TRUE)
    /\ at[p] = "restore" => disk.env = disk.journal.target /\ BackupTells
    /\ at[p] \in {"source", "verify"} =>
          disk.env = End(disk.journal, disk.journal.phase = "committed").env
    /\ at[p] \in {"verify", "unback", "unjournal"} =>
          AtEnd(disk.journal, disk.journal.phase = "committed")
    /\ mode[p] = "undo" /\ ~Recorded => AtEnd(rec[p], FALSE)
    /\ mode[p] = "keep" /\ ~Recorded => AtEnd(rec[p], TRUE)
    /\ mode[p] = "change" /\ at[p] \in {"rest", "saved"} /\ rec[p] # NoRecord
       => AtEnd(rec[p], TRUE)

Explained == ~edited => Explicable /\ \A p \in Procs : lock = p => Left(p)

\* Whoever gives up has found a pending change, or files somebody else changed.
Reasons == \A p \in Procs : at[p] = "stuck" => fenced[p] \/ faulty \/ edited

\* How a step that writes can end.
LEMMA WriteCases ==
    ASSUME TypeOK, NEW p \in Procs, NEW st, NEW new, NEW next, Write(p, st, new, next)
    PROVE  /\ at[p] = st /\ lock = p /\ lock' = p
           /\ UNCHANGED <<rec, edited, fenced, snap>>
           /\ \A q \in Procs \ {p} : at'[q] = at[q]
           /\ \/ disk' = new /\ at'[p] = next /\ mode' = mode
              \/ /\ disk' = disk \/ disk' = new
                 /\ faulty'
                 /\ \/ /\ mode[p] = "change" /\ at'[p] = "decide"
                       /\ mode'[p] = IF \/ st \in {"unback", "unjournal"}
                                        \/ (Recorded' /\ disk'.journal.phase = "committed")
                                     THEN "keep" ELSE "undo"
                    \/ mode[p] = "select" /\ at'[p] = "failed" /\ mode'[p] = "select"
                    \/ /\ mode[p] \in {"start", "undo", "keep"}
                       /\ at'[p] = "stuck" /\ mode'[p] = mode[p]
  BY DEF TypeOK, Modes, Write, Throw, Fault, Go, Become, Holds, loop

\* How a step that refuses what it reads ends.
LEMMA RefuseCases ==
    ASSUME TypeOK, NEW p \in Procs, Refuse(p)
    PROVE  /\ lock' = lock /\ disk' = disk
           /\ UNCHANGED <<rec, edited, fenced, snap>>
           /\ \A q \in Procs \ {p} : at'[q] = at[q]
           /\ \/ /\ mode[p] = "change" /\ at'[p] = "decide"
                 /\ mode'[p] = IF \/ at[p] \in {"unback", "unjournal"}
                                  \/ (Recorded /\ disk.journal.phase = "committed")
                               THEN "keep" ELSE "undo"
              \/ mode[p] = "select" /\ at'[p] = "failed" /\ mode'[p] = "select"
              \/ /\ mode[p] \in {"start", "undo", "keep"}
                 /\ at'[p] = "stuck" /\ mode'[p] = mode[p]
  BY DEF TypeOK, Modes, Refuse, Throw, Go, Become, loop, Recorded

\* What a write leaves of the other files.
LEMMA Fields ==
    ASSUME NEW d \in Disks
    PROVE  /\ \A e : LET n == [d EXCEPT !.env = e]
                    IN n.env = e /\ n.backup = d.backup /\ n.journal = d.journal
                       /\ n.source = d.source
           /\ \A e : LET n == [d EXCEPT !.backup = e]
                    IN n.backup = e /\ n.env = d.env /\ n.journal = d.journal
                       /\ n.source = d.source
           /\ \A e : LET n == [d EXCEPT !.journal = e]
                    IN n.journal = e /\ n.env = d.env /\ n.backup = d.backup
                       /\ n.source = d.source
           /\ \A s \in Services : \A x : LET n == [d EXCEPT !.source[s] = x]
                    IN n.source = [d.source EXCEPT ![s] = x] /\ n.env = d.env
                       /\ n.backup = d.backup /\ n.journal = d.journal
  BY DEF Disks

\* A planned record, ...
LEMMA Planning ==
    ASSUME NEW r, Fresh(r)
    PROVE  /\ r \in Changes /\ r # NoRecord /\ r.phase = "prepared" /\ Same(r, r)
           /\ r.service \in Services
  BY RecordAssumption DEF Fresh, Same, Changes, Marked

\* ... and the same record in another phase.
LEMMA Phases ==
    ASSUME NEW r, Fresh(r), NEW ph \in {"prepared", "secret_committed", "committed"}
    PROVE  /\ Marked(r, ph) \in Changes /\ Marked(r, ph) # NoRecord
           /\ Same(Marked(r, ph), r) /\ Marked(r, ph).phase = ph
           /\ Marked(r, ph).env = r.env /\ Marked(r, ph).target = r.target
           /\ Marked(r, ph).source = r.source
           /\ Marked(r, ph).targetSource = r.targetSource
           /\ Marked(r, ph).service = r.service
  BY RecordAssumption DEF Fresh, Same, Changes, Marked

\* Every step keeps the journal and the copy of .env in step with the worker.
LEMMA StagesStep == Core /\ [Next]_vars => Stages'
  <1> SUFFICES ASSUME Core, [Next]_vars PROVE Stages'
    OBVIOUS
  <1> USE CredentialAssumption, RecordAssumption DEF Core, TypeOK, Disks, Hands, Asked,
     Stages, Stage, Clean, Recorded, Away, Recovery, PointsOf, Steps, Results, Modes,
     Go, Become, Fence, Holds, Mishap, Fault, Lock, Ask, Free, worker, loop, counts,
     vars
  <1>1. ASSUME NEW p \in Procs, LoadAtStart(p) PROVE Stages'
    BY <1>1 DEF LoadAtStart
  <1>2. ASSUME NEW p \in Procs, LockTimesOut(p) PROVE Stages'
    BY <1>2 DEF LockTimesOut
  <1>3. ASSUME NEW p \in Procs, FoundPending(p) PROVE Stages'
    BY <1>3 DEF FoundPending
  <1>4. ASSUME NEW p \in Procs, Plan(p) PROVE Stages'
    BY <1>4 DEF Plan
  <1>5. ASSUME NEW p \in Procs, StageBackup(p) PROVE Stages'
    BY <1>5 DEF StageBackup, Write, Throw, Refuse, Mark, Same
  <1>6. ASSUME NEW p \in Procs, Prepare(p) PROVE Stages'
    <2>1. at[p] = "prepare" /\ lock = p /\ mode[p] = "change" /\ Fresh(rec[p])
      BY <1>6 DEF Prepare, Write
    <2>2. rec[p] # NoRecord /\ rec[p].phase = "prepared" /\ Same(rec[p], rec[p])
      BY <2>1, Phases, Planning
    <2>3. Stage(p)'
      BY <1>6, <2>1, <2>2, WriteCases, Fields DEF Prepare
    <2>4. QED
      BY <2>1, <2>3, <1>6, WriteCases DEF Prepare
  <1>7. ASSUME NEW p \in Procs, WriteEnv(p) PROVE Stages'
    <2>1. at[p] = "write" /\ lock = p /\ mode[p] = "change" /\ Fresh(rec[p])
      BY <1>7 DEF WriteEnv, Write
    <2>2. rec[p] # NoRecord /\ rec[p].phase = "prepared" /\ Same(rec[p], rec[p])
      BY <2>1, Phases, Planning
    <2>3. Stage(p)'
      BY <1>7, <2>1, <2>2, WriteCases, Fields DEF WriteEnv
    <2>4. QED
      BY <2>1, <2>3, <1>7, WriteCases DEF WriteEnv
  <1>8. ASSUME NEW p \in Procs, MarkSecret(p) PROVE Stages'
    <2>1. at[p] = "mark" /\ mode[p] = "change" /\ lock = p /\ Fresh(rec[p])
      BY <1>8 DEF MarkSecret
    <2>2. /\ rec[p] # NoRecord /\ rec[p].phase = "prepared" /\ Same(rec[p], rec[p])
          /\ Marked(rec[p], "secret_committed") # NoRecord
          /\ Marked(rec[p], "secret_committed").phase = "secret_committed"
          /\ Same(Marked(rec[p], "secret_committed"), rec[p])
      BY <2>1, Phases, Planning
    <2>3. CASE Mark(p, "mark", "secret_committed", "select")
      <3>1. Stage(p)' /\ lock' = p
        BY <2>1, <2>2, <2>3, WriteCases, Fields DEF Mark, Marked
      <3>2. QED
        BY <3>1
    <2>4. CASE Refuse(p)
      <3>1. Stage(p)' /\ lock' = p
        BY <2>1, <2>2, <2>4, RefuseCases
      <3>2. QED
        BY <3>1
    <2>5. QED
      BY <2>3, <2>4, <1>8 DEF MarkSecret
  <1>9. ASSUME NEW p \in Procs, WriteSource(p) PROVE Stages'
    <2>1. CASE at[p] = "select" /\ mode[p] = "change"
      <3>1. lock = p /\ Fresh(rec[p])
        BY <2>1
      <3>2. /\ Marked(rec[p], "secret_committed").phase = "secret_committed"
            /\ Same(Marked(rec[p], "secret_committed"), rec[p])
            /\ rec[p].service \in Services
        BY <3>1, Phases, Planning
      <3>3. Stage(p)' /\ lock' = p
        BY <1>9, <2>1, <3>1, <3>2, WriteCases, Fields DEF WriteSource
      <3>4. QED
        BY <3>3
    <2>2. CASE at[p] = "source"
      <3>1. disk.journal \in Changes /\ disk.journal.service \in Services
        BY <2>2, Parts DEF Disks
      <3>2. Stage(p)' /\ lock' = p
        BY <1>9, <2>2, <3>1, WriteCases, Fields DEF WriteSource
      <3>3. QED
        BY <3>2
    <2>3. QED
      BY <1>9, <2>1, <2>2 DEF WriteSource
  <1>10. ASSUME NEW p \in Procs, WriteSelected(p) PROVE Stages'
    BY <1>10 DEF WriteSelected
  <1>11. ASSUME NEW p \in Procs, Select(p) PROVE Stages'
    BY <1>11 DEF Select
  <1>12. ASSUME NEW p \in Procs, Commit(p) PROVE Stages'
    <2>1. at[p] = "commit" /\ mode[p] = "change" /\ lock = p /\ Fresh(rec[p])
      BY <1>12 DEF Commit
    <2>2. /\ Marked(rec[p], "secret_committed").phase = "secret_committed"
          /\ Same(Marked(rec[p], "secret_committed"), rec[p])
          /\ Marked(rec[p], "committed") # NoRecord
          /\ Marked(rec[p], "committed").phase = "committed"
          /\ Same(Marked(rec[p], "committed"), rec[p])
      BY <2>1, Phases, Planning
    <2>3. CASE Mark(p, "commit", "committed", "unback")
      <3>1. Stage(p)' /\ lock' = p
        BY <2>1, <2>2, <2>3, WriteCases, Fields DEF Mark, Marked
      <3>2. QED
        BY <3>1
    <2>4. CASE Refuse(p)
      <3>1. Stage(p)' /\ lock' = p
        BY <2>1, <2>2, <2>4, RefuseCases
      <3>2. QED
        BY <3>1
    <2>5. QED
      BY <2>3, <2>4, <1>12 DEF Commit
  <1>13. ASSUME NEW p \in Procs, Clear(p) PROVE Stages'
    <2>1. lock = p /\ mode[p] # "select"
      BY <1>13 DEF Clear, Write
    <2>2. mode[p] = "change" =>
            /\ Fresh(rec[p]) /\ Marked(rec[p], "committed").phase = "committed"
            /\ Same(Marked(rec[p], "committed"), rec[p])
      BY <1>13, Phases DEF Clear, Write
    <2>3. CASE Write(p, "unback", [disk EXCEPT !.backup = NoFile], "unjournal")
      <3>1. at[p] = "unback" /\ lock' = p /\ rec' = rec /\ disk'.journal = disk.journal
        BY <2>3, WriteCases, Fields
      <3>2. CASE at'[p] = "unjournal" /\ mode' = mode /\ disk'.backup = NoFile
        BY <2>1, <2>2, <3>1, <3>2
      <3>3. CASE at'[p] = "decide" /\ mode[p] = "change" /\ mode'[p] = "keep"
        <4>1. /\ Same(disk.journal, rec[p]) /\ disk.journal.phase = "committed"
              /\ at'[p] \notin {"stage", "rest", "saved", "failed", "unback", "unjournal"}
          BY <2>1, <2>2, <3>1, <3>3
        <4>2. Stage(p)'
          BY <2>1, <3>1, <3>3, <4>1
        <4>3. QED
          BY <2>1, <3>1, <4>2
      <3>4. CASE at'[p] = "stuck" /\ mode'[p] = mode[p] /\ mode[p] # "change"
        BY <2>1, <3>1, <3>4
      <3>5. QED
        BY <2>1, <2>3, <3>2, <3>3, <3>4, WriteCases, Fields
    <2>4. CASE Write(p, "unjournal", [disk EXCEPT !.journal = NoRecord], "rest")
      <3>1. at[p] = "unjournal" /\ lock' = p /\ rec' = rec /\ disk'.backup = NoFile
            /\ (disk'.journal = NoRecord \/ disk' = disk)
        BY <2>4, WriteCases, Fields
      <3>2. CASE at'[p] = "rest" /\ mode' = mode /\ disk'.journal = NoRecord
        BY <2>1, <2>2, <3>1, <3>2
      <3>3. CASE at'[p] = "decide" /\ mode[p] = "change" /\ mode'[p] = "keep"
        <4>1. /\ Same(disk.journal, rec[p]) /\ disk.journal.phase = "committed"
              /\ at'[p] \notin {"stage", "rest", "saved", "failed", "unback", "unjournal"}
          BY <2>1, <2>2, <3>1, <3>3
        <4>2. Stage(p)'
          BY <2>1, <3>1, <3>3, <4>1
        <4>3. QED
          BY <2>1, <3>1, <4>2
      <3>4. CASE at'[p] = "stuck" /\ mode'[p] = mode[p] /\ mode[p] # "change"
        BY <2>1, <3>1, <3>4
      <3>5. QED
        BY <2>1, <2>4, <3>2, <3>3, <3>4, WriteCases, Fields
    <2>5. QED
      BY <1>13, <2>3, <2>4 DEF Clear
  <1>14. ASSUME NEW p \in Procs, StartRecovery(p) PROVE Stages'
    BY <1>14 DEF StartRecovery
  <1>15. ASSUME NEW p \in Procs, Decide(p) PROVE Stages'
    <2>1. CASE Refuse(p)
      <3>1. lock = p /\ at[p] = "decide" /\ mode[p] \in {"start", "undo", "keep"}
        BY <1>15 DEF Decide
      <3>2. Stage(p)' /\ lock' = p
        BY <2>1, <3>1, RefuseCases
      <3>3. QED
        BY <3>2
    <2>2. CASE ~Refuse(p)
      <3>1. lock = p /\ at[p] = "decide" /\ mode[p] \in {"start", "undo", "keep"}
        BY <1>15 DEF Decide
      <3>2. Decision \in {"rest", "orphan", "source", "restore"} /\ at'[p] = Decision
            /\ UNCHANGED <<disk, lock, mode, rec>>
        BY <1>15, <2>2 DEF Decide, Decision
      <3>3. /\ Decision = "rest" => Clean
            /\ Decision = "orphan" => ~Recorded
            /\ Decision \in {"source", "restore"} => Recorded
            /\ Decision = "restore" => disk.journal.phase # "committed"
        BY DEF Decision
      <3>4. Stage(p)' /\ lock' = p
        BY <3>1, <3>2, <3>3
      <3>5. QED
        BY <3>4
    <2>3. QED
      BY <2>1, <2>2
  <1>16. ASSUME NEW p \in Procs, ClearOrphan(p) PROVE Stages'
    BY <1>16 DEF ClearOrphan, Write, Throw, Refuse, Mark, Same
  <1>17. ASSUME NEW p \in Procs, Restore(p) PROVE Stages'
    BY <1>17 DEF Restore, Write, Throw, Refuse, Mark, Same
  <1>18. ASSUME NEW p \in Procs, Verify(p) PROVE Stages'
    BY <1>18 DEF Verify, Write, Throw, Refuse, Mark, Same
  <1>19. ASSUME NEW p \in Procs, Rest(p) PROVE Stages'
    <2>1. lock = p /\ at[p] = "rest" /\ mode[p] \in {"start", "change", "undo", "keep"}
      BY <1>19 DEF Rest
    <2>2. CASE mode[p] = "start"
      <3>1. lock' = Nobody
        BY <1>19, <2>2 DEF Rest
      <3>2. QED
        BY <3>1
    <2>3. CASE Refuse(p) /\ mode[p] = "keep"
      <3>1. Stage(p)' /\ lock' = p
        BY <2>1, <2>3, RefuseCases
      <3>2. QED
        BY <3>1
    <2>4. CASE mode[p] = "undo"
      <3>1. at'[p] = "failed" /\ UNCHANGED <<disk, lock, mode, rec>>
        BY <1>19, <2>4 DEF Rest
      <3>2. Stage(p)' /\ lock' = p
        BY <2>1, <2>4, <3>1
      <3>3. QED
        BY <3>2
    <2>5. CASE mode[p] \in {"change", "keep"} /\ ~(Refuse(p) /\ mode[p] = "keep")
      <3>1. at'[p] = "saved" /\ UNCHANGED <<disk, lock, mode, rec>>
        BY <1>19, <2>5 DEF Rest
      <3>2. Stage(p)' /\ lock' = p
        BY <2>1, <2>5, <3>1
      <3>3. QED
        BY <3>2
    <2>6. QED
      BY <2>1, <2>2, <2>3, <2>4, <2>5
  <1>20. ASSUME NEW p \in Procs, Return(p) PROVE Stages'
    BY <1>20 DEF Return
  <1>21. ASSUME NEW p \in Procs, Start(p) PROVE Stages'
    BY <1>21 DEF Start
  <1>22. ASSUME NEW p \in Procs, SetCredential(p) PROVE Stages'
    BY <1>22 DEF SetCredential
  <1>23. ASSUME NEW p \in Procs, SelectSource(p) PROVE Stages'
    BY <1>23 DEF SelectSource
  <1>24. ASSUME NEW p \in Procs, Check(p) PROVE Stages'
    BY <1>24 DEF Check
  <1>25. ASSUME NEW p \in Procs, Crash(p) PROVE Stages'
    BY <1>25 DEF Crash
  <1>26. ASSUME NEW p \in Procs, Cancel(p) PROVE Stages'
    BY <1>26 DEF Cancel
  <1>27. ASSUME NEW p \in Procs, Abandon(p) PROVE Stages'
    BY <1>27 DEF Abandon
  <1>28. ASSUME NEW p \in Procs, Publish(p) PROVE Stages'
    BY <1>28 DEF Publish
  <1>29. CASE Edit
    BY <1>29 DEF Edit
  <1>30. CASE UNCHANGED vars
    BY <1>30
  <1>31. QED
    BY <1>1, <1>2, <1>3, <1>4, <1>5, <1>6, <1>7, <1>8, <1>9, <1>10, <1>11, <1>12, <1>13,
       <1>14, <1>15, <1>16, <1>17, <1>18, <1>19, <1>20, <1>21, <1>22, <1>23, <1>24,
       <1>25, <1>26, <1>27, <1>28, <1>29, <1>30 DEF Next, Worker

\* Two phases of a record describe the same ends.
LEMMA SameEnds ==
    ASSUME NEW j \in Changes, NEW r \in Changes, Same(j, r)
    PROVE  /\ j.service = r.service /\ j.env = r.env /\ j.target = r.target
           /\ j.source = r.source /\ j.targetSource = r.targetSource
  BY DEF Same, Changes

\* A durable write that gives up has failed.
LEMMA WriteReasons ==
    ASSUME TypeOK, Reasons, NEW p \in Procs, NEW st, NEW new, NEW next, next # "stuck",
           Write(p, st, new, next)
    PROVE  Reasons'
  <1>1. faulty => faulty'
    BY DEF Write, Fault, counts
  <1>2. at'[p] = "stuck" => faulty'
    BY WriteCases
  <1>3. UNCHANGED <<edited, fenced>> /\ \A q \in Procs \ {p} : at'[q] = at[q]
    BY WriteCases
  <1>4. QED
    BY <1>1, <1>2, <1>3 DEF Reasons

\* Refusing gives up only on what somebody edited.
LEMMA RefuseReasons ==
    ASSUME TypeOK, Reasons, NEW p \in Procs, Refuse(p), mode[p] = "change" \/ edited
    PROVE  Reasons'
  <1>1. UNCHANGED <<faulty, edited, fenced>> /\ \A q \in Procs \ {p} : at'[q] = at[q]
    BY RefuseCases DEF Refuse, counts
  <1>2. at'[p] = "stuck" => edited
    BY RefuseCases
  <1>3. QED
    BY <1>1, <1>2 DEF Reasons

\* Every step leaves files that its record explains, unless .env is edited.
LEMMA ExplainedStep == Core /\ Explained /\ [Next]_vars => Explained'
  <1> SUFFICES ASSUME Core /\ Explained, [Next]_vars PROVE Explained'
    OBVIOUS
  <1> USE CredentialAssumption, RecordAssumption DEF Core, TypeOK, Disks, Hands, Asked,
     Stages, Stage, Explained, Explicable, Left, AtEnd, End, BackupTells, Clean,
     Recorded, Away, Recovery, PointsOf, Results, Modes, Go, Become, Fence, Holds,
     Mishap, Fault, Lock, Ask, Free, worker, loop, counts, vars
  <1>1. ASSUME NEW p \in Procs, LoadAtStart(p) PROVE Explained'
    BY <1>1 DEF LoadAtStart
  <1>2. ASSUME NEW p \in Procs, LockTimesOut(p) PROVE Explained'
    BY <1>2 DEF LockTimesOut
  <1>3. ASSUME NEW p \in Procs, FoundPending(p) PROVE Explained'
    BY <1>3 DEF FoundPending
  <1>4. ASSUME NEW p \in Procs, Plan(p) PROVE Explained'
    <2>1. lock' = p /\ disk' = disk /\ mode' = mode /\ mode[p] = "change" /\ ~Recorded
          /\ rec[p] = NoRecord
      BY <1>4 DEF Plan
    <2>2. CASE at'[p] = "saved" /\ rec' = rec
      BY <2>1, <2>2
    <2>3. CASE at'[p] = "stage" /\ \E s \in Services, k \in Keys \cup {NoKey} :
                                      rec' = [rec EXCEPT ![p] = Planned(s, k)]
      <3>1. rec'[p].env = disk.env /\ rec'[p].source = disk.source[rec'[p].service]
        BY <2>3 DEF Planned
      <3>2. QED
        BY <2>1, <2>3, <3>1
    <2>4. QED
      BY <1>4, <2>2, <2>3 DEF Plan
  <1>5. ASSUME NEW p \in Procs, StageBackup(p) PROVE Explained'
    <2>1. at[p] = "stage" /\ lock = p /\ mode[p] = "change" /\ ~Recorded
      BY <1>5 DEF StageBackup, Write, Clean
    <2>2. /\ at'[p] = "prepare" => disk'.backup = rec[p].env /\ mode' = mode
          /\ disk'.env = disk.env /\ disk'.source = disk.source /\ disk'.journal = disk.journal
          /\ at'[p] = "prepare" \/ (at'[p] = "decide" /\ mode'[p] = "undo")
      BY <1>5, <2>1, WriteCases, Fields DEF StageBackup
    <2>3. UNCHANGED <<lock, rec, edited>>
      BY <1>5 DEF StageBackup, Write
    <2>4. QED
      BY <2>1, <2>2, <2>3
  <1>6. ASSUME NEW p \in Procs, Prepare(p) PROVE Explained'
    <2>1. at[p] = "prepare" /\ lock = p /\ mode[p] = "change" /\ ~Recorded /\ Fresh(rec[p])
      BY <1>6 DEF Prepare, Write
    <2>2. rec[p].phase = "prepared" /\ rec[p] # NoRecord
      BY <2>1 DEF Fresh
    <2>3. /\ disk'.env = disk.env /\ disk'.source = disk.source /\ disk'.backup = disk.backup
          /\ \/ at'[p] = "write" /\ disk'.journal = rec[p] /\ mode' = mode
             \/ /\ at'[p] = "decide" /\ mode'[p] = "undo"
                /\ disk'.journal \in {rec[p], NoRecord}
      BY <1>6, <2>1, <2>2, WriteCases, Fields DEF Prepare
    <2>4. UNCHANGED <<lock, rec, edited>>
      BY <1>6 DEF Prepare, Write
    <2>5. QED
      BY <2>1, <2>2, <2>3, <2>4
  <1>7. ASSUME NEW p \in Procs, WriteEnv(p) PROVE Explained'
    <2>1. at[p] = "write" /\ lock = p /\ mode[p] = "change" /\ Fresh(rec[p])
          /\ disk.journal = rec[p]
      BY <1>7 DEF WriteEnv, Write
    <2>2. rec[p].phase = "prepared" /\ rec[p] # NoRecord
      BY <2>1 DEF Fresh
    <2>3. UNCHANGED <<lock, rec, edited>>
      BY <1>7 DEF WriteEnv, Write
    <2>4. SUFFICES ASSUME ~edited
                   PROVE  Explicable' /\ Left(p)'
      BY <2>1, <2>3
    <2>5. disk.env = rec[p].env /\ disk.backup = rec[p].env
      BY <2>1, <2>4
    <2>6. Put(disk.env, rec[p].service, Lines(rec[p].target)[rec[p].service]) = rec[p].target
      BY <2>1, <2>5 DEF Fresh
    <2>7. /\ disk'.journal = disk.journal /\ disk'.source = disk.source
          /\ disk'.backup = disk.backup
          /\ \/ at'[p] = "mark" /\ disk'.env = rec[p].target /\ mode' = mode
             \/ /\ at'[p] = "decide" /\ mode'[p] = "undo"
                /\ disk'.env \in {disk.env, rec[p].target}
      BY <1>7, <2>1, <2>2, <2>6, WriteCases, Fields DEF WriteEnv
    <2>8. QED
      BY <2>1, <2>2, <2>3, <2>5, <2>7
  <1>8. ASSUME NEW p \in Procs, MarkSecret(p) PROVE Explained'
    <2>1. at[p] = "mark" /\ lock = p /\ mode[p] = "change" /\ Fresh(rec[p])
          /\ disk.journal = rec[p]
      BY <1>8 DEF MarkSecret
    <2>2. rec[p].phase = "prepared" /\ rec[p] # NoRecord
      BY <2>1, Planning
    <2> DEFINE j == Marked(rec[p], "secret_committed")
    <2>8. /\ j # NoRecord /\ j.phase = "secret_committed" /\ j.env = rec[p].env
          /\ j.target = rec[p].target
      BY <2>1, Phases
    <2> HIDE DEF j
    <2>3. UNCHANGED <<lock, rec, edited>>
      BY <1>8 DEF MarkSecret, Mark, Write, Refuse
    <2>4. SUFFICES ASSUME ~edited
                   PROVE  Explicable' /\ Left(p)'
      BY <2>1, <2>3
    <2>5. disk.env = rec[p].target /\ disk.backup = rec[p].env
      BY <2>1, <2>4
    <2>6. Write(p, "mark", [disk EXCEPT !.journal = j], "select")
      BY <1>8, <2>5 DEF MarkSecret, Mark, Marked, j
    <2>7. /\ disk'.env = disk.env /\ disk'.source = disk.source /\ disk'.backup = disk.backup
          /\ \/ at'[p] = "select" /\ mode' = mode /\ disk'.journal = j
             \/ at'[p] = "decide" /\ mode'[p] = "undo" /\ disk'.journal \in {rec[p], j}
      BY <2>1, <2>2, <2>6, <2>8, WriteCases, Fields
    <2>9. QED
      BY <2>1, <2>2, <2>3, <2>5, <2>7, <2>8
  <1>9. ASSUME NEW p \in Procs, WriteSource(p) PROVE Explained'
    <2>1. CASE at[p] = "select" /\ mode[p] = "change"
      <3>1. lock = p /\ Fresh(rec[p])
            /\ disk.journal = Marked(rec[p], "secret_committed")
        BY <2>1
      <3>2. /\ disk.journal # NoRecord /\ disk.journal.phase = "secret_committed"
            /\ disk.journal.env = rec[p].env /\ disk.journal.target = rec[p].target
            /\ rec[p].service \in Services /\ rec[p].phase = "prepared"
        BY <3>1, Phases, Planning
      <3>3. UNCHANGED <<lock, rec, edited>>
        BY <1>9 DEF WriteSource, Write
      <3>4. Write(p, "select",
                  [disk EXCEPT !.source[rec[p].service] = rec[p].targetSource], "commit")
        BY <1>9, <2>1 DEF WriteSource
      <3>5. /\ disk'.env = disk.env /\ disk'.journal = disk.journal
            /\ disk'.backup = disk.backup
            /\ \/ /\ at'[p] = "commit" /\ mode' = mode
                  /\ disk'.source = [disk.source EXCEPT ![rec[p].service] = rec[p].targetSource]
               \/ at'[p] = "decide" /\ mode'[p] = "undo"
        BY <2>1, <3>1, <3>2, <3>4, WriteCases, Fields
      <3>6. QED
        BY <2>1, <3>1, <3>2, <3>3, <3>5
    <2>2. CASE at[p] = "source"
      <3>1. lock = p /\ disk.journal # NoRecord /\ mode[p] \in {"start", "undo", "keep"}
        BY <1>9, <2>2 DEF WriteSource, Write
      <3>2. disk.journal.service \in Services
        BY <3>1, Parts
      <3>3. UNCHANGED <<lock, rec, edited>>
        BY <1>9 DEF WriteSource, Write
      <3>4. /\ disk'.env = disk.env /\ disk'.journal = disk.journal /\ disk'.backup = disk.backup
            /\ mode'[p] = mode[p]
            /\ \/ /\ at'[p] = "verify"
                  /\ disk'.source[disk.journal.service]
                     = End(disk.journal, disk.journal.phase = "committed").source
               \/ at'[p] = "stuck"
        BY <1>9, <2>2, <3>1, <3>2, WriteCases, Fields DEF WriteSource
      <3>5. QED
        BY <2>2, <3>1, <3>3, <3>4
    <2>3. QED
      BY <1>9, <2>1, <2>2 DEF WriteSource
  <1>10. ASSUME NEW p \in Procs, WriteSelected(p) PROVE Explained'
    <2>1. lock = p /\ mode[p] = "select" /\ rec[p].service \in Services
      BY <1>10 DEF WriteSelected, Choices
    <2>2. /\ disk'.env = disk.env /\ disk'.journal = disk.journal /\ disk'.backup = disk.backup
          /\ at'[p] \in {"saved", "failed"} /\ UNCHANGED <<lock, mode, rec, edited>>
      BY <1>10, <2>1, Fields DEF WriteSelected
    <2>3. QED
      BY <2>1, <2>2
  <1>11. ASSUME NEW p \in Procs, Select(p) PROVE Explained'
    BY <1>11 DEF Select
  <1>12. ASSUME NEW p \in Procs, Commit(p) PROVE Explained'
    <2>1. at[p] = "commit" /\ lock = p /\ mode[p] = "change" /\ Fresh(rec[p])
          /\ disk.journal = Marked(rec[p], "secret_committed")
      BY <1>12 DEF Commit
    <2>2. /\ disk.journal # NoRecord /\ disk.journal.phase = "secret_committed"
          /\ disk.journal.env = rec[p].env /\ disk.journal.target = rec[p].target
      BY <2>1, Phases
    <2> DEFINE j == Marked(rec[p], "committed")
    <2>3. /\ j # NoRecord /\ j.phase = "committed" /\ j.target = rec[p].target
          /\ j.service = rec[p].service /\ j.targetSource = rec[p].targetSource
      BY <2>1, Phases
    <2> HIDE DEF j
    <2>4. UNCHANGED <<lock, rec, edited>>
      BY <1>12 DEF Commit, Mark, Write, Refuse
    <2>5. SUFFICES ASSUME ~edited
                   PROVE  Explicable' /\ Left(p)'
      BY <2>1, <2>4
    <2>6. disk.env = rec[p].target /\ disk.source[rec[p].service] = rec[p].targetSource
          /\ disk.backup = rec[p].env
      BY <2>1, <2>5
    <2>7. Write(p, "commit", [disk EXCEPT !.journal = j], "unback")
      BY <1>12, <2>1, <2>5 DEF Commit, Mark, Marked, j
    <2>8. /\ disk'.env = disk.env /\ disk'.source = disk.source /\ disk'.backup = disk.backup
          /\ \/ at'[p] = "unback" /\ mode' = mode /\ disk'.journal = j
             \/ at'[p] = "decide" /\ mode'[p] = "undo" /\ disk'.journal = disk.journal
             \/ at'[p] = "decide" /\ mode'[p] = "keep" /\ disk'.journal = j
      BY <2>1, <2>2, <2>3, <2>7, WriteCases, Fields
    <2>9. Explicable'
      BY <2>2, <2>3, <2>6, <2>8
    <2>10. Left(p)'
      BY <2>1, <2>2, <2>3, <2>4, <2>6, <2>8
    <2>11. QED
      BY <2>9, <2>10
  <1>13. ASSUME NEW p \in Procs, Clear(p) PROVE Explained'
    <2>1. lock = p /\ mode[p] # "select" /\ at[p] \in {"unback", "unjournal"}
          /\ disk.journal # NoRecord
      BY <1>13 DEF Clear, Write
    <2>2. /\ disk.journal \in Changes
          /\ mode[p] # "start" =>
                /\ Fresh(rec[p]) /\ Same(disk.journal, rec[p])
                /\ disk.journal.phase = "committed" <=> mode[p] # "undo"
      <3>1. CASE mode[p] = "change"
        BY <2>1, <3>1, Phases
      <3>2. CASE mode[p] # "change"
        BY <2>1, <3>2
      <3>3. QED
        BY <3>1, <3>2
    <2>3. mode[p] # "start" =>
            /\ disk.journal.service = rec[p].service
            /\ disk.journal.env = rec[p].env /\ disk.journal.target = rec[p].target
            /\ disk.journal.source = rec[p].source
            /\ disk.journal.targetSource = rec[p].targetSource
      BY <2>2, SameEnds, Planning
    <2>4. UNCHANGED <<lock, rec, edited>>
      BY <1>13 DEF Clear, Write
    <2>5. SUFFICES ASSUME ~edited
                   PROVE  Explicable' /\ Left(p)'
      BY <2>1, <2>4
    <2>6. AtEnd(disk.journal, disk.journal.phase = "committed")
      BY <2>1, <2>5
    <2>7. CASE Write(p, "unback", [disk EXCEPT !.backup = NoFile], "unjournal")
      <3>1. /\ disk'.env = disk.env /\ disk'.source = disk.source /\ disk'.journal = disk.journal
            /\ \/ at'[p] = "unjournal" /\ mode' = mode
               \/ at'[p] = "decide" /\ mode'[p] = "keep" /\ mode[p] = "change"
               \/ at'[p] = "stuck" /\ mode'[p] = mode[p]
        BY <2>1, <2>2, <2>7, WriteCases, Fields
      <3>2. QED
        BY <2>1, <2>2, <2>4, <2>6, <3>1
    <2>8. CASE Write(p, "unjournal", [disk EXCEPT !.journal = NoRecord], "rest")
      <3>1. /\ disk'.env = disk.env /\ disk'.source = disk.source
            /\ disk'.journal = NoRecord \/ disk' = disk
            /\ \/ at'[p] = "rest" /\ mode' = mode /\ disk'.journal = NoRecord
               \/ at'[p] = "decide" /\ mode'[p] = "keep" /\ mode[p] = "change"
               \/ at'[p] = "stuck" /\ mode'[p] = mode[p]
        BY <2>1, <2>2, <2>8, WriteCases, Fields
      <3>2. /\ mode[p] \in {"change", "keep"} => AtEnd(rec[p], TRUE)
            /\ mode[p] = "undo" => AtEnd(rec[p], FALSE)
        BY <2>2, <2>3, <2>6
      <3>3. UNCHANGED rec /\ AtEnd(rec[p], TRUE)' = AtEnd(rec[p], TRUE)
            /\ AtEnd(rec[p], FALSE)' = AtEnd(rec[p], FALSE)
        BY <2>4, <3>1
      <3>4. QED
        BY <2>1, <2>2, <2>4, <2>6, <3>1, <3>2, <3>3
    <2>9. QED
      BY <1>13, <2>7, <2>8 DEF Clear
  <1>14. ASSUME NEW p \in Procs, StartRecovery(p) PROVE Explained'
    BY <1>14 DEF StartRecovery
  <1>15. ASSUME NEW p \in Procs, Decide(p) PROVE Explained'
    <2>1. lock = p /\ at[p] = "decide" /\ mode[p] \in {"start", "undo", "keep"}
      BY <1>15 DEF Decide
    <2>2. CASE Decision = "refuse"
      BY <1>15, <2>1, <2>2, RefuseCases DEF Decide
    <2>3. CASE Decision # "refuse"
      <3>1. Decision \in {"rest", "orphan", "source", "restore"} /\ at'[p] = Decision
            /\ UNCHANGED <<disk, lock, mode, rec, edited>>
        BY <1>15, <2>3 DEF Decide, Decision
      <3>2. /\ Decision = "source" =>
                  disk.env = End(disk.journal, disk.journal.phase = "committed").env
            /\ Decision = "restore" => disk.env = disk.journal.target /\ BackupTells
        BY DEF Decision
      <3>3. QED
        BY <2>1, <3>1, <3>2
    <2>4. QED
      BY <2>2, <2>3
  <1>16. ASSUME NEW p \in Procs, ClearOrphan(p) PROVE Explained'
    <2>1. lock = p /\ at[p] = "orphan" /\ ~Recorded /\ mode[p] \in {"start", "undo", "keep"}
      BY <1>16 DEF ClearOrphan, Write
    <2>2. /\ disk'.env = disk.env /\ disk'.source = disk.source /\ disk'.journal = disk.journal
          /\ at'[p] \in {"rest", "stuck"} /\ mode'[p] = mode[p]
      BY <1>16, <2>1, WriteCases, Fields DEF ClearOrphan
    <2>3. UNCHANGED <<lock, rec, edited>>
      BY <1>16 DEF ClearOrphan, Write
    <2>4. QED
      BY <2>1, <2>2, <2>3
  <1>17. ASSUME NEW p \in Procs, Restore(p) PROVE Explained'
    <2>1. lock = p /\ at[p] = "restore" /\ Recorded /\ disk.journal.phase # "committed"
          /\ mode[p] \in {"start", "undo", "keep"}
      BY <1>17 DEF Restore, Write
    <2>2. /\ disk'.backup = disk.backup /\ disk'.source = disk.source
          /\ disk'.journal = disk.journal /\ mode'[p] = mode[p]
          /\ \/ at'[p] = "source" /\ disk'.env = disk.backup
             \/ at'[p] = "stuck" /\ disk'.env \in {disk.env, disk.backup}
      BY <1>17, <2>1, WriteCases, Fields DEF Restore
    <2>3. UNCHANGED <<lock, rec, edited>>
      BY <1>17 DEF Restore, Write
    <2>4. QED
      BY <2>1, <2>2, <2>3
  <1>18. ASSUME NEW p \in Procs, Verify(p) PROVE Explained'
    <2>1. lock = p /\ at[p] = "verify" /\ Recorded /\ mode[p] \in {"start", "undo", "keep"}
      BY <1>18 DEF Verify
    <2>2. CASE AtEnd(disk.journal, disk.journal.phase = "committed")
      <3>1. at'[p] = "unback" /\ UNCHANGED <<disk, lock, mode, rec, edited>>
        BY <1>18, <2>2 DEF Verify
      <3>2. QED
        BY <2>1, <2>2, <3>1
    <2>3. CASE ~AtEnd(disk.journal, disk.journal.phase = "committed")
      BY <1>18, <2>1, <2>3, RefuseCases DEF Verify
    <2>4. QED
      BY <2>2, <2>3
  <1>19. ASSUME NEW p \in Procs, Rest(p) PROVE Explained'
    <2>1. lock = p /\ at[p] = "rest" /\ mode[p] \in {"start", "change", "undo", "keep"}
          /\ ~Recorded
      BY <1>19 DEF Rest
    <2>2. CASE mode[p] = "start"
      <3>1. lock' = Nobody /\ disk' = disk
        BY <1>19, <2>2 DEF Rest
      <3>2. QED
        BY <2>1, <3>1
    <2>3. CASE Refuse(p) /\ mode[p] = "keep"
      BY <2>1, <2>3, RefuseCases
    <2>4. CASE mode[p] = "undo"
      <3>1. at'[p] = "failed" /\ UNCHANGED <<disk, lock, mode, rec, edited>>
        BY <1>19, <2>4 DEF Rest
      <3>2. QED
        BY <2>1, <2>4, <3>1
    <2>5. CASE mode[p] \in {"change", "keep"} /\ ~(Refuse(p) /\ mode[p] = "keep")
      <3>1. at'[p] = "saved" /\ UNCHANGED <<disk, lock, mode, rec, edited>>
        BY <1>19, <2>5 DEF Rest
      <3>2. QED
        BY <2>1, <2>5, <3>1
    <2>6. QED
      BY <2>1, <2>2, <2>3, <2>4, <2>5
  <1>20. ASSUME NEW p \in Procs, Return(p) PROVE Explained'
    <2>1. lock' = Nobody /\ disk' = disk /\ (edited' <=> edited /\ ~Clean)
      BY <1>20 DEF Return
    <2>2. QED
      BY <2>1
  <1>21. ASSUME NEW p \in Procs, Start(p) PROVE Explained'
    BY <1>21 DEF Start
  <1>22. ASSUME NEW p \in Procs, SetCredential(p) PROVE Explained'
    BY <1>22 DEF SetCredential
  <1>23. ASSUME NEW p \in Procs, SelectSource(p) PROVE Explained'
    BY <1>23 DEF SelectSource
  <1>24. ASSUME NEW p \in Procs, Check(p) PROVE Explained'
    BY <1>24 DEF Check
  <1>25. ASSUME NEW p \in Procs, Crash(p) PROVE Explained'
    <2>1. CASE edited /\ ~edited'
      <3>1. Clean /\ lock' = Nobody /\ disk' = disk
        BY <1>25, <2>1 DEF Crash
      <3>2. QED
        BY <3>1
    <2>2. CASE ~edited
      BY <1>25, <2>2 DEF Crash
    <2>3. QED
      BY <2>1, <2>2
  <1>26. ASSUME NEW p \in Procs, Cancel(p) PROVE Explained'
    BY <1>26 DEF Cancel
  <1>27. ASSUME NEW p \in Procs, Abandon(p) PROVE Explained'
    BY <1>27 DEF Abandon
  <1>28. ASSUME NEW p \in Procs, Publish(p) PROVE Explained'
    BY <1>28 DEF Publish
  <1>29. CASE Edit
    <2>1. (~edited' => lock = Nobody /\ ~Recorded) /\ lock' = lock
      BY <1>29 DEF Edit
    <2>2. disk'.journal = disk.journal
      BY <1>29, Fields DEF Edit
    <2>3. QED
      BY <2>1, <2>2
  <1>30. CASE UNCHANGED vars
    BY <1>30
  <1>31. QED
    BY <1>1, <1>2, <1>3, <1>4, <1>5, <1>6, <1>7, <1>8, <1>9, <1>10, <1>11, <1>12, <1>13,
       <1>14, <1>15, <1>16, <1>17, <1>18, <1>19, <1>20, <1>21, <1>22, <1>23, <1>24,
       <1>25, <1>26, <1>27, <1>28, <1>29, <1>30 DEF Next, Worker

\* Every step that gives up has a reason.
LEMMA ReasonsStep == Core /\ Explained /\ Reasons /\ [Next]_vars => Reasons'
  <1> SUFFICES ASSUME Core /\ Explained /\ Reasons, [Next]_vars PROVE Reasons'
    OBVIOUS
  <1> USE CredentialAssumption, RecordAssumption DEF Core, TypeOK, Hands, Reasons, Away,
     Recovery, PointsOf, Steps, Results, Modes, Go, Become, Fence, Holds, Mishap, Fault,
     Lock, Ask, Free, worker, loop, counts, vars
  <1>1. ASSUME NEW p \in Procs, LoadAtStart(p) PROVE Reasons'
    BY <1>1 DEF LoadAtStart
  <1>2. ASSUME NEW p \in Procs, LockTimesOut(p) PROVE Reasons'
    BY <1>2 DEF LockTimesOut
  <1>3. ASSUME NEW p \in Procs, FoundPending(p) PROVE Reasons'
    BY <1>3 DEF FoundPending
  <1>4. ASSUME NEW p \in Procs, Plan(p) PROVE Reasons'
    BY <1>4 DEF Plan
  <1>5. ASSUME NEW p \in Procs, StageBackup(p) PROVE Reasons'
    BY <1>5, WriteReasons DEF StageBackup
  <1>6. ASSUME NEW p \in Procs, Prepare(p) PROVE Reasons'
    BY <1>6, WriteReasons DEF Prepare
  <1>7. ASSUME NEW p \in Procs, WriteEnv(p) PROVE Reasons'
    BY <1>7, WriteReasons DEF WriteEnv
  <1>8. ASSUME NEW p \in Procs, MarkSecret(p) PROVE Reasons'
    BY <1>8, WriteReasons, RefuseReasons DEF MarkSecret, Mark
  <1>9. ASSUME NEW p \in Procs, WriteSource(p) PROVE Reasons'
    BY <1>9, WriteReasons DEF WriteSource
  <1>10. ASSUME NEW p \in Procs, WriteSelected(p) PROVE Reasons'
    BY <1>10 DEF WriteSelected
  <1>11. ASSUME NEW p \in Procs, Select(p) PROVE Reasons'
    BY <1>11 DEF Select
  <1>12. ASSUME NEW p \in Procs, Commit(p) PROVE Reasons'
    BY <1>12, WriteReasons, RefuseReasons DEF Commit, Mark
  <1>13. ASSUME NEW p \in Procs, Clear(p) PROVE Reasons'
    BY <1>13, WriteReasons DEF Clear
  <1>14. ASSUME NEW p \in Procs, StartRecovery(p) PROVE Reasons'
    BY <1>14 DEF StartRecovery
  <1>15. ASSUME NEW p \in Procs, Decide(p) PROVE Reasons'
    <2>1. lock = p /\ at[p] = "decide"
      BY <1>15 DEF Decide
    <2>2. CASE Decision # "refuse"
      BY <1>15, <2>1, <2>2 DEF Decide, Decision
    <2>3. CASE Decision = "refuse"
      <3>1. edited
        BY <2>1, <2>3 DEF Explained, Explicable, Decision
      <3>2. QED
        BY <1>15, <2>3, <3>1, RefuseReasons DEF Decide
    <2>4. QED
      BY <2>2, <2>3
  <1>16. ASSUME NEW p \in Procs, ClearOrphan(p) PROVE Reasons'
    BY <1>16, WriteReasons DEF ClearOrphan
  <1>17. ASSUME NEW p \in Procs, Restore(p) PROVE Reasons'
    BY <1>17, WriteReasons DEF Restore
  <1>18. ASSUME NEW p \in Procs, Verify(p) PROVE Reasons'
    <2>1. CASE AtEnd(disk.journal, disk.journal.phase = "committed")
      BY <1>18, <2>1 DEF Verify
    <2>2. CASE ~AtEnd(disk.journal, disk.journal.phase = "committed")
      <3>1. edited
        BY <1>18, <2>2 DEF Verify, Explained, Left
      <3>2. QED
        BY <1>18, <2>2, <3>1, RefuseReasons DEF Verify
    <2>3. QED
      BY <2>1, <2>2
  <1>19. ASSUME NEW p \in Procs, Rest(p) PROVE Reasons'
    <2>1. lock = p /\ at[p] = "rest"
      BY <1>19 DEF Rest
    <2>2. CASE mode[p] = "keep" /\ ~AtEnd(rec[p], TRUE)
      <3>1. edited
        BY <2>1, <2>2 DEF Explained, Left, Stages, Stage, Clean
      <3>2. Refuse(p)
        BY <1>19, <2>2 DEF Rest
      <3>3. QED
        BY <3>1, <3>2, RefuseReasons
    <2>3. CASE mode[p] = "start"
      <3>1. lock' = Nobody /\ at' = [at EXCEPT ![p] = "load"] /\ UNCHANGED <<fenced, faulty>>
        BY <1>19, <2>3 DEF Rest
      <3>2. \A q \in Procs : at'[q] # "stuck"
        BY <2>1, <3>1
      <3>3. QED
        BY <3>2
    <2>4. CASE mode[p] = "undo"
      BY <1>19, <2>4 DEF Rest
    <2>5. CASE mode[p] \in {"change", "select"} \/ (mode[p] = "keep" /\ AtEnd(rec[p], TRUE))
      <3>1. Go(p, "saved") /\ UNCHANGED <<fenced, faulty, edited>>
        BY <1>19, <2>5 DEF Rest
      <3>2. QED
        BY <3>1
    <2>6. QED
      BY <2>1, <2>2, <2>3, <2>4, <2>5
  <1>20. ASSUME NEW p \in Procs, Return(p) PROVE Reasons'
    BY <1>20 DEF Return
  <1>21. ASSUME NEW p \in Procs, Start(p) PROVE Reasons'
    BY <1>21 DEF Start
  <1>22. ASSUME NEW p \in Procs, SetCredential(p) PROVE Reasons'
    BY <1>22 DEF SetCredential
  <1>23. ASSUME NEW p \in Procs, SelectSource(p) PROVE Reasons'
    BY <1>23 DEF SelectSource
  <1>24. ASSUME NEW p \in Procs, Check(p) PROVE Reasons'
    BY <1>24 DEF Check
  <1>25. ASSUME NEW p \in Procs, Crash(p) PROVE Reasons'
    BY <1>25 DEF Crash
  <1>26. ASSUME NEW p \in Procs, Cancel(p) PROVE Reasons'
    BY <1>26 DEF Cancel
  <1>27. ASSUME NEW p \in Procs, Abandon(p) PROVE Reasons'
    BY <1>27 DEF Abandon
  <1>28. ASSUME NEW p \in Procs, Publish(p) PROVE Reasons'
    BY <1>28 DEF Publish
  <1>29. CASE Edit
    BY <1>29 DEF Edit
  <1>30. CASE UNCHANGED vars
    BY <1>30
  <1>31. QED
    BY <1>1, <1>2, <1>3, <1>4, <1>5, <1>6, <1>7, <1>8, <1>9, <1>10, <1>11, <1>12, <1>13,
       <1>14, <1>15, <1>16, <1>17, <1>18, <1>19, <1>20, <1>21, <1>22, <1>23, <1>24,
       <1>25, <1>26, <1>27, <1>28, <1>29, <1>30 DEF Next, Worker

\* Writing a field twice, or what it holds.
LEMMA Over ==
    ASSUME NEW f \in [Services -> Sources], NEW s \in Services
    PROVE  /\ [f EXCEPT ![s] = f[s]] = f
           /\ \A x, y : [[f EXCEPT ![s] = x] EXCEPT ![s] = y] = [f EXCEPT ![s] = y]
  OBVIOUS

\* One step of AtomicChange.
KeepsValue ==
    (Value' # Value /\ ~edited /\ ~Edit) => Committing \/ \E p \in Procs : WriteSelected(p)

\* Only committing a record, or selecting a source, changes what the files stand for.
LEMMA ValueStep == Core /\ Explained /\ [Next]_vars => KeepsValue
  <1> SUFFICES ASSUME Core /\ Explained, [Next]_vars, ~edited, ~Edit
               PROVE  KeepsValue
    BY DEF KeepsValue
  <1> USE DEF Core, TypeOK, Disks, Go, Become, Fence, Holds, Mishap, Fault, Lock, Ask,
     Free, worker, loop, counts, vars
  <1> DEFINE Goal == Value' = Value \/ Committing \/ \E p \in Procs : WriteSelected(p)
  <1>1. ASSUME NEW p \in Procs, LoadAtStart(p) PROVE Goal
    BY <1>1 DEF LoadAtStart, Value
  <1>2. ASSUME NEW p \in Procs, LockTimesOut(p) PROVE Goal
    BY <1>2 DEF LockTimesOut, Value
  <1>3. ASSUME NEW p \in Procs, FoundPending(p) PROVE Goal
    BY <1>3 DEF FoundPending, Value
  <1>4. ASSUME NEW p \in Procs, Plan(p) PROVE Goal
    BY <1>4 DEF Plan, Value
  <1>5. ASSUME NEW p \in Procs, StageBackup(p) PROVE Goal
    <2>1. disk'.env = disk.env /\ disk'.source = disk.source /\ disk'.journal = disk.journal
      BY <1>5, WriteCases, Fields DEF StageBackup
    <2>2. QED
      BY <2>1 DEF Value
  <1>6. ASSUME NEW p \in Procs, Prepare(p) PROVE Goal
    <2>1. at[p] = "prepare" /\ lock = p /\ mode[p] = "change"
          /\ disk.journal = NoRecord /\ Fresh(rec[p])
      BY <1>6 DEF Prepare, Write, Hands, Away, Stages, Stage, Asked, Recorded, PointsOf,
         Recovery
    <2>2. disk.env = rec[p].env /\ disk.source[rec[p].service] = rec[p].source
      BY <2>1 DEF Explained, Left, AtEnd, End
    <2>3. [disk.source EXCEPT ![rec[p].service] = rec[p].source] = disk.source
      BY <2>1, <2>2, Planning, Over
    <2>4. disk' = disk \/ (disk'.env = disk.env /\ disk'.source = disk.source
                            /\ disk'.journal = rec[p])
      BY <1>6, WriteCases, Fields DEF Prepare
    <2>5. rec[p] # NoRecord /\ rec[p].phase # "committed"
      BY <2>1, Planning
    <2>6. QED
      BY <2>1, <2>2, <2>3, <2>4, <2>5 DEF Value, End
  <1>7. ASSUME NEW p \in Procs, WriteEnv(p) PROVE Goal
    <2>1. disk.journal # NoRecord
      BY <1>7, Planning DEF WriteEnv, Write, Hands, Away, Stages, Stage, Asked,
         PointsOf, Recovery
    <2>2. disk'.source = disk.source /\ disk'.journal = disk.journal
      BY <1>7, WriteCases, Fields DEF WriteEnv
    <2>3. QED
      BY <2>1, <2>2 DEF Value
  <1>8. ASSUME NEW p \in Procs, MarkSecret(p) PROVE Goal
    <2>1. Fresh(rec[p]) /\ disk.journal = rec[p]
      BY <1>8 DEF MarkSecret, Hands, Away, Stages, Stage, Asked, PointsOf, Recovery
    <2>2. rec[p] # NoRecord /\ rec[p].phase = "prepared"
      BY <2>1, Planning
    <2> DEFINE j == Marked(rec[p], "secret_committed")
    <2>3. /\ j # NoRecord /\ j.phase # "committed" /\ j.env = rec[p].env
          /\ j.source = rec[p].source /\ j.service = rec[p].service
      BY <2>1, Phases
    <2>4. disk' = disk \/ (disk'.env = disk.env /\ disk'.source = disk.source
                            /\ disk'.journal = j)
      BY <1>8, WriteCases, RefuseCases, Fields DEF MarkSecret, Mark, Marked
    <2> HIDE DEF j
    <2>5. QED
      BY <2>1, <2>2, <2>3, <2>4 DEF Value, End
  <1>9. ASSUME NEW p \in Procs, WriteSource(p) PROVE Goal
    <2>1. disk.journal \in Changes /\ disk.journal # NoRecord
      BY <1>9, Phases DEF WriteSource, Write, Hands, Away, Stages, Stage, Asked,
         Recorded, Disks,
         PointsOf, Recovery
    <2>2. disk.journal.service \in Services
      BY <2>1, Parts
    <2>3. \E x : disk' = disk \/ disk' = [disk EXCEPT !.source[disk.journal.service] = x]
      <3>1. CASE at[p] = "select" /\ mode[p] = "change"
        <4>1. disk.journal.service = rec[p].service
          BY <1>9, <3>1, Phases DEF Hands, Away, Stages, Stage, Asked
        <4>2. Write(p, "select",
                    [disk EXCEPT !.source[rec[p].service] = rec[p].targetSource], "commit")
          BY <1>9, <3>1 DEF WriteSource
        <4>3. QED
          BY <4>1, <4>2, WriteCases
      <3>2. CASE at[p] = "source"
        BY <1>9, <3>2, WriteCases DEF WriteSource
      <3>3. QED
        BY <1>9, <3>1, <3>2 DEF WriteSource
    <2>4. PICK x : disk' = disk \/ disk' = [disk EXCEPT !.source[disk.journal.service] = x]
      BY <2>3
    <2>5. CASE disk' = [disk EXCEPT !.source[disk.journal.service] = x]
      <3>1. /\ disk'.journal = disk.journal
            /\ disk'.source = [disk.source EXCEPT ![disk.journal.service] = x]
        BY <2>2, <2>5, Fields
      <3>2. \A y : [disk'.source EXCEPT ![disk.journal.service] = y]
                   = [disk.source EXCEPT ![disk.journal.service] = y]
        BY <2>2, <3>1, Over
      <3>3. QED
        BY <2>1, <3>1, <3>2 DEF Value
    <2>6. CASE disk' = disk
      BY <2>6 DEF Value
    <2>7. QED
      BY <2>4, <2>5, <2>6
  <1>10. ASSUME NEW p \in Procs, WriteSelected(p) PROVE Goal
    BY <1>10
  <1>11. ASSUME NEW p \in Procs, Select(p) PROVE Goal
    BY <1>11 DEF Select, Value
  <1>12. ASSUME NEW p \in Procs, Commit(p) PROVE Goal
    <2>1. Fresh(rec[p]) /\ disk.journal = Marked(rec[p], "secret_committed")
      BY <1>12 DEF Commit, Hands, Away, Stages, Stage, Asked, PointsOf, Recovery
    <2>2. disk.journal # NoRecord /\ disk.journal.phase # "committed"
      BY <2>1, Phases
    <2>3. /\ Marked(rec[p], "committed") # NoRecord
          /\ Marked(rec[p], "committed").phase = "committed"
      BY <2>1, Phases
    <2>4. disk' = disk \/ disk'.journal = Marked(rec[p], "committed")
      <3>1. CASE Refuse(p)
        BY <3>1, RefuseCases
      <3>2. CASE Write(p, "commit", [disk EXCEPT !.journal = Marked(rec[p], "committed")],
                       "unback")
        BY <3>2, WriteCases
      <3>3. QED
        BY <1>12, <3>1, <3>2 DEF Commit, Mark, Marked
    <2>5. QED
      BY <2>2, <2>3, <2>4 DEF Value, Committing, Recorded
  <1>13. ASSUME NEW p \in Procs, Clear(p) PROVE Goal
    <2>1. CASE Write(p, "unback", [disk EXCEPT !.backup = NoFile], "unjournal")
      <3>1. disk'.env = disk.env /\ disk'.source = disk.source /\ disk'.journal = disk.journal
        BY <2>1, WriteCases, Fields
      <3>2. QED
        BY <3>1 DEF Value
    <2>2. CASE Write(p, "unjournal", [disk EXCEPT !.journal = NoRecord], "rest")
      <3>1. /\ disk.journal \in Changes /\ disk.journal # NoRecord
            /\ AtEnd(disk.journal, disk.journal.phase = "committed")
        BY <2>2 DEF Write, Hands, Away, Stages, Stage, Recorded, Disks, Explained, Left
      <3>2. disk.journal.service \in Services
        BY <3>1, Parts
      <3>3. disk.env = End(disk.journal, disk.journal.phase = "committed").env
            /\ [disk.source EXCEPT ![disk.journal.service] =
                    End(disk.journal, disk.journal.phase = "committed").source] = disk.source
        BY <3>1, <3>2, Over DEF AtEnd
      <3>4. disk' = disk \/ (disk'.env = disk.env /\ disk'.source = disk.source
                              /\ disk'.journal = NoRecord)
        BY <2>2, WriteCases, Fields
      <3>5. QED
        BY <3>1, <3>3, <3>4 DEF Value
    <2>3. QED
      BY <1>13, <2>1, <2>2 DEF Clear
  <1>14. ASSUME NEW p \in Procs, StartRecovery(p) PROVE Goal
    BY <1>14 DEF StartRecovery, Value
  <1>15. ASSUME NEW p \in Procs, Decide(p) PROVE Goal
    BY <1>15 DEF Decide, Refuse, Value
  <1>16. ASSUME NEW p \in Procs, ClearOrphan(p) PROVE Goal
    <2>1. disk'.env = disk.env /\ disk'.source = disk.source /\ disk'.journal = disk.journal
      BY <1>16, WriteCases, Fields DEF ClearOrphan
    <2>2. QED
      BY <2>1 DEF Value
  <1>17. ASSUME NEW p \in Procs, Restore(p) PROVE Goal
    <2>1. disk.journal # NoRecord
      BY <1>17 DEF Restore, Write, Hands, Away, Stages, Stage, Recorded
    <2>2. disk'.source = disk.source /\ disk'.journal = disk.journal
      BY <1>17, WriteCases, Fields DEF Restore
    <2>3. QED
      BY <2>1, <2>2 DEF Value
  <1>18. ASSUME NEW p \in Procs, Verify(p) PROVE Goal
    BY <1>18 DEF Verify, Refuse, Value
  <1>19. ASSUME NEW p \in Procs, Rest(p) PROVE Goal
    <2>1. disk' = disk
      BY <1>19 DEF Rest, Refuse
    <2>2. QED
      BY <2>1 DEF Value
  <1>20. ASSUME NEW p \in Procs, Return(p) PROVE Goal
    BY <1>20 DEF Return, Value
  <1>21. ASSUME NEW p \in Procs, Start(p) PROVE Goal
    BY <1>21 DEF Start, Value
  <1>22. ASSUME NEW p \in Procs, SetCredential(p) PROVE Goal
    BY <1>22 DEF SetCredential, Value
  <1>23. ASSUME NEW p \in Procs, SelectSource(p) PROVE Goal
    BY <1>23 DEF SelectSource, Value
  <1>24. ASSUME NEW p \in Procs, Check(p) PROVE Goal
    BY <1>24 DEF Check, Value
  <1>25. ASSUME NEW p \in Procs, Crash(p) PROVE Goal
    BY <1>25 DEF Crash, Value
  <1>26. ASSUME NEW p \in Procs, Cancel(p) PROVE Goal
    BY <1>26 DEF Cancel, Value
  <1>27. ASSUME NEW p \in Procs, Abandon(p) PROVE Goal
    BY <1>27 DEF Abandon, Value
  <1>28. ASSUME NEW p \in Procs, Publish(p) PROVE Goal
    BY <1>28 DEF Publish, Value
  <1>29. ASSUME Edit PROVE Goal
    BY <1>29
  <1>30. ASSUME UNCHANGED vars PROVE Goal
    BY <1>30 DEF Value
  <1>31. QED
    BY <1>1, <1>2, <1>3, <1>4, <1>5, <1>6, <1>7, <1>8, <1>9, <1>10, <1>11, <1>12, <1>13,
       <1>14, <1>15, <1>16, <1>17, <1>18, <1>19, <1>20, <1>21, <1>22, <1>23, <1>24,
       <1>25, <1>26, <1>27, <1>28, <1>29, <1>30 DEF Next, Worker, KeepsValue

\* The files are at rest at first.
LEMMA InitInv == Init => Core /\ Synced /\ Explained /\ Reasons
  <1> SUFFICES ASSUME Init PROVE Core /\ Synced /\ Explained /\ Reasons
    OBVIOUS
  <1> USE CredentialAssumption DEF Init
  <1>1. Nothing \in Loads
    BY DEF Nothing, Loads
  <1>2. disk \in Disks
    BY DEF Disks, EnvFiles, Sources
  <1>3. TypeOK
    BY <1>1, <1>2 DEF TypeOK, Modes, Steps, Results
  <1>4. Hands /\ Asked /\ Stages
    BY DEF Hands, Asked, Stages, Away, PointsOf, Recovery
  <1>5. Synced /\ Reasons
    BY DEF Synced, Reasons
  <1>6. Explained
    BY DEF Explained, Explicable, Recorded
  <1>7. QED
    BY <1>3, <1>4, <1>5, <1>6 DEF Core

\* The invariants the four properties rest on, for any number of processes,
\* services, keys, requests and mishaps.
THEOREM Invariant == Spec => [](Core /\ Synced /\ Explained /\ Reasons)
  <1>1. Core /\ [Next]_vars => Core'
    BY TypeStep, HandsStep, AskedStep, StagesStep DEF Core
  <1>2. QED
    BY <1>1, InitInv, SyncedStep, ExplainedStep, ReasonsStep, PTL DEF Spec

\* Every reachable state is well typed.
THEOREM TypeCorrect == Spec => []TypeOK
  BY Invariant, PTL DEF Core

\* A process serves what its last change committed, or is fenced.
THEOREM Served == Spec => []AppliedOrFenced
  <1>1. Core /\ Synced => AppliedOrFenced
    BY DEF Core, Hands, Synced, AppliedOrFenced
  <1>2. QED
    BY <1>1, Invariant, PTL

\* A caller is told what the files say.
THEOREM Truth == Spec => []ToldTruth
  <1>1. ASSUME Core, Explained, ~edited, NEW p \in Procs,
               mode[p] \in {"change", "undo", "keep"}, at[p] \in {"saved", "failed"}
        PROVE  Clean /\ (rec[p] # NoRecord => AtEnd(rec[p], at[p] = "saved"))
    <2>1. lock = p /\ (mode[p] = "undo" <=> at[p] = "failed")
      BY <1>1 DEF Core, Hands, Away, PointsOf, Recovery
    <2>2. Clean
      BY <1>1, <2>1 DEF Core, Stages, Stage
    <2>3. Left(p) /\ ~Recorded
      BY <1>1, <2>1, <2>2 DEF Explained, Clean
    <2>4. CASE at[p] = "saved"
      <3>1. rec[p] # NoRecord => AtEnd(rec[p], TRUE)
        BY <1>1, <2>1, <2>3, <2>4 DEF Left
      <3>2. QED
        BY <2>2, <2>4, <3>1
    <2>5. CASE at[p] = "failed"
      <3>1. AtEnd(rec[p], FALSE)
        BY <2>1, <2>3, <2>5 DEF Left
      <3>2. QED
        BY <2>2, <2>5, <3>1
    <2>6. QED
      BY <1>1, <2>4, <2>5
  <1>2. Core /\ Explained => ToldTruth
    BY <1>1 DEF ToldTruth
  <1>3. QED
    BY <1>2, Invariant, PTL

\* Recovery gives up only on files somebody else changed, or a failing disk.
THEOREM Refusals == Spec => []RefusalHasReason
  <1>1. Reasons => RefusalHasReason
    BY DEF Reasons, RefusalHasReason
  <1>2. QED
    BY <1>1, Invariant, PTL

\* What the files stand for changes at the commit of a record only.
THEOREM Atomic == Spec => AtomicChange
  <1>1. Core /\ Explained /\ [Next]_vars => KeepsValue
    BY ValueStep
  <1>2. KeepsValue => [(Value' # Value /\ ~edited /\ ~Edit)
                          => Committing \/ \E p \in Procs : WriteSelected(p)]_vars
    BY DEF KeepsValue
  <1>3. QED
    BY <1>1, <1>2, Invariant, PTL DEF Spec, AtomicChange
=============================================================================
