------------------------ MODULE ChangeJournal_proofs ------------------------
(* Proofs about the change journal, for any paths, contents and ChangeSets  *)
(* and any number of operations, user edits, crashes and failed writes.     *)
EXTENDS ChangeJournal, TLAPS

\* Effects and their rollback have their evidence.
Evidence ==
    /\ step = "intend" => applied = {}
    /\ step \in {"effect", "record"} => prepared \subseteq pending
    /\ step = "rollback" => \A q \in prepared : q.path \in applied => q \in pending

\* A path neither written nor replaced by the user still holds what the
\* intent says it held.
StillBound ==
    step \in {"intend", "effect"} =>
        \A q \in prepared : q.path \notin applied \cup touched => disk[q.path] = q.from

IInv == TypeOK /\ Evidence /\ StillBound

\* What WriteAhead says of one step.
WriteAheadStep ==
    \A p \in Paths :
        disk'[p] # disk[p] /\ edits' = edits =>
            \E q \in pending : q.path = p /\ {disk[p], disk'[p]} = {q.from, q.to}

USE JournalAssumption DEF Holds, SetLifecycle, NewChangeSet, IsRecorded, Seal, DeleteEmpty

LEMMA InitIInv == Init => IInv
  BY DEF Init, IInv, TypeOK, Intents, Jobs, Steps, Evidence, StillBound

\* The merged record stays a record.
LEMMA RecordTyped ==
    ASSUME TypeOK, NEW q \in Intents, Record(q)
    PROVE  /\ before' \in [ChangeSets -> [Paths -> Contents]]
           /\ after' \in [ChangeSets -> [Paths -> Contents]]
           /\ recorded' \in [ChangeSets -> SUBSET Paths]
           /\ saved' \subseteq Intents
<1>1. q.owner \in ChangeSets /\ q.path \in Paths /\ q.from \in Contents /\ q.to \in Contents
  BY DEF Intents
<1>2. before' \in [ChangeSets -> [Paths -> Contents]]
  BY <1>1 DEF TypeOK, Record
<1>3. after' \in [ChangeSets -> [Paths -> Contents]]
  BY <1>1 DEF TypeOK, Record
<1>4. recorded' \in [ChangeSets -> SUBSET Paths]
  BY <1>1 DEF TypeOK, Record
<1>5. saved' \subseteq Intents
  BY DEF TypeOK, Record
<1> QED
  BY <1>2, <1>3, <1>4, <1>5

LEMMA TypeStep ==
    ASSUME TypeOK, [Next]_vars
    PROVE  TypeOK'
<1>1. ASSUME NEW q \in prepared, SaveIntent(q)
       PROVE  TypeOK'
  BY <1>1 DEF TypeOK, Intents, Jobs, Steps, SaveIntent, At, GoTo, files, rows, records, process, working, budgets
<1>2. ASSUME NEW q \in prepared, SaveIntentFails(q)
       PROVE  TypeOK'
  BY <1>2 DEF TypeOK, Intents, Jobs, Steps, SaveIntentFails, At, GoTo, Stop, Fault, files, rows, records, process, working, budgets
<1>3. ASSUME NEW q \in prepared, Effect(q)
       PROVE  TypeOK'
  BY <1>3 DEF TypeOK, Intents, Jobs, Steps, Effect, At, Unwritten, Write, Put, PathsOf, files, rows, records, process, working, budgets
<1>4. ASSUME NEW q \in prepared, EffectRefused(q)
       PROVE  TypeOK'
  BY <1>4 DEF TypeOK, Intents, Jobs, Steps, EffectRefused, At, Unwritten, GoTo, files, rows, records, process, working, budgets
<1>5. ASSUME NEW q \in prepared, EffectFails(q)
       PROVE  TypeOK'
  BY <1>5 DEF TypeOK, Intents, Jobs, Steps, EffectFails, At, Unwritten, Put, GoTo, Stop, Fault, files, rows, records, process, working, budgets
<1>6. ASSUME NEW q \in prepared, Withdraw(q)
       PROVE  TypeOK'
  BY <1>6 DEF TypeOK, Intents, Jobs, Steps, Withdraw, At, Stop, Fault, files, rows, records, process, working, budgets
<1>7. ASSUME NEW q \in prepared, RecordEdit(q)
       PROVE  TypeOK'
  <2>1. q \in Intents
    BY DEF TypeOK
  <2>2. Record(q) \/ UNCHANGED records
    BY <1>7 DEF RecordEdit
  <2>3. /\ before' \in [ChangeSets -> [Paths -> Contents]]
        /\ after' \in [ChangeSets -> [Paths -> Contents]]
        /\ recorded' \in [ChangeSets -> SUBSET Paths]
        /\ saved' \subseteq Intents
    BY <2>1, <2>2, RecordTyped DEF TypeOK, records
  <2> QED
    BY <1>7, <2>1, <2>3
    DEF TypeOK, Jobs, Steps, RecordEdit, At, GoTo, Stop, files, process, working, budgets
<1>8. ASSUME NEW q \in prepared, RecordEditFails(q)
       PROVE  TypeOK'
  <2>1. q \in Intents
    BY DEF TypeOK
  <2>2. Record(q) \/ UNCHANGED records
    BY <1>8 DEF RecordEditFails
  <2>3. /\ before' \in [ChangeSets -> [Paths -> Contents]]
        /\ after' \in [ChangeSets -> [Paths -> Contents]]
        /\ recorded' \in [ChangeSets -> SUBSET Paths]
        /\ saved' \subseteq Intents
    BY <2>1, <2>2, RecordTyped DEF TypeOK, records
  <2> QED
    BY <1>8, <2>1, <2>3
    DEF TypeOK, Jobs, Steps, RecordEditFails, At, Stop, Fault, files, process, working, budgets
<1>9. ASSUME NEW q \in prepared, RollBack(q)
       PROVE  TypeOK'
  BY <1>9 DEF TypeOK, Intents, Jobs, Steps, RollBack, At, Put, Abandon, Stop, files, rows, records, process, working, budgets
<1>10. ASSUME NEW q \in prepared, RollBackFails(q)
       PROVE  TypeOK'
  BY <1>10 DEF TypeOK, Intents, Jobs, Steps, RollBackFails, At, Put, Abandon, Stop, Fault, files, rows, records, process, working, budgets
<1>11. ASSUME NEW q \in prepared, ClearIntent(q)
       PROVE  TypeOK'
  BY <1>11 DEF TypeOK, Intents, Jobs, Steps, ClearIntent, At, files, rows, records, process, working, budgets
<1>12. ASSUME CommitRestore
       PROVE  TypeOK'
  BY <1>12 DEF TypeOK, Intents, Jobs, Steps, CommitRestore, At, Committed, GoTo, files, rows, records, process, working, budgets
<1>13. ASSUME CommitRestoreFails
       PROVE  TypeOK'
  BY <1>13 DEF TypeOK, Intents, Jobs, Steps, CommitRestoreFails, At, Committed, GoTo, Stop, Fault, files, rows, records, process, working, budgets
<1>14. ASSUME RolledBack
       PROVE  TypeOK'
  BY <1>14 DEF TypeOK, Intents, Jobs, Steps, RolledBack, At, GoTo, Abandon, Stop, files, rows, records, process, working, budgets
<1>15. ASSUME Cleared
       PROVE  TypeOK'
  BY <1>15 DEF TypeOK, Intents, Jobs, Steps, Cleared, At, Stop, files, rows, records, process, working, budgets
<1>16. ASSUME ClearFails
       PROVE  TypeOK'
  BY <1>16 DEF TypeOK, Intents, Jobs, Steps, ClearFails, At, Abandon, Stop, Fault, files, rows, records, process, working, budgets
<1>17. ASSUME NEW q \in pending, ReconcileEdit(q)
       PROVE  TypeOK'
  <2>1. q \in Intents
    BY DEF TypeOK
  <2>2. Record(q) \/ UNCHANGED records
    BY <1>17 DEF ReconcileEdit
  <2>3. /\ before' \in [ChangeSets -> [Paths -> Contents]]
        /\ after' \in [ChangeSets -> [Paths -> Contents]]
        /\ recorded' \in [ChangeSets -> SUBSET Paths]
        /\ saved' \subseteq Intents
    BY <2>1, <2>2, RecordTyped DEF TypeOK, records
  <2>4. /\ subject' \in ChangeSets \cup {Nobody} /\ step' \in Steps
        /\ pending' \subseteq Intents
    BY <1>17, <2>1 DEF TypeOK, ReconcileEdit, Steps, Intents
  <2> QED
    BY <1>17, <2>1, <2>3, <2>4
    DEF TypeOK, ReconcileEdit, files, process, working, budgets
<1>18. ASSUME NEW q \in pending, EditConflicts(q)
       PROVE  TypeOK'
  BY <1>18 DEF TypeOK, Intents, Jobs, Steps, EditConflicts, EditIntents, Settles, Abandon, Stop, files, rows, records, process, working, budgets
<1>19. ASSUME NEW c \in ChangeSets, Settle(c)
       PROVE  TypeOK'
  BY <1>19 DEF TypeOK, Intents, Jobs, Steps, Settle, Of, EditIntents, Stop, files, rows, records, process, working, budgets
<1>20. ASSUME NEW c \in ChangeSets, SettleFails(c)
       PROVE  TypeOK'
  BY <1>20 DEF TypeOK, Intents, Jobs, Steps, SettleFails, Of, Abandon, Stop, Fault, files, rows, records, process, working, budgets
<1>21. ASSUME NEW c \in ChangeSets, SealOrphan(c)
       PROVE  TypeOK'
  BY <1>21 DEF TypeOK, Intents, Jobs, Steps, SealOrphan, files, rows, records, process, working, budgets
<1>22. ASSUME NEW c \in ChangeSets, NEW kind \in {"undo", "redo"}, ReconcileOperation(c, kind)
       PROVE  TypeOK'
  BY <1>22 DEF TypeOK, Intents, Jobs, Steps, ReconcileOperation, Reconciling, Group, files, rows, records, process, working, budgets
<1>23. ASSUME NEW c \in ChangeSets, NEW kind \in {"undo", "redo"}, OperationConflicts(c, kind)
       PROVE  TypeOK'
  BY <1>23 DEF TypeOK, Intents, Jobs, Steps, OperationConflicts, Reconciling, Abandon, Stop, files, rows, records, process, working, budgets
<1>24. ASSUME Activate
       PROVE  TypeOK'
  BY <1>24 DEF TypeOK, Intents, Jobs, Steps, Activate, files, rows, records, process, working, budgets
<1>25. ASSUME NEW c \in ChangeSets, OpenChangeSet(c)
       PROVE  TypeOK'
  BY <1>25 DEF TypeOK, Intents, Jobs, Steps, OpenChangeSet, Idle, files, rows, records, process, working, budgets
<1>26. ASSUME NEW c \in ChangeSets, RecordExecute(c)
       PROVE  TypeOK'
  BY <1>26 DEF TypeOK, Intents, Jobs, Steps, RecordExecute, Idle, files, rows, records, process, working, budgets
<1>27. ASSUME NEW c \in ChangeSets, NEW p \in Paths, NEW content \in Contents, BeginEdit(c, p, content)
       PROVE  TypeOK'
  BY <1>27 DEF TypeOK, Intents, Jobs, Steps, BeginEdit, Idle, Begin, files, rows, records, process, working, budgets
<1>28. ASSUME NEW c \in ChangeSets, NEW kind \in {"undo", "redo"}, BeginRestore(c, kind)
       PROVE  TypeOK'
  BY <1>28 DEF TypeOK, Intents, Jobs, Steps, BeginRestore, Idle, Begin, Restores, files, rows, records, process, working, budgets
<1>29. ASSUME NEW c \in ChangeSets, NEW what \in {"seal", "discard"}, BeginSeal(c, what)
       PROVE  TypeOK'
  BY <1>29 DEF TypeOK, Intents, Jobs, Steps, BeginSeal, Idle, Begin, Of, files, rows, records, process, working, budgets
<1>30. ASSUME NEW p \in Paths, NEW content \in Contents, External(p, content)
       PROVE  TypeOK'
  BY <1>30 DEF TypeOK, Intents, Jobs, Steps, External, Put, PathsOf, files, rows, records, process, working, budgets
<1>31. ASSUME Crash
       PROVE  TypeOK'
  BY <1>31 DEF TypeOK, Intents, Jobs, Steps, Crash, Stop, files, rows, records, process, working, budgets
<1>32. ASSUME Restart
       PROVE  TypeOK'
  BY <1>32 DEF TypeOK, Intents, Jobs, Steps, Restart, files, rows, records, process, working, budgets
<1>33. ASSUME UNCHANGED vars
       PROVE  TypeOK'
  BY <1>33 DEF TypeOK, Intents, Jobs, Steps, vars, files, rows, records, process, working, budgets
<1> QED
  BY <1>1, <1>2, <1>3, <1>4, <1>5, <1>6, <1>7, <1>8, <1>9, <1>10, <1>11, <1>12, <1>13, <1>14, <1>15, <1>16, <1>17, <1>18, <1>19, <1>20, <1>21, <1>22, <1>23, <1>24, <1>25, <1>26, <1>27, <1>28, <1>29, <1>30, <1>31, <1>32, <1>33 DEF Next, JobStep

LEMMA EvidenceStep ==
    ASSUME TypeOK, Evidence, [Next]_vars
    PROVE  Evidence'
<1>1. ASSUME NEW q \in prepared, SaveIntent(q)
       PROVE  Evidence'
  BY <1>1 DEF Evidence, SaveIntent, At, GoTo, files, rows, records, process, working, budgets
<1>2. ASSUME NEW q \in prepared, SaveIntentFails(q)
       PROVE  Evidence'
  BY <1>2 DEF Evidence, SaveIntentFails, At, GoTo, Stop, Fault, files, rows, records, process, working, budgets
<1>3. ASSUME NEW q \in prepared, Effect(q)
       PROVE  Evidence'
  BY <1>3 DEF Evidence, Effect, At, Unwritten, Write, Put, PathsOf, files, rows, records, process, working, budgets
<1>4. ASSUME NEW q \in prepared, EffectRefused(q)
       PROVE  Evidence'
  BY <1>4 DEF Evidence, EffectRefused, At, Unwritten, GoTo, files, rows, records, process, working, budgets
<1>5. ASSUME NEW q \in prepared, EffectFails(q)
       PROVE  Evidence'
  BY <1>5 DEF Evidence, EffectFails, At, Unwritten, Put, GoTo, Stop, Fault, files, rows, records, process, working, budgets
<1>6. ASSUME NEW q \in prepared, Withdraw(q)
       PROVE  Evidence'
  BY <1>6 DEF Evidence, Withdraw, At, Stop, Fault, files, rows, records, process, working, budgets
<1>7. ASSUME NEW q \in prepared, RecordEdit(q)
       PROVE  Evidence'
  BY <1>7 DEF Evidence, RecordEdit, At, Record, GoTo, Stop, files, rows, records, process, working, budgets
<1>8. ASSUME NEW q \in prepared, RecordEditFails(q)
       PROVE  Evidence'
  BY <1>8 DEF Evidence, RecordEditFails, At, Record, Stop, Fault, files, rows, records, process, working, budgets
<1>9. ASSUME NEW q \in prepared, RollBack(q)
       PROVE  Evidence'
  BY <1>9 DEF Evidence, RollBack, At, Put, Abandon, Stop, files, rows, records, process, working, budgets
<1>10. ASSUME NEW q \in prepared, RollBackFails(q)
       PROVE  Evidence'
  BY <1>10 DEF Evidence, RollBackFails, At, Put, Abandon, Stop, Fault, files, rows, records, process, working, budgets
<1>11. ASSUME NEW q \in prepared, ClearIntent(q)
       PROVE  Evidence'
  BY <1>11 DEF Evidence, ClearIntent, At, files, rows, records, process, working, budgets
<1>12. ASSUME CommitRestore
       PROVE  Evidence'
  BY <1>12 DEF Evidence, CommitRestore, At, Committed, GoTo, files, rows, records, process, working, budgets
<1>13. ASSUME CommitRestoreFails
       PROVE  Evidence'
  BY <1>13 DEF Evidence, CommitRestoreFails, At, Committed, GoTo, Stop, Fault, files, rows, records, process, working, budgets
<1>14. ASSUME RolledBack
       PROVE  Evidence'
  BY <1>14 DEF Evidence, RolledBack, At, GoTo, Abandon, Stop, files, rows, records, process, working, budgets
<1>15. ASSUME Cleared
       PROVE  Evidence'
  BY <1>15 DEF Evidence, Cleared, At, Stop, files, rows, records, process, working, budgets
<1>16. ASSUME ClearFails
       PROVE  Evidence'
  BY <1>16 DEF Evidence, ClearFails, At, Abandon, Stop, Fault, files, rows, records, process, working, budgets
<1>17. ASSUME NEW q \in pending, ReconcileEdit(q)
       PROVE  Evidence'
  BY <1>17 DEF Evidence, ReconcileEdit, EditIntents, Settles, Resolvable, Record, files, rows, records, process, working, budgets
<1>18. ASSUME NEW q \in pending, EditConflicts(q)
       PROVE  Evidence'
  BY <1>18 DEF Evidence, EditConflicts, EditIntents, Settles, Abandon, Stop, files, rows, records, process, working, budgets
<1>19. ASSUME NEW c \in ChangeSets, Settle(c)
       PROVE  Evidence'
  BY <1>19 DEF Evidence, Settle, Of, EditIntents, Stop, files, rows, records, process, working, budgets
<1>20. ASSUME NEW c \in ChangeSets, SettleFails(c)
       PROVE  Evidence'
  BY <1>20 DEF Evidence, SettleFails, Of, Abandon, Stop, Fault, files, rows, records, process, working, budgets
<1>21. ASSUME NEW c \in ChangeSets, SealOrphan(c)
       PROVE  Evidence'
  BY <1>21 DEF Evidence, SealOrphan, files, rows, records, process, working, budgets
<1>22. ASSUME NEW c \in ChangeSets, NEW kind \in {"undo", "redo"}, ReconcileOperation(c, kind)
       PROVE  Evidence'
  BY <1>22 DEF Evidence, ReconcileOperation, Reconciling, Group, files, rows, records, process, working, budgets
<1>23. ASSUME NEW c \in ChangeSets, NEW kind \in {"undo", "redo"}, OperationConflicts(c, kind)
       PROVE  Evidence'
  BY <1>23 DEF Evidence, OperationConflicts, Reconciling, Abandon, Stop, files, rows, records, process, working, budgets
<1>24. ASSUME Activate
       PROVE  Evidence'
  BY <1>24 DEF Evidence, Activate, files, rows, records, process, working, budgets
<1>25. ASSUME NEW c \in ChangeSets, OpenChangeSet(c)
       PROVE  Evidence'
  BY <1>25 DEF Evidence, OpenChangeSet, Idle, files, rows, records, process, working, budgets
<1>26. ASSUME NEW c \in ChangeSets, RecordExecute(c)
       PROVE  Evidence'
  BY <1>26 DEF Evidence, RecordExecute, Idle, files, rows, records, process, working, budgets
<1>27. ASSUME NEW c \in ChangeSets, NEW p \in Paths, NEW content \in Contents, BeginEdit(c, p, content)
       PROVE  Evidence'
  BY <1>27 DEF Evidence, BeginEdit, Idle, Begin, files, rows, records, process, working, budgets
<1>28. ASSUME NEW c \in ChangeSets, NEW kind \in {"undo", "redo"}, BeginRestore(c, kind)
       PROVE  Evidence'
  BY <1>28 DEF Evidence, BeginRestore, Idle, Begin, Restores, files, rows, records, process, working, budgets
<1>29. ASSUME NEW c \in ChangeSets, NEW what \in {"seal", "discard"}, BeginSeal(c, what)
       PROVE  Evidence'
  BY <1>29 DEF Evidence, BeginSeal, Idle, Begin, Of, files, rows, records, process, working, budgets
<1>30. ASSUME NEW p \in Paths, NEW content \in Contents, External(p, content)
       PROVE  Evidence'
  BY <1>30 DEF Evidence, External, Put, PathsOf, files, rows, records, process, working, budgets
<1>31. ASSUME Crash
       PROVE  Evidence'
  BY <1>31 DEF Evidence, Crash, Stop, files, rows, records, process, working, budgets
<1>32. ASSUME Restart
       PROVE  Evidence'
  BY <1>32 DEF Evidence, Restart, files, rows, records, process, working, budgets
<1>33. ASSUME UNCHANGED vars
       PROVE  Evidence'
  BY <1>33 DEF Evidence, vars, files, rows, records, process, working, budgets
<1> QED
  BY <1>1, <1>2, <1>3, <1>4, <1>5, <1>6, <1>7, <1>8, <1>9, <1>10, <1>11, <1>12, <1>13, <1>14, <1>15, <1>16, <1>17, <1>18, <1>19, <1>20, <1>21, <1>22, <1>23, <1>24, <1>25, <1>26, <1>27, <1>28, <1>29, <1>30, <1>31, <1>32, <1>33 DEF Next, JobStep

LEMMA BoundStep ==
    ASSUME TypeOK, Evidence, StillBound, [Next]_vars
    PROVE  StillBound'
<1>1. ASSUME NEW q \in prepared, SaveIntent(q)
       PROVE  StillBound'
  BY <1>1 DEF StillBound, Evidence, TypeOK, Intents, SaveIntent, At, GoTo, files, rows, records, process, working, budgets
<1>2. ASSUME NEW q \in prepared, SaveIntentFails(q)
       PROVE  StillBound'
  BY <1>2 DEF StillBound, Evidence, TypeOK, Intents, SaveIntentFails, At, GoTo, Stop, Fault, files, rows, records, process, working, budgets
<1>3. ASSUME NEW q \in prepared, Effect(q)
       PROVE  StillBound'
  BY <1>3 DEF StillBound, Evidence, TypeOK, Intents, Effect, At, Unwritten, Write, Put, PathsOf, files, rows, records, process, working, budgets
<1>4. ASSUME NEW q \in prepared, EffectRefused(q)
       PROVE  StillBound'
  BY <1>4 DEF StillBound, Evidence, TypeOK, Intents, EffectRefused, At, Unwritten, GoTo, files, rows, records, process, working, budgets
<1>5. ASSUME NEW q \in prepared, EffectFails(q)
       PROVE  StillBound'
  BY <1>5 DEF StillBound, Evidence, TypeOK, Intents, EffectFails, At, Unwritten, Put, GoTo, Stop, Fault, files, rows, records, process, working, budgets
<1>6. ASSUME NEW q \in prepared, Withdraw(q)
       PROVE  StillBound'
  BY <1>6 DEF StillBound, Evidence, TypeOK, Intents, Withdraw, At, Stop, Fault, files, rows, records, process, working, budgets
<1>7. ASSUME NEW q \in prepared, RecordEdit(q)
       PROVE  StillBound'
  BY <1>7 DEF StillBound, Evidence, TypeOK, Intents, RecordEdit, At, Record, GoTo, Stop, files, rows, records, process, working, budgets
<1>8. ASSUME NEW q \in prepared, RecordEditFails(q)
       PROVE  StillBound'
  BY <1>8 DEF StillBound, Evidence, TypeOK, Intents, RecordEditFails, At, Record, Stop, Fault, files, rows, records, process, working, budgets
<1>9. ASSUME NEW q \in prepared, RollBack(q)
       PROVE  StillBound'
  BY <1>9 DEF StillBound, Evidence, TypeOK, Intents, RollBack, At, Put, Abandon, Stop, files, rows, records, process, working, budgets
<1>10. ASSUME NEW q \in prepared, RollBackFails(q)
       PROVE  StillBound'
  BY <1>10 DEF StillBound, Evidence, TypeOK, Intents, RollBackFails, At, Put, Abandon, Stop, Fault, files, rows, records, process, working, budgets
<1>11. ASSUME NEW q \in prepared, ClearIntent(q)
       PROVE  StillBound'
  BY <1>11 DEF StillBound, Evidence, TypeOK, Intents, ClearIntent, At, files, rows, records, process, working, budgets
<1>12. ASSUME CommitRestore
       PROVE  StillBound'
  BY <1>12 DEF StillBound, Evidence, TypeOK, Intents, CommitRestore, At, Committed, GoTo, files, rows, records, process, working, budgets
<1>13. ASSUME CommitRestoreFails
       PROVE  StillBound'
  BY <1>13 DEF StillBound, Evidence, TypeOK, Intents, CommitRestoreFails, At, Committed, GoTo, Stop, Fault, files, rows, records, process, working, budgets
<1>14. ASSUME RolledBack
       PROVE  StillBound'
  BY <1>14 DEF StillBound, Evidence, TypeOK, Intents, RolledBack, At, GoTo, Abandon, Stop, files, rows, records, process, working, budgets
<1>15. ASSUME Cleared
       PROVE  StillBound'
  BY <1>15 DEF StillBound, Evidence, TypeOK, Intents, Cleared, At, Stop, files, rows, records, process, working, budgets
<1>16. ASSUME ClearFails
       PROVE  StillBound'
  BY <1>16 DEF StillBound, Evidence, TypeOK, Intents, ClearFails, At, Abandon, Stop, Fault, files, rows, records, process, working, budgets
<1>17. ASSUME NEW q \in pending, ReconcileEdit(q)
       PROVE  StillBound'
  BY <1>17 DEF StillBound, Evidence, TypeOK, Intents, ReconcileEdit, EditIntents, Settles, Resolvable, Record, files, rows, records, process, working, budgets
<1>18. ASSUME NEW q \in pending, EditConflicts(q)
       PROVE  StillBound'
  BY <1>18 DEF StillBound, Evidence, TypeOK, Intents, EditConflicts, EditIntents, Settles, Abandon, Stop, files, rows, records, process, working, budgets
<1>19. ASSUME NEW c \in ChangeSets, Settle(c)
       PROVE  StillBound'
  BY <1>19 DEF StillBound, Evidence, TypeOK, Intents, Settle, Of, EditIntents, Stop, files, rows, records, process, working, budgets
<1>20. ASSUME NEW c \in ChangeSets, SettleFails(c)
       PROVE  StillBound'
  BY <1>20 DEF StillBound, Evidence, TypeOK, Intents, SettleFails, Of, Abandon, Stop, Fault, files, rows, records, process, working, budgets
<1>21. ASSUME NEW c \in ChangeSets, SealOrphan(c)
       PROVE  StillBound'
  BY <1>21 DEF StillBound, Evidence, TypeOK, Intents, SealOrphan, files, rows, records, process, working, budgets
<1>22. ASSUME NEW c \in ChangeSets, NEW kind \in {"undo", "redo"}, ReconcileOperation(c, kind)
       PROVE  StillBound'
  BY <1>22 DEF StillBound, Evidence, TypeOK, Intents, ReconcileOperation, Reconciling, Group, files, rows, records, process, working, budgets
<1>23. ASSUME NEW c \in ChangeSets, NEW kind \in {"undo", "redo"}, OperationConflicts(c, kind)
       PROVE  StillBound'
  BY <1>23 DEF StillBound, Evidence, TypeOK, Intents, OperationConflicts, Reconciling, Abandon, Stop, files, rows, records, process, working, budgets
<1>24. ASSUME Activate
       PROVE  StillBound'
  BY <1>24 DEF StillBound, Evidence, TypeOK, Intents, Activate, files, rows, records, process, working, budgets
<1>25. ASSUME NEW c \in ChangeSets, OpenChangeSet(c)
       PROVE  StillBound'
  BY <1>25 DEF StillBound, Evidence, TypeOK, Intents, OpenChangeSet, Idle, files, rows, records, process, working, budgets
<1>26. ASSUME NEW c \in ChangeSets, RecordExecute(c)
       PROVE  StillBound'
  BY <1>26 DEF StillBound, Evidence, TypeOK, Intents, RecordExecute, Idle, files, rows, records, process, working, budgets
<1>27. ASSUME NEW c \in ChangeSets, NEW p \in Paths, NEW content \in Contents, BeginEdit(c, p, content)
       PROVE  StillBound'
  BY <1>27 DEF StillBound, Evidence, TypeOK, Intents, BeginEdit, Idle, Begin, files, rows, records, process, working, budgets
<1>28. ASSUME NEW c \in ChangeSets, NEW kind \in {"undo", "redo"}, BeginRestore(c, kind)
       PROVE  StillBound'
  BY <1>28 DEF StillBound, Evidence, TypeOK, Intents, BeginRestore, Idle, Begin, Restores, files, rows, records, process, working, budgets
<1>29. ASSUME NEW c \in ChangeSets, NEW what \in {"seal", "discard"}, BeginSeal(c, what)
       PROVE  StillBound'
  BY <1>29 DEF StillBound, Evidence, TypeOK, Intents, BeginSeal, Idle, Begin, Of, files, rows, records, process, working, budgets
<1>30. ASSUME NEW p \in Paths, NEW content \in Contents, External(p, content)
       PROVE  StillBound'
  BY <1>30 DEF StillBound, Evidence, TypeOK, Intents, External, Put, PathsOf, files, rows, records, process, working, budgets
<1>31. ASSUME Crash
       PROVE  StillBound'
  BY <1>31 DEF StillBound, Evidence, TypeOK, Intents, Crash, Stop, files, rows, records, process, working, budgets
<1>32. ASSUME Restart
       PROVE  StillBound'
  BY <1>32 DEF StillBound, Evidence, TypeOK, Intents, Restart, files, rows, records, process, working, budgets
<1>33. ASSUME UNCHANGED vars
       PROVE  StillBound'
  BY <1>33 DEF StillBound, Evidence, TypeOK, Intents, vars, files, rows, records, process, working, budgets
<1> QED
  BY <1>1, <1>2, <1>3, <1>4, <1>5, <1>6, <1>7, <1>8, <1>9, <1>10, <1>11, <1>12, <1>13, <1>14, <1>15, <1>16, <1>17, <1>18, <1>19, <1>20, <1>21, <1>22, <1>23, <1>24, <1>25, <1>26, <1>27, <1>28, <1>29, <1>30, <1>31, <1>32, <1>33 DEF Next, JobStep

LEMMA WriteStep ==
    ASSUME IInv, [Next]_vars
    PROVE  WriteAheadStep
<1>1. ASSUME NEW q \in prepared, SaveIntent(q)
       PROVE  WriteAheadStep
  BY <1>1 DEF WriteAheadStep, IInv, StillBound, Evidence, TypeOK, Intents, SaveIntent, At, GoTo, files, rows, records, process, working, budgets
<1>2. ASSUME NEW q \in prepared, SaveIntentFails(q)
       PROVE  WriteAheadStep
  BY <1>2 DEF WriteAheadStep, IInv, StillBound, Evidence, TypeOK, Intents, SaveIntentFails, At, GoTo, Stop, Fault, files, rows, records, process, working, budgets
<1>3. ASSUME NEW q \in prepared, Effect(q)
       PROVE  WriteAheadStep
  BY <1>3 DEF WriteAheadStep, IInv, StillBound, Evidence, TypeOK, Intents, Effect, At, Unwritten, Write, Put, PathsOf, files, rows, records, process, working, budgets
<1>4. ASSUME NEW q \in prepared, EffectRefused(q)
       PROVE  WriteAheadStep
  BY <1>4 DEF WriteAheadStep, IInv, StillBound, Evidence, TypeOK, Intents, EffectRefused, At, Unwritten, GoTo, files, rows, records, process, working, budgets
<1>5. ASSUME NEW q \in prepared, EffectFails(q)
       PROVE  WriteAheadStep
  BY <1>5 DEF WriteAheadStep, IInv, StillBound, Evidence, TypeOK, Intents, EffectFails, At, Unwritten, Put, GoTo, Stop, Fault, files, rows, records, process, working, budgets
<1>6. ASSUME NEW q \in prepared, Withdraw(q)
       PROVE  WriteAheadStep
  BY <1>6 DEF WriteAheadStep, IInv, StillBound, Evidence, TypeOK, Intents, Withdraw, At, Stop, Fault, files, rows, records, process, working, budgets
<1>7. ASSUME NEW q \in prepared, RecordEdit(q)
       PROVE  WriteAheadStep
  BY <1>7 DEF WriteAheadStep, IInv, StillBound, Evidence, TypeOK, Intents, RecordEdit, At, Record, GoTo, Stop, files, rows, records, process, working, budgets
<1>8. ASSUME NEW q \in prepared, RecordEditFails(q)
       PROVE  WriteAheadStep
  BY <1>8 DEF WriteAheadStep, IInv, StillBound, Evidence, TypeOK, Intents, RecordEditFails, At, Record, Stop, Fault, files, rows, records, process, working, budgets
<1>9. ASSUME NEW q \in prepared, RollBack(q)
       PROVE  WriteAheadStep
  BY <1>9 DEF WriteAheadStep, IInv, StillBound, Evidence, TypeOK, Intents, RollBack, At, Put, Abandon, Stop, files, rows, records, process, working, budgets
<1>10. ASSUME NEW q \in prepared, RollBackFails(q)
       PROVE  WriteAheadStep
  <2>1. q \in pending /\ disk[q.path] = q.to
    BY <1>10 DEF IInv, Evidence, RollBackFails, At
  <2>2. \A p \in Paths : disk'[p] # disk[p] => p = q.path /\ disk'[p] = q.from
    BY <1>10 DEF IInv, TypeOK, Intents, RollBackFails, Put, files
  <2> QED
    BY <2>1, <2>2 DEF WriteAheadStep
<1>11. ASSUME NEW q \in prepared, ClearIntent(q)
       PROVE  WriteAheadStep
  BY <1>11 DEF WriteAheadStep, IInv, StillBound, Evidence, TypeOK, Intents, ClearIntent, At, files, rows, records, process, working, budgets
<1>12. ASSUME CommitRestore
       PROVE  WriteAheadStep
  BY <1>12 DEF WriteAheadStep, IInv, StillBound, Evidence, TypeOK, Intents, CommitRestore, At, Committed, GoTo, files, rows, records, process, working, budgets
<1>13. ASSUME CommitRestoreFails
       PROVE  WriteAheadStep
  BY <1>13 DEF WriteAheadStep, IInv, StillBound, Evidence, TypeOK, Intents, CommitRestoreFails, At, Committed, GoTo, Stop, Fault, files, rows, records, process, working, budgets
<1>14. ASSUME RolledBack
       PROVE  WriteAheadStep
  BY <1>14 DEF WriteAheadStep, IInv, StillBound, Evidence, TypeOK, Intents, RolledBack, At, GoTo, Abandon, Stop, files, rows, records, process, working, budgets
<1>15. ASSUME Cleared
       PROVE  WriteAheadStep
  BY <1>15 DEF WriteAheadStep, IInv, StillBound, Evidence, TypeOK, Intents, Cleared, At, Stop, files, rows, records, process, working, budgets
<1>16. ASSUME ClearFails
       PROVE  WriteAheadStep
  BY <1>16 DEF WriteAheadStep, IInv, StillBound, Evidence, TypeOK, Intents, ClearFails, At, Abandon, Stop, Fault, files, rows, records, process, working, budgets
<1>17. ASSUME NEW q \in pending, ReconcileEdit(q)
       PROVE  WriteAheadStep
  BY <1>17 DEF WriteAheadStep, IInv, StillBound, Evidence, TypeOK, Intents, ReconcileEdit, EditIntents, Settles, Resolvable, Record, files, rows, records, process, working, budgets
<1>18. ASSUME NEW q \in pending, EditConflicts(q)
       PROVE  WriteAheadStep
  BY <1>18 DEF WriteAheadStep, IInv, StillBound, Evidence, TypeOK, Intents, EditConflicts, EditIntents, Settles, Abandon, Stop, files, rows, records, process, working, budgets
<1>19. ASSUME NEW c \in ChangeSets, Settle(c)
       PROVE  WriteAheadStep
  BY <1>19 DEF WriteAheadStep, IInv, StillBound, Evidence, TypeOK, Intents, Settle, Of, EditIntents, Stop, files, rows, records, process, working, budgets
<1>20. ASSUME NEW c \in ChangeSets, SettleFails(c)
       PROVE  WriteAheadStep
  BY <1>20 DEF WriteAheadStep, IInv, StillBound, Evidence, TypeOK, Intents, SettleFails, Of, Abandon, Stop, Fault, files, rows, records, process, working, budgets
<1>21. ASSUME NEW c \in ChangeSets, SealOrphan(c)
       PROVE  WriteAheadStep
  BY <1>21 DEF WriteAheadStep, IInv, StillBound, Evidence, TypeOK, Intents, SealOrphan, files, rows, records, process, working, budgets
<1>22. ASSUME NEW c \in ChangeSets, NEW kind \in {"undo", "redo"}, ReconcileOperation(c, kind)
       PROVE  WriteAheadStep
  BY <1>22 DEF WriteAheadStep, IInv, StillBound, Evidence, TypeOK, Intents, ReconcileOperation, Reconciling, Group, files, rows, records, process, working, budgets
<1>23. ASSUME NEW c \in ChangeSets, NEW kind \in {"undo", "redo"}, OperationConflicts(c, kind)
       PROVE  WriteAheadStep
  BY <1>23 DEF WriteAheadStep, IInv, StillBound, Evidence, TypeOK, Intents, OperationConflicts, Reconciling, Abandon, Stop, files, rows, records, process, working, budgets
<1>24. ASSUME Activate
       PROVE  WriteAheadStep
  BY <1>24 DEF WriteAheadStep, IInv, StillBound, Evidence, TypeOK, Intents, Activate, files, rows, records, process, working, budgets
<1>25. ASSUME NEW c \in ChangeSets, OpenChangeSet(c)
       PROVE  WriteAheadStep
  BY <1>25 DEF WriteAheadStep, IInv, StillBound, Evidence, TypeOK, Intents, OpenChangeSet, Idle, files, rows, records, process, working, budgets
<1>26. ASSUME NEW c \in ChangeSets, RecordExecute(c)
       PROVE  WriteAheadStep
  BY <1>26 DEF WriteAheadStep, IInv, StillBound, Evidence, TypeOK, Intents, RecordExecute, Idle, files, rows, records, process, working, budgets
<1>27. ASSUME NEW c \in ChangeSets, NEW p \in Paths, NEW content \in Contents, BeginEdit(c, p, content)
       PROVE  WriteAheadStep
  BY <1>27 DEF WriteAheadStep, IInv, StillBound, Evidence, TypeOK, Intents, BeginEdit, Idle, Begin, files, rows, records, process, working, budgets
<1>28. ASSUME NEW c \in ChangeSets, NEW kind \in {"undo", "redo"}, BeginRestore(c, kind)
       PROVE  WriteAheadStep
  BY <1>28 DEF WriteAheadStep, IInv, StillBound, Evidence, TypeOK, Intents, BeginRestore, Idle, Begin, Restores, files, rows, records, process, working, budgets
<1>29. ASSUME NEW c \in ChangeSets, NEW what \in {"seal", "discard"}, BeginSeal(c, what)
       PROVE  WriteAheadStep
  BY <1>29 DEF WriteAheadStep, IInv, StillBound, Evidence, TypeOK, Intents, BeginSeal, Idle, Begin, Of, files, rows, records, process, working, budgets
<1>30. ASSUME NEW p \in Paths, NEW content \in Contents, External(p, content)
       PROVE  WriteAheadStep
  BY <1>30 DEF WriteAheadStep, IInv, StillBound, Evidence, TypeOK, Intents, External, Put, PathsOf, files, rows, records, process, working, budgets
<1>31. ASSUME Crash
       PROVE  WriteAheadStep
  BY <1>31 DEF WriteAheadStep, IInv, StillBound, Evidence, TypeOK, Intents, Crash, Stop, files, rows, records, process, working, budgets
<1>32. ASSUME Restart
       PROVE  WriteAheadStep
  BY <1>32 DEF WriteAheadStep, IInv, StillBound, Evidence, TypeOK, Intents, Restart, files, rows, records, process, working, budgets
<1>33. ASSUME UNCHANGED vars
       PROVE  WriteAheadStep
  BY <1>33 DEF WriteAheadStep, IInv, StillBound, Evidence, TypeOK, Intents, vars, files, rows, records, process, working, budgets
<1> QED
  BY <1>1, <1>2, <1>3, <1>4, <1>5, <1>6, <1>7, <1>8, <1>9, <1>10, <1>11, <1>12, <1>13, <1>14, <1>15, <1>16, <1>17, <1>18, <1>19, <1>20, <1>21, <1>22, <1>23, <1>24, <1>25, <1>26, <1>27, <1>28, <1>29, <1>30, <1>31, <1>32, <1>33 DEF Next, JobStep

THEOREM Inductive == Spec => []IInv
<1>1. Init => IInv
  BY InitIInv
<1>2. IInv /\ [Next]_vars => IInv'
  BY TypeStep, EvidenceStep, BoundStep DEF IInv
<1> QED
  BY <1>1, <1>2, PTL DEF Spec

\* Every reachable state of the journal is well typed, for any constants.
THEOREM TypeCorrect == Spec => []TypeOK
<1>1. IInv => TypeOK
  BY DEF IInv
<1> QED
  BY <1>1, Inductive, PTL

\* The program never changes a path without a durable row that names what was
\* there and what it writes.
THEOREM EvidenceFirst == Spec => WriteAhead
<1>1. IInv /\ [Next]_vars => WriteAheadStep
  BY WriteStep
<1>2. IInv /\ [Next]_vars => [WriteAheadStep]_vars
  BY <1>1
<1> QED
  BY <1>2, Inductive, PTL DEF Spec, WriteAhead, WriteAheadStep

-----------------------------------------------------------------------------
(* The journal tells the truth.                                             *)

\* What the record of c says about a path.
Truth(c, p) ==
    IF p \notin recorded[c] THEN Absent
    ELSE IF lifecycle[c] = "undone" THEN before[c][p] ELSE after[c][p]

\* Numbers are not used again.
Numbered == \A q \in saved \cup pending \cup prepared : q.id <= ops

\* What the job works on, and in which lifecycle.
Shaped ==
    /\ step \in {"intend", "effect", "record", "withdraw", "rollback", "clear"} =>
          /\ job \in {"edit", "undo", "redo"} /\ subject \in ChangeSets
          /\ \A q \in prepared : q.owner = subject /\ q.kind = job
    /\ step = "idle" => job = "none"
    /\ step = "withdraw" => job = "edit"
    /\ step = "rollback" => job \in {"undo", "redo"}
    /\ step = "settle" =>
          job \in {"none", "seal", "discard"} /\ subject \in ChangeSets /\ lifecycle[subject] = "open"
    /\ job = "edit" => lifecycle[subject] = "open" /\ \A q, r \in prepared : q = r
    /\ job \in {"undo", "redo"} /\ step \in {"intend", "effect", "record", "rollback"} =>
          lifecycle[subject] = Source(job)
    /\ job \in {"undo", "redo"} /\ step \in {"intend", "effect", "record"} =>
          /\ \A p \in recorded[subject] : \E q \in prepared : q.path = p
          /\ \A q, r \in prepared : q.path = r.path => q = r

\* The intents that are or may become evidence.
Live == IF step \in {"intend", "effect", "record", "rollback"} THEN pending \cup prepared ELSE pending

\* An edit belongs to an open ChangeSet: the path is as written, or as recorded
\* before.  An undo or redo leads from one side of the record to the other.
EditMeant(q) ==
    /\ q.from # q.to /\ lifecycle[q.owner] = "open"
    /\ q \in saved => Truth(q.owner, q.path) = q.to
    /\ writer[q.path] = q.owner => disk[q.path] \in {q.to, Truth(q.owner, q.path)}
RestoreMeant(q) ==
    /\ q.path \in recorded[q.owner] /\ lifecycle[q.owner] \in {"applied", "undone"}
    /\ q.kind = "undo" => q.from = after[q.owner][q.path] /\ q.to = before[q.owner][q.path]
    /\ q.kind = "redo" => q.from = before[q.owner][q.path] /\ q.to = after[q.owner][q.path]
Meant ==
    \A q \in Live : IF q.kind = "edit" THEN EditMeant(q) ELSE RestoreMeant(q)

\* A ChangeSet has one edit at a time.
Single == \A q, r \in Live : q.kind = "edit" /\ r.kind = "edit" /\ q.owner = r.owner => q = r

\* What the job wrote and nobody replaced is what it intended.
Wrote ==
    /\ step \in {"effect", "record"} =>
          \A q \in prepared :
              q.path \in applied /\ writer[q.path] = q.owner => disk[q.path] = q.to
    /\ step = "record" => \A q \in prepared : q.path \in applied

\* What was replaced before it was written is the user's.
Replaced ==
    /\ step \in {"intend", "effect"} => \A p \in touched \ applied : writer[p] = Nobody
    /\ step = "withdraw" => \A q \in prepared : writer[q.path] = Nobody

\* Evidence that is being removed is not needed any more.
Finished ==
    step = "clear" =>
        \A q \in prepared :
            /\ writer[q.path] = q.owner => disk[q.path] = Truth(q.owner, q.path)
            /\ job = "edit" => q \in saved

\* A merged record stands for saved changes.
Founded == \A c \in ChangeSets : recorded[c] # {} => HasFiles(c)

\* A path a ChangeSet wrote last is as its record says, or is pending.
Told ==
    \A p \in Paths, c \in ChangeSets :
        writer[p] = c =>
            \/ \E q \in pending : q.owner = c /\ q.path = p
            \/ disk[p] = Truth(c, p)

\* Without a record, what a ChangeSet wrote is a pending edit.
Owned ==
    \A p \in Paths, c \in ChangeSets :
        writer[p] = c /\ ~HasFiles(c) =>
            \E q \in pending : q.kind = "edit" /\ q.owner = c /\ q.path = p /\ disk[p] = q.to

Sound ==
    /\ IInv /\ Numbered /\ Shaped /\ Meant /\ Single /\ Wrote /\ Replaced
    /\ Finished /\ Founded /\ Told /\ Owned /\ DiscardedIsEmpty

LEMMA InitSound == Init => Sound
<1> SUFFICES ASSUME Init PROVE Sound
  OBVIOUS
<1>1. IInv
  BY InitIInv
<1>2. Live = {}
  BY DEF Init, Live
<1>3. Numbered /\ Shaped /\ Meant /\ Single
  BY <1>2 DEF Init, Numbered, Shaped, Meant, Single
<1>4. Wrote /\ Replaced /\ Finished /\ Founded
  BY DEF Init, Wrote, Replaced, Finished, Founded
<1>5. Told /\ Owned /\ DiscardedIsEmpty
  BY DEF Init, Told, Owned, DiscardedIsEmpty
<1> QED
  BY <1>1, <1>3, <1>4, <1>5 DEF Sound

\* An intent and its parts.
LEMMA IntentTyped ==
    ASSUME TypeOK, NEW q \in pending \cup prepared \cup saved
    PROVE  /\ q \in Intents /\ q.owner \in ChangeSets /\ q.path \in Paths
           /\ q.from \in Contents /\ q.to \in Contents
           /\ q.kind \in {"edit", "undo", "redo"}
  BY DEF TypeOK, Intents

\* What merging a change does to the record of its ChangeSet, and that others keep theirs.
LEMMA RecordTells ==
    ASSUME TypeOK, NEW q \in Intents, Record(q), UNCHANGED lifecycle,
           lifecycle[q.owner] # "undone"
    PROVE  /\ Truth(q.owner, q.path)' = q.to
           /\ \A c \in ChangeSets, p \in Paths :
                 c # q.owner \/ p # q.path => Truth(c, p)' = Truth(c, p)
           /\ \A c \in ChangeSets : c # q.owner =>
                 /\ recorded'[c] = recorded[c] /\ before'[c] = before[c]
                 /\ after'[c] = after[c]
           /\ saved' = saved \cup {q}
<1>1. q.owner \in ChangeSets /\ q.path \in Paths /\ q.from \in Contents /\ q.to \in Contents
  BY DEF Intents
<1>2. \A c \in ChangeSets : c # q.owner =>
         /\ recorded'[c] = recorded[c] /\ before'[c] = before[c] /\ after'[c] = after[c]
  BY <1>1 DEF TypeOK, Record
<1>3. \A p \in Paths : p # q.path =>
         /\ p \in recorded'[q.owner] <=> p \in recorded[q.owner]
         /\ before'[q.owner][p] = before[q.owner][p] /\ after'[q.owner][p] = after[q.owner][p]
  BY <1>1 DEF TypeOK, Record
<1>4. after'[q.owner][q.path] = q.to
  BY <1>1 DEF TypeOK, Record
<1>5. q.path \in recorded'[q.owner] \/ q.to = Absent
  BY <1>1 DEF TypeOK, Record
<1>6. Truth(q.owner, q.path)' = q.to
  BY <1>4, <1>5 DEF Truth
<1>7. \A c \in ChangeSets, p \in Paths :
         c # q.owner \/ p # q.path => Truth(c, p)' = Truth(c, p)
  BY <1>2, <1>3 DEF Truth
<1>8. saved' = saved \cup {q}
  BY DEF Record
<1> QED
  BY <1>2, <1>6, <1>7, <1>8

\* A live edit is of an open ChangeSet, a live undo or redo of a sealed one.
LEMMA OwnerStates ==
    ASSUME Meant, NEW q \in Live
    PROVE  /\ q.kind = "edit" => lifecycle[q.owner] = "open"
           /\ q.kind # "edit" => lifecycle[q.owner] \in {"applied", "undone"}
  BY DEF Meant, EditMeant, RestoreMeant

\* Only beginning an operation adds intents.
LEMMA PendingLive == pending \subseteq Live
  BY DEF Live

\* Numbers are given in order.
LEMMA NumberedStep ==
    ASSUME TypeOK, Numbered, [Next]_vars
    PROVE  Numbered'
<1>1. ASSUME NEW q \in prepared, SaveIntent(q)
       PROVE  Numbered'
  BY <1>1
  DEF TypeOK, Numbered, SaveIntent, At, GoTo, files, rows, records, process, working,
      budgets
<1>2. ASSUME NEW q \in prepared, SaveIntentFails(q)
       PROVE  Numbered'
  BY <1>2
  DEF TypeOK, Numbered, SaveIntentFails, At, GoTo, Stop, Fault, files, rows, records,
      process, working, budgets
<1>3. ASSUME NEW q \in prepared, Effect(q)
       PROVE  Numbered'
  BY <1>3
  DEF TypeOK, Numbered, Effect, At, Unwritten, Write, Put, PathsOf, files, rows,
      records, process, working, budgets
<1>4. ASSUME NEW q \in prepared, EffectRefused(q)
       PROVE  Numbered'
  BY <1>4
  DEF TypeOK, Numbered, EffectRefused, At, Unwritten, GoTo, files, rows, records,
      process, working, budgets
<1>5. ASSUME NEW q \in prepared, EffectFails(q)
       PROVE  Numbered'
  BY <1>5
  DEF TypeOK, Numbered, EffectFails, At, Unwritten, Put, GoTo, Stop, Fault, files, rows,
      records, process, working, budgets
<1>6. ASSUME NEW q \in prepared, Withdraw(q)
       PROVE  Numbered'
  BY <1>6
  DEF TypeOK, Numbered, Withdraw, At, Stop, Fault, files, rows, records, process,
      working, budgets
<1>7. ASSUME NEW q \in prepared, RecordEdit(q)
       PROVE  Numbered'
  BY <1>7
  DEF TypeOK, Numbered, RecordEdit, At, Record, GoTo, Stop, files, rows, records,
      process, working, budgets
<1>8. ASSUME NEW q \in prepared, RecordEditFails(q)
       PROVE  Numbered'
  BY <1>8
  DEF TypeOK, Numbered, RecordEditFails, At, Record, Stop, Fault, files, rows, records,
      process, working, budgets
<1>9. ASSUME NEW q \in prepared, RollBack(q)
       PROVE  Numbered'
  BY <1>9
  DEF TypeOK, Numbered, RollBack, At, Put, Abandon, Stop, files, rows, records, process,
      working, budgets
<1>10. ASSUME NEW q \in prepared, RollBackFails(q)
       PROVE  Numbered'
  BY <1>10
  DEF TypeOK, Numbered, RollBackFails, At, Put, Abandon, Stop, Fault, files, rows,
      records, process, working, budgets
<1>11. ASSUME NEW q \in prepared, ClearIntent(q)
       PROVE  Numbered'
  BY <1>11
  DEF TypeOK, Numbered, ClearIntent, At, files, rows, records, process, working, budgets
<1>12. ASSUME CommitRestore
       PROVE  Numbered'
  BY <1>12
  DEF TypeOK, Numbered, CommitRestore, At, Committed, GoTo, files, rows, records,
      process, working, budgets
<1>13. ASSUME CommitRestoreFails
       PROVE  Numbered'
  BY <1>13
  DEF TypeOK, Numbered, CommitRestoreFails, At, Committed, GoTo, Stop, Fault, files,
      rows, records, process, working, budgets
<1>14. ASSUME RolledBack
       PROVE  Numbered'
  BY <1>14
  DEF TypeOK, Numbered, RolledBack, At, GoTo, Abandon, Stop, files, rows, records,
      process, working, budgets
<1>15. ASSUME Cleared
       PROVE  Numbered'
  BY <1>15
  DEF TypeOK, Numbered, Cleared, At, Stop, files, rows, records, process, working,
      budgets
<1>16. ASSUME ClearFails
       PROVE  Numbered'
  BY <1>16
  DEF TypeOK, Numbered, ClearFails, At, Abandon, Stop, Fault, files, rows, records,
      process, working, budgets
<1>17. ASSUME NEW q \in pending, ReconcileEdit(q)
       PROVE  Numbered'
  BY <1>17
  DEF TypeOK, Numbered, ReconcileEdit, EditIntents, Settles, Resolvable, Record, files,
      rows, records, process, working, budgets
<1>18. ASSUME NEW q \in pending, EditConflicts(q)
       PROVE  Numbered'
  BY <1>18
  DEF TypeOK, Numbered, EditConflicts, EditIntents, Settles, Abandon, Stop, files, rows,
      records, process, working, budgets
<1>19. ASSUME NEW c \in ChangeSets, Settle(c)
       PROVE  Numbered'
  BY <1>19
  DEF TypeOK, Numbered, Settle, Of, EditIntents, Stop, files, rows, records, process,
      working, budgets
<1>20. ASSUME NEW c \in ChangeSets, SettleFails(c)
       PROVE  Numbered'
  BY <1>20
  DEF TypeOK, Numbered, SettleFails, Of, Abandon, Stop, Fault, files, rows, records,
      process, working, budgets
<1>21. ASSUME NEW c \in ChangeSets, SealOrphan(c)
       PROVE  Numbered'
  BY <1>21
  DEF TypeOK, Numbered, SealOrphan, files, rows, records, process, working, budgets
<1>22. ASSUME NEW c \in ChangeSets, NEW kind \in {"undo", "redo"}, ReconcileOperation(c, kind)
       PROVE  Numbered'
  BY <1>22
  DEF TypeOK, Numbered, ReconcileOperation, Reconciling, Group, files, rows, records,
      process, working, budgets
<1>23. ASSUME NEW c \in ChangeSets, NEW kind \in {"undo", "redo"}, OperationConflicts(c, kind)
       PROVE  Numbered'
  BY <1>23
  DEF TypeOK, Numbered, OperationConflicts, Reconciling, Abandon, Stop, files, rows,
      records, process, working, budgets
<1>24. ASSUME Activate
       PROVE  Numbered'
  BY <1>24
  DEF TypeOK, Numbered, Activate, files, rows, records, process, working, budgets
<1>25. ASSUME NEW c \in ChangeSets, OpenChangeSet(c)
       PROVE  Numbered'
  BY <1>25
  DEF TypeOK, Numbered, OpenChangeSet, Idle, files, rows, records, process, working,
      budgets
<1>26. ASSUME NEW c \in ChangeSets, RecordExecute(c)
       PROVE  Numbered'
  BY <1>26
  DEF TypeOK, Numbered, RecordExecute, Idle, files, rows, records, process, working,
      budgets
<1>27. ASSUME NEW c \in ChangeSets, NEW p \in Paths, NEW content \in Contents, BeginEdit(c, p, content)
       PROVE  Numbered'
  <2>1. ops' = ops + 1 /\ ops \in Nat /\ UNCHANGED <<saved, pending>>
    BY <1>27 DEF BeginEdit, TypeOK, rows, records
  <2>2. \A q \in prepared' : q.id = ops + 1
    BY <1>27 DEF BeginEdit, Begin
  <2>3. \A q \in saved \cup pending : q.id \in Nat /\ q.id <= ops
    BY DEF TypeOK, Intents, Numbered
  <2> QED
    BY <2>1, <2>2, <2>3 DEF Numbered
<1>28. ASSUME NEW c \in ChangeSets, NEW kind \in {"undo", "redo"}, BeginRestore(c, kind)
       PROVE  Numbered'
  <2>1. ops' = ops + 1 /\ ops \in Nat /\ UNCHANGED <<saved, pending>>
    BY <1>28 DEF BeginRestore, TypeOK, rows, records
  <2>2. \A q \in prepared' : q.id = ops + 1
    BY <1>28 DEF BeginRestore, Begin, Restores
  <2>3. \A q \in saved \cup pending : q.id \in Nat /\ q.id <= ops
    BY DEF TypeOK, Intents, Numbered
  <2> QED
    BY <2>1, <2>2, <2>3 DEF Numbered
<1>29. ASSUME NEW c \in ChangeSets, NEW what \in {"seal", "discard"}, BeginSeal(c, what)
       PROVE  Numbered'
  BY <1>29
  DEF TypeOK, Numbered, BeginSeal, Idle, Begin, Of, files, rows, records, process,
      working, budgets
<1>30. ASSUME NEW p \in Paths, NEW content \in Contents, External(p, content)
       PROVE  Numbered'
  BY <1>30
  DEF TypeOK, Numbered, External, Put, PathsOf, files, rows, records, process, working,
      budgets
<1>31. ASSUME Crash
       PROVE  Numbered'
  BY <1>31
  DEF TypeOK, Numbered, Crash, Stop, files, rows, records, process, working, budgets
<1>32. ASSUME Restart
       PROVE  Numbered'
  BY <1>32
  DEF TypeOK, Numbered, Restart, files, rows, records, process, working, budgets
<1>33. ASSUME UNCHANGED vars
       PROVE  Numbered'
  BY <1>33
  DEF TypeOK, Numbered, vars, files, rows, records, process, working, budgets
<1> QED
  BY <1>1, <1>2, <1>3, <1>4, <1>5, <1>6, <1>7, <1>8, <1>9, <1>10, <1>11, <1>12, <1>13,
     <1>14, <1>15, <1>16, <1>17, <1>18, <1>19, <1>20, <1>21, <1>22, <1>23, <1>24, <1>25,
     <1>26, <1>27, <1>28, <1>29, <1>30, <1>31, <1>32, <1>33
  DEF Next, JobStep

\* Every step leaves the job in order.
LEMMA ShapedStep ==
    ASSUME TypeOK, Shaped, Meant, [Next]_vars
    PROVE  Shaped'
<1>1. ASSUME NEW q \in prepared, SaveIntent(q)
       PROVE  Shaped'
  BY <1>1
  DEF Shaped, SaveIntent, At, GoTo, files, rows, records, process, working, budgets
<1>2. ASSUME NEW q \in prepared, SaveIntentFails(q)
       PROVE  Shaped'
  BY <1>2
  DEF Shaped, SaveIntentFails, At, GoTo, Stop, Fault, files, rows, records, process,
      working, budgets
<1>3. ASSUME NEW q \in prepared, Effect(q)
       PROVE  Shaped'
  BY <1>3
  DEF Shaped, Effect, At, Unwritten, Write, Put, PathsOf, files, rows, records, process,
      working, budgets
<1>4. ASSUME NEW q \in prepared, EffectRefused(q)
       PROVE  Shaped'
  BY <1>4
  DEF Shaped, EffectRefused, At, Unwritten, GoTo, files, rows, records, process,
      working, budgets
<1>5. ASSUME NEW q \in prepared, EffectFails(q)
       PROVE  Shaped'
  BY <1>5
  DEF Shaped, EffectFails, At, Unwritten, Put, GoTo, Stop, Fault, files, rows, records,
      process, working, budgets
<1>6. ASSUME NEW q \in prepared, Withdraw(q)
       PROVE  Shaped'
  BY <1>6
  DEF Shaped, Withdraw, At, Stop, Fault, files, rows, records, process, working, budgets
<1>7. ASSUME NEW q \in prepared, RecordEdit(q)
       PROVE  Shaped'
  BY <1>7
  DEF Shaped, RecordEdit, At, Record, GoTo, Stop, files, rows, records, process,
      working, budgets
<1>8. ASSUME NEW q \in prepared, RecordEditFails(q)
       PROVE  Shaped'
  BY <1>8
  DEF Shaped, RecordEditFails, At, Record, Stop, Fault, files, rows, records, process,
      working, budgets
<1>9. ASSUME NEW q \in prepared, RollBack(q)
       PROVE  Shaped'
  BY <1>9
  DEF Shaped, RollBack, At, Put, Abandon, Stop, files, rows, records, process, working,
      budgets
<1>10. ASSUME NEW q \in prepared, RollBackFails(q)
       PROVE  Shaped'
  BY <1>10
  DEF Shaped, RollBackFails, At, Put, Abandon, Stop, Fault, files, rows, records,
      process, working, budgets
<1>11. ASSUME NEW q \in prepared, ClearIntent(q)
       PROVE  Shaped'
  BY <1>11
  DEF Shaped, ClearIntent, At, files, rows, records, process, working, budgets
<1>12. ASSUME CommitRestore
       PROVE  Shaped'
  BY <1>12
  DEF Shaped, CommitRestore, At, Committed, GoTo, files, rows, records, process,
      working, budgets
<1>13. ASSUME CommitRestoreFails
       PROVE  Shaped'
  BY <1>13
  DEF Shaped, CommitRestoreFails, At, Committed, GoTo, Stop, Fault, files, rows,
      records, process, working, budgets
<1>14. ASSUME RolledBack
       PROVE  Shaped'
  BY <1>14
  DEF Shaped, RolledBack, At, GoTo, Abandon, Stop, files, rows, records, process,
      working, budgets
<1>15. ASSUME Cleared
       PROVE  Shaped'
  BY <1>15
  DEF Shaped, Cleared, At, Stop, files, rows, records, process, working, budgets
<1>16. ASSUME ClearFails
       PROVE  Shaped'
  BY <1>16
  DEF Shaped, ClearFails, At, Abandon, Stop, Fault, files, rows, records, process,
      working, budgets
<1>17. ASSUME NEW q \in pending, ReconcileEdit(q)
       PROVE  Shaped'
  <2>1. q \in Live /\ q.kind = "edit" /\ q.owner \in ChangeSets
    BY <1>17, PendingLive, IntentTyped DEF ReconcileEdit, EditIntents
  <2>2. lifecycle[q.owner] = "open"
    BY <2>1, OwnerStates
  <2>3. job \in {"none", "seal", "discard"}
    BY <1>17 DEF ReconcileEdit, Settles, Shaped
  <2> QED
    BY <1>17, <2>1, <2>2, <2>3 DEF Shaped, ReconcileEdit, files, rows, records, process, working, budgets
<1>18. ASSUME NEW q \in pending, EditConflicts(q)
       PROVE  Shaped'
  BY <1>18
  DEF Shaped, EditConflicts, EditIntents, Settles, Abandon, Stop, files, rows, records,
      process, working, budgets
<1>19. ASSUME NEW c \in ChangeSets, Settle(c)
       PROVE  Shaped'
  BY <1>19
  DEF Shaped, Settle, Of, EditIntents, Stop, files, rows, records, process, working,
      budgets
<1>20. ASSUME NEW c \in ChangeSets, SettleFails(c)
       PROVE  Shaped'
  BY <1>20
  DEF Shaped, SettleFails, Of, Abandon, Stop, Fault, files, rows, records, process,
      working, budgets
<1>21. ASSUME NEW c \in ChangeSets, SealOrphan(c)
       PROVE  Shaped'
  BY <1>21
  DEF Shaped, SealOrphan, files, rows, records, process, working, budgets
<1>22. ASSUME NEW c \in ChangeSets, NEW kind \in {"undo", "redo"}, ReconcileOperation(c, kind)
       PROVE  Shaped'
  <2>1. /\ job' = kind /\ subject' = c /\ kind \in {"undo", "redo"} /\ UNCHANGED <<rows, mode>>
        /\ \A q \in prepared' : q.owner = c /\ q.kind = kind
    BY <1>22 DEF ReconcileOperation, Group, process
  <2>2. \/ step' = "clear"
        \/ step' = "rollback" /\ lifecycle[c] = Source(kind)
    BY <1>22 DEF ReconcileOperation, Explained, Source, Committed
  <2> QED
    BY <2>1, <2>2 DEF Shaped, rows
<1>23. ASSUME NEW c \in ChangeSets, NEW kind \in {"undo", "redo"}, OperationConflicts(c, kind)
       PROVE  Shaped'
  BY <1>23
  DEF Shaped, OperationConflicts, Reconciling, Abandon, Stop, files, rows, records,
      process, working, budgets
<1>24. ASSUME Activate
       PROVE  Shaped'
  BY <1>24
  DEF Shaped, Activate, files, rows, records, process, working, budgets
<1>25. ASSUME NEW c \in ChangeSets, OpenChangeSet(c)
       PROVE  Shaped'
  BY <1>25
  DEF Shaped, OpenChangeSet, Idle, files, rows, records, process, working, budgets
<1>26. ASSUME NEW c \in ChangeSets, RecordExecute(c)
       PROVE  Shaped'
  BY <1>26
  DEF Shaped, RecordExecute, Idle, files, rows, records, process, working, budgets
<1>27. ASSUME NEW c \in ChangeSets, NEW p \in Paths, NEW content \in Contents, BeginEdit(c, p, content)
       PROVE  Shaped'
  BY <1>27
  DEF Shaped, BeginEdit, Idle, Begin, files, rows, records, process, working, budgets
<1>28. ASSUME NEW c \in ChangeSets, NEW kind \in {"undo", "redo"}, BeginRestore(c, kind)
       PROVE  Shaped'
  <2>1. /\ job' = kind /\ subject' = c /\ prepared' = Restores(c, kind)
        /\ step' \in {"record", "intend"} /\ lifecycle[c] = Source(kind) /\ UNCHANGED rows
    BY <1>28 DEF BeginRestore, Begin
  <2>2. \A q \in prepared' : q.owner = c /\ q.kind = kind
    BY <2>1 DEF Restores
  <2>3. \A x \in recorded[c] : \E q \in prepared' : q.path = x
    <3> SUFFICES ASSUME NEW x \in recorded[c]
                 PROVE  \E q \in prepared' : q.path = x
      OBVIOUS
    <3> DEFINE r == [id |-> ops + 1, owner |-> c, kind |-> kind, path |-> x, from |-> disk[x],
                     to |-> IF kind = "undo" THEN before[c][x] ELSE after[c][x]]
    <3>1. r \in prepared' /\ r.path = x
      BY <2>1 DEF Restores
    <3> QED
      BY <3>1
  <2>4. \A q, r \in prepared' : q.path = r.path => q = r
    BY <2>1 DEF Restores
  <2> QED
    BY <2>1, <2>2, <2>3, <2>4 DEF Shaped, rows, records, Source
<1>29. ASSUME NEW c \in ChangeSets, NEW what \in {"seal", "discard"}, BeginSeal(c, what)
       PROVE  Shaped'
  BY <1>29
  DEF Shaped, BeginSeal, Idle, Begin, Of, files, rows, records, process, working,
      budgets
<1>30. ASSUME NEW p \in Paths, NEW content \in Contents, External(p, content)
       PROVE  Shaped'
  BY <1>30
  DEF Shaped, External, Put, PathsOf, files, rows, records, process, working, budgets
<1>31. ASSUME Crash
       PROVE  Shaped'
  BY <1>31
  DEF Shaped, Crash, Stop, files, rows, records, process, working, budgets
<1>32. ASSUME Restart
       PROVE  Shaped'
  BY <1>32
  DEF Shaped, Restart, files, rows, records, process, working, budgets
<1>33. ASSUME UNCHANGED vars
       PROVE  Shaped'
  BY <1>33
  DEF Shaped, vars, files, rows, records, process, working, budgets
<1> QED
  BY <1>1, <1>2, <1>3, <1>4, <1>5, <1>6, <1>7, <1>8, <1>9, <1>10, <1>11, <1>12, <1>13,
     <1>14, <1>15, <1>16, <1>17, <1>18, <1>19, <1>20, <1>21, <1>22, <1>23, <1>24, <1>25,
     <1>26, <1>27, <1>28, <1>29, <1>30, <1>31, <1>32, <1>33
  DEF Next, JobStep

\* The parts of the state that the meaning of an intent depends on.
LEMMA MeantFrame ==
    ASSUME Meant, UNCHANGED <<files, records>>,
           \A q \in Live' :
              /\ q \in Live
              /\ q.kind = "edit" => lifecycle'[q.owner] = lifecycle[q.owner]
              /\ q.kind # "edit" => lifecycle'[q.owner] \in {"applied", "undone"}
    PROVE  Meant'
<1> SUFFICES ASSUME NEW q \in Live'
             PROVE  (IF q.kind = "edit" THEN EditMeant(q) ELSE RestoreMeant(q))'
  BY DEF Meant
<1>1. CASE q.kind = "edit"
  <2>1. EditMeant(q) /\ lifecycle'[q.owner] = lifecycle[q.owner]
    BY <1>1 DEF Meant
  <2>2. Truth(q.owner, q.path)' = Truth(q.owner, q.path)
    BY <2>1 DEF Truth, records
  <2> QED
    BY <1>1, <2>1, <2>2 DEF EditMeant, files, records
<1>2. CASE q.kind # "edit"
  BY <1>2 DEF Meant, RestoreMeant, records
<1> QED
  BY <1>1, <1>2

\* A path is written by the only intent of its owner for it.
LEMMA MeantPut ==
    ASSUME TypeOK, Meant, Live' \subseteq Live, UNCHANGED <<lifecycle, records>>,
           NEW p \in Paths, NEW content \in Contents, NEW who, Put(p, content, who),
           \A q \in Live : q.kind = "edit" /\ q.path = p /\ q.owner = who => content = q.to
    PROVE  Meant'
<1> SUFFICES ASSUME NEW q \in Live'
             PROVE  (IF q.kind = "edit" THEN EditMeant(q) ELSE RestoreMeant(q))'
  BY DEF Meant
<1>1. \A x : x # p => disk'[x] = disk[x] /\ writer'[x] = writer[x]
  BY DEF Put, TypeOK
<1>2. disk'[p] = content /\ writer'[p] = who
  BY DEF Put, TypeOK
<1>3. CASE q.kind = "edit"
  <2>1. EditMeant(q) /\ Truth(q.owner, q.path)' = Truth(q.owner, q.path)
    BY <1>3 DEF Meant, Truth, records
  <2> QED
    BY <1>1, <1>2, <1>3, <2>1 DEF EditMeant, records
<1>4. CASE q.kind # "edit"
  BY <1>4 DEF Meant, RestoreMeant, records
<1> QED
  BY <1>3, <1>4

\* A change is recorded that took effect.
LEMMA MeantRecord ==
    ASSUME TypeOK, Meant, Single, Live' \subseteq Live, Live \subseteq Intents,
           UNCHANGED <<files, lifecycle>>,
           NEW q \in Live, q.kind = "edit", disk[q.path] = q.to, Record(q)
    PROVE  Meant'
<1>1. q \in Intents /\ lifecycle[q.owner] = "open"
  BY OwnerStates
<1>2. /\ Truth(q.owner, q.path)' = q.to
      /\ \A c \in ChangeSets, p \in Paths :
            c # q.owner \/ p # q.path => Truth(c, p)' = Truth(c, p)
      /\ \A c \in ChangeSets : c # q.owner =>
            recorded'[c] = recorded[c] /\ before'[c] = before[c] /\ after'[c] = after[c]
      /\ saved' = saved \cup {q}
  BY <1>1, RecordTells
<1> SUFFICES ASSUME NEW r \in Live'
             PROVE  (IF r.kind = "edit" THEN EditMeant(r) ELSE RestoreMeant(r))'
  BY DEF Meant
<1>3. r \in Live /\ r.owner \in ChangeSets /\ r.path \in Paths
  BY DEF Intents
<1>4. CASE r = q
  <2>1. EditMeant(q)
    BY DEF Meant
  <2> QED
    BY <1>1, <1>2, <1>4, <2>1 DEF EditMeant, files
<1>5. CASE r # q /\ r.kind = "edit"
  <2>1. r.owner # q.owner /\ EditMeant(r)
    BY <1>3, <1>5 DEF Single, Meant
  <2> QED
    BY <1>2, <1>3, <1>5, <2>1 DEF EditMeant, files
<1>6. CASE r.kind # "edit"
  <2>1. r.owner # q.owner /\ RestoreMeant(r)
    BY <1>1, <1>3, <1>6, OwnerStates DEF Meant
  <2> QED
    BY <1>2, <1>3, <1>6, <2>1 DEF RestoreMeant
<1> QED
  BY <1>4, <1>5, <1>6

\* All live intents are intents.
LEMMA LiveTyped == TypeOK => Live \subseteq Intents
  BY DEF TypeOK, Live

\* Intents keep their meaning until they are cleared.
LEMMA MeantStep ==
    ASSUME TypeOK, Evidence, Numbered, Shaped, Meant, Single, Told, [Next]_vars
    PROVE  Meant'
<1>1. ASSUME NEW q \in prepared, SaveIntent(q)
       PROVE  Meant'
  <2>1. \A r \in Live' : r \in Live
    BY <1>1
    DEF Live, Evidence, SaveIntent, At, GoTo, files, rows, records, process, working,
        budgets
  <2>2. UNCHANGED <<files, lifecycle, records>>
    BY <1>1 DEF SaveIntent, rows
  <2> QED
    BY <2>1, <2>2, MeantFrame, OwnerStates
<1>2. ASSUME NEW q \in prepared, SaveIntentFails(q)
       PROVE  Meant'
  <2>1. \A r \in Live' : r \in Live
    BY <1>2
    DEF Live, Evidence, SaveIntentFails, At, GoTo, Stop, Fault, files, rows, records,
        process, working, budgets
  <2>2. UNCHANGED <<files, lifecycle, records>>
    BY <1>2 DEF SaveIntentFails, rows
  <2> QED
    BY <2>1, <2>2, MeantFrame, OwnerStates
<1>3. ASSUME NEW q \in prepared, Effect(q)
       PROVE  Meant'
  <2>1. Live' \subseteq Live
    BY <1>3
    DEF Live, Evidence, Effect, At, Unwritten, Write, Put, PathsOf, files, rows,
        records, process, working, budgets
  <2>2. q \in Live /\ q \in Intents /\ q.path \in Paths /\ q.to \in Contents /\ q.from \in Contents
    BY <1>3, LiveTyped DEF Effect, Unwritten, At, Live, Intents
  <2>3. UNCHANGED <<lifecycle, records>> /\ (Put(q.path, q.to, q.owner) \/ UNCHANGED files)
    BY <1>3 DEF Effect, Write, rows
  <2>4. \A r \in Live : r.kind = "edit" /\ r.owner = q.owner => r = q /\ q.to = q.to
    BY <1>3, <2>2, OwnerStates DEF Single
  <2>5. UNCHANGED files => Meant'
    BY <2>1, <2>3, MeantFrame, OwnerStates
  <2> QED
    BY <2>1, <2>2, <2>3, <2>4, <2>5, MeantPut
<1>4. ASSUME NEW q \in prepared, EffectRefused(q)
       PROVE  Meant'
  <2>1. \A r \in Live' : r \in Live
    BY <1>4
    DEF Live, Evidence, EffectRefused, At, Unwritten, GoTo, files, rows, records,
        process, working, budgets
  <2>2. UNCHANGED <<files, lifecycle, records>>
    BY <1>4 DEF EffectRefused, rows
  <2> QED
    BY <2>1, <2>2, MeantFrame, OwnerStates
<1>5. ASSUME NEW q \in prepared, EffectFails(q)
       PROVE  Meant'
  <2>1. Live' \subseteq Live
    BY <1>5
    DEF Live, Evidence, EffectFails, At, Unwritten, Put, GoTo, Stop, Fault, files, rows,
        records, process, working, budgets
  <2>2. q \in Live /\ q \in Intents /\ q.path \in Paths /\ q.to \in Contents /\ q.from \in Contents
    BY <1>5, LiveTyped DEF EffectFails, Unwritten, At, Live, Intents
  <2>3. UNCHANGED <<lifecycle, records>> /\ (Put(q.path, q.to, q.owner) \/ UNCHANGED files)
    BY <1>5 DEF EffectFails, Write, rows
  <2>4. \A r \in Live : r.kind = "edit" /\ r.owner = q.owner => r = q /\ q.to = q.to
    BY <1>5, <2>2, OwnerStates DEF Single
  <2>5. UNCHANGED files => Meant'
    BY <2>1, <2>3, MeantFrame, OwnerStates
  <2> QED
    BY <2>1, <2>2, <2>3, <2>4, <2>5, MeantPut
<1>6. ASSUME NEW q \in prepared, Withdraw(q)
       PROVE  Meant'
  <2>1. \A r \in Live' : r \in Live
    BY <1>6
    DEF Live, Evidence, Withdraw, At, Stop, Fault, files, rows, records, process,
        working, budgets
  <2>2. UNCHANGED <<files, lifecycle, records>>
    BY <1>6 DEF Withdraw, rows
  <2> QED
    BY <2>1, <2>2, MeantFrame, OwnerStates
<1>7. ASSUME NEW q \in prepared, RecordEdit(q)
       PROVE  Meant'
  <2>1. Live' \subseteq Live
    BY <1>7
    DEF Live, Evidence, RecordEdit, At, Record, GoTo, Stop, files, rows, records,
        process, working, budgets
  <2>2. q \in Live /\ q.kind = "edit" /\ UNCHANGED <<files, lifecycle>>
    BY <1>7 DEF RecordEdit, At, Live, Shaped
  <2>3. (Record(q) /\ disk[q.path] = q.to) \/ UNCHANGED records
    BY <1>7 DEF RecordEdit
  <2>4. UNCHANGED records => Meant'
    BY <2>1, <2>2, MeantFrame, OwnerStates
  <2> QED
    BY <2>1, <2>2, <2>3, <2>4, LiveTyped, MeantRecord
<1>8. ASSUME NEW q \in prepared, RecordEditFails(q)
       PROVE  Meant'
  <2>1. Live' \subseteq Live
    BY <1>8
    DEF Live, Evidence, RecordEditFails, At, Record, Stop, Fault, files, rows, records,
        process, working, budgets
  <2>2. q \in Live /\ q.kind = "edit" /\ UNCHANGED <<files, lifecycle>>
    BY <1>8 DEF RecordEditFails, At, Live, Shaped
  <2>3. (Record(q) /\ disk[q.path] = q.to) \/ UNCHANGED records
    BY <1>8 DEF RecordEditFails
  <2>4. UNCHANGED records => Meant'
    BY <2>1, <2>2, MeantFrame, OwnerStates
  <2> QED
    BY <2>1, <2>2, <2>3, <2>4, LiveTyped, MeantRecord
<1>9. ASSUME NEW q \in prepared, RollBack(q)
       PROVE  Meant'
  <2>1. Live' \subseteq Live
    BY <1>9
    DEF Live, Evidence, RollBack, At, Put, Abandon, Stop, files, rows, records, process,
        working, budgets
  <2>2. q \in Live /\ q \in Intents /\ q.path \in Paths /\ q.to \in Contents /\ q.from \in Contents
    BY <1>9, LiveTyped DEF RollBack, Unwritten, At, Live, Intents
  <2>3. UNCHANGED <<lifecycle, records>> /\ (Put(q.path, q.from, q.owner) \/ UNCHANGED files)
    BY <1>9 DEF RollBack, Write, rows
  <2>4. \A r \in Live : r.kind = "edit" /\ r.owner = q.owner => r = q /\ q.from = q.to
    BY <1>9, <2>2, OwnerStates DEF Single, RollBack, At, Shaped, Source
  <2>5. UNCHANGED files => Meant'
    BY <2>1, <2>3, MeantFrame, OwnerStates
  <2> QED
    BY <2>1, <2>2, <2>3, <2>4, <2>5, MeantPut
<1>10. ASSUME NEW q \in prepared, RollBackFails(q)
       PROVE  Meant'
  <2>1. Live' \subseteq Live
    BY <1>10
    DEF Live, Evidence, RollBackFails, At, Put, Abandon, Stop, Fault, files, rows,
        records, process, working, budgets
  <2>2. q \in Live /\ q \in Intents /\ q.path \in Paths /\ q.to \in Contents /\ q.from \in Contents
    BY <1>10, LiveTyped DEF RollBackFails, Unwritten, At, Live, Intents
  <2>3. UNCHANGED <<lifecycle, records>> /\ (Put(q.path, q.from, q.owner) \/ UNCHANGED files)
    BY <1>10 DEF RollBackFails, Write, rows
  <2>4. \A r \in Live : r.kind = "edit" /\ r.owner = q.owner => r = q /\ q.from = q.to
    BY <1>10, <2>2, OwnerStates DEF Single, RollBackFails, At, Shaped, Source
  <2>5. UNCHANGED files => Meant'
    BY <2>1, <2>3, MeantFrame, OwnerStates
  <2> QED
    BY <2>1, <2>2, <2>3, <2>4, <2>5, MeantPut
<1>11. ASSUME NEW q \in prepared, ClearIntent(q)
       PROVE  Meant'
  <2>1. \A r \in Live' : r \in Live
    BY <1>11
    DEF Live, Evidence, ClearIntent, At, files, rows, records, process, working, budgets
  <2>2. UNCHANGED <<files, lifecycle, records>>
    BY <1>11 DEF ClearIntent, rows
  <2> QED
    BY <2>1, <2>2, MeantFrame, OwnerStates
<1>12. ASSUME CommitRestore
       PROVE  Meant'
  <2>1. \A r \in Live' : r \in Live
    BY <1>12
    DEF Live, Evidence, CommitRestore, At, Committed, GoTo, files, rows, records,
        process, working, budgets
  <2>2. UNCHANGED <<files, records>>
    BY <1>12 DEF CommitRestore
  <2>3. \A r \in Live :
          /\ r.kind = "edit" => lifecycle'[r.owner] = lifecycle[r.owner]
          /\ r.kind # "edit" => lifecycle'[r.owner] \in {"applied", "undone"}
    BY <1>12, OwnerStates, LiveTyped DEF CommitRestore, Committed, Source, Shaped, At, TypeOK, Intents
  <2> QED
    BY <2>1, <2>2, <2>3, MeantFrame
<1>13. ASSUME CommitRestoreFails
       PROVE  Meant'
  <2>1. \A r \in Live' : r \in Live
    BY <1>13
    DEF Live, Evidence, CommitRestoreFails, At, Committed, GoTo, Stop, Fault, files,
        rows, records, process, working, budgets
  <2>2. UNCHANGED <<files, records>>
    BY <1>13 DEF CommitRestoreFails
  <2>3. \A r \in Live :
          /\ r.kind = "edit" => lifecycle'[r.owner] = lifecycle[r.owner]
          /\ r.kind # "edit" => lifecycle'[r.owner] \in {"applied", "undone"}
    BY <1>13, OwnerStates, LiveTyped DEF CommitRestoreFails, Committed, Source, Shaped, At, TypeOK, Intents
  <2> QED
    BY <2>1, <2>2, <2>3, MeantFrame
<1>14. ASSUME RolledBack
       PROVE  Meant'
  <2>1. \A r \in Live' : r \in Live
    BY <1>14
    DEF Live, Evidence, RolledBack, At, GoTo, Abandon, Stop, files, rows, records,
        process, working, budgets
  <2>2. UNCHANGED <<files, lifecycle, records>>
    BY <1>14 DEF RolledBack, rows, At, GoTo, Abandon, Stop
  <2> QED
    BY <2>1, <2>2, MeantFrame, OwnerStates
<1>15. ASSUME Cleared
       PROVE  Meant'
  <2>1. \A r \in Live' : r \in Live
    BY <1>15
    DEF Live, Evidence, Cleared, At, Stop, files, rows, records, process, working,
        budgets
  <2>2. UNCHANGED <<files, lifecycle, records>>
    BY <1>15 DEF Cleared, rows
  <2> QED
    BY <2>1, <2>2, MeantFrame, OwnerStates
<1>16. ASSUME ClearFails
       PROVE  Meant'
  <2>1. \A r \in Live' : r \in Live
    BY <1>16
    DEF Live, Evidence, ClearFails, At, Abandon, Stop, Fault, files, rows, records,
        process, working, budgets
  <2>2. UNCHANGED <<files, lifecycle, records>>
    BY <1>16 DEF ClearFails, rows
  <2> QED
    BY <2>1, <2>2, MeantFrame, OwnerStates
<1>17. ASSUME NEW q \in pending, ReconcileEdit(q)
       PROVE  Meant'
  <2>1. Live' \subseteq Live
    BY <1>17
    DEF Live, Evidence, ReconcileEdit, EditIntents, Settles, Resolvable, Record, files,
        rows, records, process, working, budgets
  <2>2. q \in Live /\ q.kind = "edit" /\ UNCHANGED <<files, lifecycle>>
    BY <1>17 DEF ReconcileEdit, EditIntents, Live
  <2>3. (Record(q) /\ disk[q.path] = q.to) \/ UNCHANGED records
    BY <1>17 DEF ReconcileEdit, Resolvable
  <2>4. UNCHANGED records => Meant'
    BY <2>1, <2>2, MeantFrame, OwnerStates
  <2> QED
    BY <2>1, <2>2, <2>3, <2>4, LiveTyped, MeantRecord
<1>18. ASSUME NEW q \in pending, EditConflicts(q)
       PROVE  Meant'
  <2>1. \A r \in Live' : r \in Live
    BY <1>18
    DEF Live, Evidence, EditConflicts, EditIntents, Settles, Abandon, Stop, files, rows,
        records, process, working, budgets
  <2>2. UNCHANGED <<files, lifecycle, records>>
    BY <1>18 DEF EditConflicts, rows
  <2> QED
    BY <2>1, <2>2, MeantFrame, OwnerStates
<1>19. ASSUME NEW c \in ChangeSets, Settle(c)
       PROVE  Meant'
  <2>1. \A r \in Live' : r \in Live
    BY <1>19
    DEF Live, Evidence, Settle, Of, EditIntents, Stop, files, rows, records, process,
        working, budgets
  <2>2. UNCHANGED <<files, records>>
    BY <1>19 DEF Settle
  <2>3. \A r \in Live :
          /\ r.kind = "edit" => lifecycle'[r.owner] = lifecycle[r.owner]
          /\ r.kind # "edit" => lifecycle'[r.owner] \in {"applied", "undone"}
    BY <1>19, OwnerStates, LiveTyped DEF Settle, Of, EditIntents, Shaped, Live, TypeOK, Intents
  <2> QED
    BY <2>1, <2>2, <2>3, MeantFrame
<1>20. ASSUME NEW c \in ChangeSets, SettleFails(c)
       PROVE  Meant'
  <2>1. \A r \in Live' : r \in Live
    BY <1>20
    DEF Live, Evidence, SettleFails, Of, Abandon, Stop, Fault, files, rows, records,
        process, working, budgets
  <2>2. UNCHANGED <<files, records>>
    BY <1>20 DEF SettleFails
  <2>3. \A r \in Live :
          /\ r.kind = "edit" => lifecycle'[r.owner] = lifecycle[r.owner]
          /\ r.kind # "edit" => lifecycle'[r.owner] \in {"applied", "undone"}
    BY <1>20, OwnerStates, LiveTyped DEF SettleFails, Of, Shaped, Live, TypeOK, Intents
  <2> QED
    BY <2>1, <2>2, <2>3, MeantFrame
<1>21. ASSUME NEW c \in ChangeSets, SealOrphan(c)
       PROVE  Meant'
  <2>1. \A r \in Live' : r \in Live
    BY <1>21
    DEF Live, Evidence, SealOrphan, files, rows, records, process, working, budgets
  <2>2. UNCHANGED <<files, records>>
    BY <1>21 DEF SealOrphan
  <2>3. \A r \in Live :
          /\ r.kind = "edit" => lifecycle'[r.owner] = lifecycle[r.owner]
          /\ r.kind # "edit" => lifecycle'[r.owner] \in {"applied", "undone"}
    BY <1>21, OwnerStates, LiveTyped DEF SealOrphan, Of, Live, TypeOK, Intents
  <2> QED
    BY <2>1, <2>2, <2>3, MeantFrame
<1>22. ASSUME NEW c \in ChangeSets, NEW kind \in {"undo", "redo"}, ReconcileOperation(c, kind)
       PROVE  Meant'
  <2>1. \A r \in Live' : r \in Live
    BY <1>22
    DEF Live, Evidence, ReconcileOperation, Reconciling, Group, files, rows, records,
        process, working, budgets
  <2>2. UNCHANGED <<files, lifecycle, records>>
    BY <1>22 DEF ReconcileOperation, rows
  <2> QED
    BY <2>1, <2>2, MeantFrame, OwnerStates
<1>23. ASSUME NEW c \in ChangeSets, NEW kind \in {"undo", "redo"}, OperationConflicts(c, kind)
       PROVE  Meant'
  <2>1. \A r \in Live' : r \in Live
    BY <1>23
    DEF Live, Evidence, OperationConflicts, Reconciling, Abandon, Stop, files, rows,
        records, process, working, budgets
  <2>2. UNCHANGED <<files, lifecycle, records>>
    BY <1>23 DEF OperationConflicts, rows
  <2> QED
    BY <2>1, <2>2, MeantFrame, OwnerStates
<1>24. ASSUME Activate
       PROVE  Meant'
  <2>1. \A r \in Live' : r \in Live
    BY <1>24
    DEF Live, Evidence, Activate, files, rows, records, process, working, budgets
  <2>2. UNCHANGED <<files, lifecycle, records>>
    BY <1>24 DEF Activate, rows
  <2> QED
    BY <2>1, <2>2, MeantFrame, OwnerStates
<1>25. ASSUME NEW c \in ChangeSets, OpenChangeSet(c)
       PROVE  Meant'
  <2>1. \A r \in Live' : r \in Live
    BY <1>25
    DEF Live, Evidence, OpenChangeSet, Idle, files, rows, records, process, working,
        budgets
  <2>2. UNCHANGED <<files, records>>
    BY <1>25 DEF OpenChangeSet
  <2>3. \A r \in Live :
          /\ r.kind = "edit" => lifecycle'[r.owner] = lifecycle[r.owner]
          /\ r.kind # "edit" => lifecycle'[r.owner] \in {"applied", "undone"}
    BY <1>25, OwnerStates, LiveTyped DEF OpenChangeSet, TypeOK, Intents
  <2> QED
    BY <2>1, <2>2, <2>3, MeantFrame
<1>26. ASSUME NEW c \in ChangeSets, RecordExecute(c)
       PROVE  Meant'
  <2>1. \A r \in Live' : r \in Live
    BY <1>26
    DEF Live, Evidence, RecordExecute, Idle, files, rows, records, process, working,
        budgets
  <2>2. UNCHANGED <<files, lifecycle, records>>
    BY <1>26 DEF RecordExecute, rows
  <2> QED
    BY <2>1, <2>2, MeantFrame, OwnerStates
<1>27. ASSUME NEW c \in ChangeSets, NEW p \in Paths, NEW content \in Contents, BeginEdit(c, p, content)
       PROVE  Meant'
  <2>1. UNCHANGED <<files, lifecycle, records, pending>> /\ Live' \subseteq Live \cup prepared'
    BY <1>27 DEF BeginEdit, Live, rows
  <2>2. ASSUME NEW r \in prepared'
        PROVE  (IF r.kind = "edit" THEN EditMeant(r) ELSE RestoreMeant(r))'
    <3>1. /\ r = [id |-> ops + 1, owner |-> c, kind |-> "edit", path |-> p,
                  from |-> disk[p], to |-> content]
          /\ content # disk[p] /\ lifecycle[c] = "open" /\ Of(c) = {} /\ ops \in Nat
      BY <1>27, <2>2 DEF BeginEdit, Begin, TypeOK
    <3>2. r \notin saved
      BY <3>1 DEF Numbered
    <3>3. writer[p] = c => disk[p] = Truth(c, p)
      BY <3>1 DEF Told, Of
    <3>4. Truth(c, p)' = Truth(c, p)
      BY <2>1 DEF Truth, records
    <3> QED
      BY <2>1, <3>1, <3>2, <3>3, <3>4 DEF EditMeant, files, records
  <2>3. ASSUME NEW r \in Live
        PROVE  (IF r.kind = "edit" THEN EditMeant(r) ELSE RestoreMeant(r))'
    <3>1. Truth(r.owner, r.path)' = Truth(r.owner, r.path)
      BY <2>1 DEF Truth, records
    <3> QED
      BY <2>1, <3>1 DEF Meant, EditMeant, RestoreMeant, files, records
  <2> QED
    BY <2>1, <2>2, <2>3 DEF Meant
<1>28. ASSUME NEW c \in ChangeSets, NEW kind \in {"undo", "redo"}, BeginRestore(c, kind)
       PROVE  Meant'
  <2>1. UNCHANGED <<files, lifecycle, records, pending>> /\ Live' \subseteq Live \cup prepared'
    BY <1>28 DEF BeginRestore, Live, rows
  <2>2. ASSUME NEW r \in prepared'
        PROVE  (IF r.kind = "edit" THEN EditMeant(r) ELSE RestoreMeant(r))'
    <3>1. PICK x \in recorded[c] :
            r = [id |-> ops + 1, owner |-> c, kind |-> kind, path |-> x, from |-> disk[x],
                 to |-> IF kind = "undo" THEN before[c][x] ELSE after[c][x]]
      BY <1>28, <2>2 DEF BeginRestore, Begin, Restores
    <3>2. /\ lifecycle[c] \in {"applied", "undone"}
          /\ disk[x] = IF kind = "undo" THEN after[c][x] ELSE before[c][x]
      BY <1>28 DEF BeginRestore, Source, Matches
    <3> QED
      BY <2>1, <3>1, <3>2 DEF RestoreMeant, records
  <2>3. ASSUME NEW r \in Live
        PROVE  (IF r.kind = "edit" THEN EditMeant(r) ELSE RestoreMeant(r))'
    <3>1. Truth(r.owner, r.path)' = Truth(r.owner, r.path)
      BY <2>1 DEF Truth, records
    <3> QED
      BY <2>1, <3>1 DEF Meant, EditMeant, RestoreMeant, files, records
  <2> QED
    BY <2>1, <2>2, <2>3 DEF Meant
<1>29. ASSUME NEW c \in ChangeSets, NEW what \in {"seal", "discard"}, BeginSeal(c, what)
       PROVE  Meant'
  <2>1. \A r \in Live' : r \in Live
    BY <1>29
    DEF Live, Evidence, BeginSeal, Idle, Begin, Of, files, rows, records, process,
        working, budgets
  <2>2. UNCHANGED <<files, lifecycle, records>>
    BY <1>29 DEF BeginSeal, rows
  <2> QED
    BY <2>1, <2>2, MeantFrame, OwnerStates
<1>30. ASSUME NEW p \in Paths, NEW content \in Contents, External(p, content)
       PROVE  Meant'
  <2>1. Live' \subseteq Live
    BY <1>30
    DEF Live, Evidence, External, Put, PathsOf, files, rows, records, process, working,
        budgets
  <2>2. UNCHANGED <<lifecycle, records>> /\ Put(p, content, Nobody)
    BY <1>30 DEF External, rows
  <2>3. \A r \in Live : r.owner # Nobody
    BY LiveTyped DEF Intents
  <2> QED
    BY <2>1, <2>2, <2>3, MeantPut
<1>31. ASSUME Crash
       PROVE  Meant'
  <2>1. \A r \in Live' : r \in Live
    BY <1>31
    DEF Live, Evidence, Crash, Stop, files, rows, records, process, working, budgets
  <2>2. UNCHANGED <<files, lifecycle, records>>
    BY <1>31 DEF Crash, rows
  <2> QED
    BY <2>1, <2>2, MeantFrame, OwnerStates
<1>32. ASSUME Restart
       PROVE  Meant'
  <2>1. \A r \in Live' : r \in Live
    BY <1>32
    DEF Live, Evidence, Restart, files, rows, records, process, working, budgets
  <2>2. UNCHANGED <<files, lifecycle, records>>
    BY <1>32 DEF Restart, rows
  <2> QED
    BY <2>1, <2>2, MeantFrame, OwnerStates
<1>33. ASSUME UNCHANGED vars
       PROVE  Meant'
  <2>1. \A r \in Live' : r \in Live
    BY <1>33
    DEF Live, Evidence, vars, files, rows, records, process, working, budgets
  <2>2. UNCHANGED <<files, lifecycle, records>>
    BY <1>33 DEF vars, rows
  <2> QED
    BY <2>1, <2>2, MeantFrame, OwnerStates
<1> QED
  BY <1>1, <1>2, <1>3, <1>4, <1>5, <1>6, <1>7, <1>8, <1>9, <1>10, <1>11, <1>12, <1>13,
     <1>14, <1>15, <1>16, <1>17, <1>18, <1>19, <1>20, <1>21, <1>22, <1>23, <1>24, <1>25,
     <1>26, <1>27, <1>28, <1>29, <1>30, <1>31, <1>32, <1>33
  DEF Next, JobStep

\* No second edit begins beside one of the same ChangeSet.
LEMMA SingleStep ==
    ASSUME TypeOK, Evidence, Shaped, Single, [Next]_vars
    PROVE  Single'
<1>1. ASSUME NEW q \in prepared, SaveIntent(q)
       PROVE  Single'
  <2>1. Live' \subseteq Live
    BY <1>1
    DEF Live, Evidence, SaveIntent, At, GoTo, files, rows, records, process, working,
        budgets
  <2> QED
    BY <2>1 DEF Single
<1>2. ASSUME NEW q \in prepared, SaveIntentFails(q)
       PROVE  Single'
  <2>1. Live' \subseteq Live
    BY <1>2
    DEF Live, Evidence, SaveIntentFails, At, GoTo, Stop, Fault, files, rows, records,
        process, working, budgets
  <2> QED
    BY <2>1 DEF Single
<1>3. ASSUME NEW q \in prepared, Effect(q)
       PROVE  Single'
  <2>1. Live' \subseteq Live
    BY <1>3
    DEF Live, Evidence, Effect, At, Unwritten, Write, Put, PathsOf, files, rows,
        records, process, working, budgets
  <2> QED
    BY <2>1 DEF Single
<1>4. ASSUME NEW q \in prepared, EffectRefused(q)
       PROVE  Single'
  <2>1. Live' \subseteq Live
    BY <1>4
    DEF Live, Evidence, EffectRefused, At, Unwritten, GoTo, files, rows, records,
        process, working, budgets
  <2> QED
    BY <2>1 DEF Single
<1>5. ASSUME NEW q \in prepared, EffectFails(q)
       PROVE  Single'
  <2>1. Live' \subseteq Live
    BY <1>5
    DEF Live, Evidence, EffectFails, At, Unwritten, Put, GoTo, Stop, Fault, files, rows,
        records, process, working, budgets
  <2> QED
    BY <2>1 DEF Single
<1>6. ASSUME NEW q \in prepared, Withdraw(q)
       PROVE  Single'
  <2>1. Live' \subseteq Live
    BY <1>6
    DEF Live, Evidence, Withdraw, At, Stop, Fault, files, rows, records, process,
        working, budgets
  <2> QED
    BY <2>1 DEF Single
<1>7. ASSUME NEW q \in prepared, RecordEdit(q)
       PROVE  Single'
  <2>1. Live' \subseteq Live
    BY <1>7
    DEF Live, Evidence, RecordEdit, At, Record, GoTo, Stop, files, rows, records,
        process, working, budgets
  <2> QED
    BY <2>1 DEF Single
<1>8. ASSUME NEW q \in prepared, RecordEditFails(q)
       PROVE  Single'
  <2>1. Live' \subseteq Live
    BY <1>8
    DEF Live, Evidence, RecordEditFails, At, Record, Stop, Fault, files, rows, records,
        process, working, budgets
  <2> QED
    BY <2>1 DEF Single
<1>9. ASSUME NEW q \in prepared, RollBack(q)
       PROVE  Single'
  <2>1. Live' \subseteq Live
    BY <1>9
    DEF Live, Evidence, RollBack, At, Put, Abandon, Stop, files, rows, records, process,
        working, budgets
  <2> QED
    BY <2>1 DEF Single
<1>10. ASSUME NEW q \in prepared, RollBackFails(q)
       PROVE  Single'
  <2>1. Live' \subseteq Live
    BY <1>10
    DEF Live, Evidence, RollBackFails, At, Put, Abandon, Stop, Fault, files, rows,
        records, process, working, budgets
  <2> QED
    BY <2>1 DEF Single
<1>11. ASSUME NEW q \in prepared, ClearIntent(q)
       PROVE  Single'
  <2>1. Live' \subseteq Live
    BY <1>11
    DEF Live, Evidence, ClearIntent, At, files, rows, records, process, working, budgets
  <2> QED
    BY <2>1 DEF Single
<1>12. ASSUME CommitRestore
       PROVE  Single'
  <2>1. Live' \subseteq Live
    BY <1>12
    DEF Live, Evidence, CommitRestore, At, Committed, GoTo, files, rows, records,
        process, working, budgets
  <2> QED
    BY <2>1 DEF Single
<1>13. ASSUME CommitRestoreFails
       PROVE  Single'
  <2>1. Live' \subseteq Live
    BY <1>13
    DEF Live, Evidence, CommitRestoreFails, At, Committed, GoTo, Stop, Fault, files,
        rows, records, process, working, budgets
  <2> QED
    BY <2>1 DEF Single
<1>14. ASSUME RolledBack
       PROVE  Single'
  <2>1. Live' \subseteq Live
    BY <1>14
    DEF Live, Evidence, RolledBack, At, GoTo, Abandon, Stop, files, rows, records,
        process, working, budgets
  <2> QED
    BY <2>1 DEF Single
<1>15. ASSUME Cleared
       PROVE  Single'
  <2>1. Live' \subseteq Live
    BY <1>15
    DEF Live, Evidence, Cleared, At, Stop, files, rows, records, process, working,
        budgets
  <2> QED
    BY <2>1 DEF Single
<1>16. ASSUME ClearFails
       PROVE  Single'
  <2>1. Live' \subseteq Live
    BY <1>16
    DEF Live, Evidence, ClearFails, At, Abandon, Stop, Fault, files, rows, records,
        process, working, budgets
  <2> QED
    BY <2>1 DEF Single
<1>17. ASSUME NEW q \in pending, ReconcileEdit(q)
       PROVE  Single'
  <2>1. Live' \subseteq Live
    BY <1>17
    DEF Live, Evidence, ReconcileEdit, EditIntents, Settles, Resolvable, Record, files,
        rows, records, process, working, budgets
  <2> QED
    BY <2>1 DEF Single
<1>18. ASSUME NEW q \in pending, EditConflicts(q)
       PROVE  Single'
  <2>1. Live' \subseteq Live
    BY <1>18
    DEF Live, Evidence, EditConflicts, EditIntents, Settles, Abandon, Stop, files, rows,
        records, process, working, budgets
  <2> QED
    BY <2>1 DEF Single
<1>19. ASSUME NEW c \in ChangeSets, Settle(c)
       PROVE  Single'
  <2>1. Live' \subseteq Live
    BY <1>19
    DEF Live, Evidence, Settle, Of, EditIntents, Stop, files, rows, records, process,
        working, budgets
  <2> QED
    BY <2>1 DEF Single
<1>20. ASSUME NEW c \in ChangeSets, SettleFails(c)
       PROVE  Single'
  <2>1. Live' \subseteq Live
    BY <1>20
    DEF Live, Evidence, SettleFails, Of, Abandon, Stop, Fault, files, rows, records,
        process, working, budgets
  <2> QED
    BY <2>1 DEF Single
<1>21. ASSUME NEW c \in ChangeSets, SealOrphan(c)
       PROVE  Single'
  <2>1. Live' \subseteq Live
    BY <1>21
    DEF Live, Evidence, SealOrphan, files, rows, records, process, working, budgets
  <2> QED
    BY <2>1 DEF Single
<1>22. ASSUME NEW c \in ChangeSets, NEW kind \in {"undo", "redo"}, ReconcileOperation(c, kind)
       PROVE  Single'
  <2>1. Live' \subseteq Live
    BY <1>22
    DEF Live, Evidence, ReconcileOperation, Reconciling, Group, files, rows, records,
        process, working, budgets
  <2> QED
    BY <2>1 DEF Single
<1>23. ASSUME NEW c \in ChangeSets, NEW kind \in {"undo", "redo"}, OperationConflicts(c, kind)
       PROVE  Single'
  <2>1. Live' \subseteq Live
    BY <1>23
    DEF Live, Evidence, OperationConflicts, Reconciling, Abandon, Stop, files, rows,
        records, process, working, budgets
  <2> QED
    BY <2>1 DEF Single
<1>24. ASSUME Activate
       PROVE  Single'
  <2>1. Live' \subseteq Live
    BY <1>24
    DEF Live, Evidence, Activate, files, rows, records, process, working, budgets
  <2> QED
    BY <2>1 DEF Single
<1>25. ASSUME NEW c \in ChangeSets, OpenChangeSet(c)
       PROVE  Single'
  <2>1. Live' \subseteq Live
    BY <1>25
    DEF Live, Evidence, OpenChangeSet, Idle, files, rows, records, process, working,
        budgets
  <2> QED
    BY <2>1 DEF Single
<1>26. ASSUME NEW c \in ChangeSets, RecordExecute(c)
       PROVE  Single'
  <2>1. Live' \subseteq Live
    BY <1>26
    DEF Live, Evidence, RecordExecute, Idle, files, rows, records, process, working,
        budgets
  <2> QED
    BY <2>1 DEF Single
<1>27. ASSUME NEW c \in ChangeSets, NEW p \in Paths, NEW content \in Contents, BeginEdit(c, p, content)
       PROVE  Single'
  <2>1. UNCHANGED pending /\ Live' \subseteq pending \cup prepared' /\ Of(c) = {}
    BY <1>27 DEF BeginEdit, Live, rows
  <2>2. \A r \in prepared' : r.owner = c /\ \A s \in prepared' : r = s
    BY <1>27 DEF BeginEdit, Begin
  <2> QED
    BY <2>1, <2>2, PendingLive DEF Single, Of
<1>28. ASSUME NEW c \in ChangeSets, NEW kind \in {"undo", "redo"}, BeginRestore(c, kind)
       PROVE  Single'
  <2>1. UNCHANGED pending /\ Live' \subseteq pending \cup prepared'
    BY <1>28 DEF BeginRestore, Live, rows
  <2>2. \A r \in prepared' : r.kind # "edit"
    BY <1>28 DEF BeginRestore, Begin, Restores
  <2> QED
    BY <2>1, <2>2, PendingLive DEF Single
<1>29. ASSUME NEW c \in ChangeSets, NEW what \in {"seal", "discard"}, BeginSeal(c, what)
       PROVE  Single'
  <2>1. Live' \subseteq Live
    BY <1>29
    DEF Live, Evidence, BeginSeal, Idle, Begin, Of, files, rows, records, process,
        working, budgets
  <2> QED
    BY <2>1 DEF Single
<1>30. ASSUME NEW p \in Paths, NEW content \in Contents, External(p, content)
       PROVE  Single'
  <2>1. Live' \subseteq Live
    BY <1>30
    DEF Live, Evidence, External, Put, PathsOf, files, rows, records, process, working,
        budgets
  <2> QED
    BY <2>1 DEF Single
<1>31. ASSUME Crash
       PROVE  Single'
  <2>1. Live' \subseteq Live
    BY <1>31
    DEF Live, Evidence, Crash, Stop, files, rows, records, process, working, budgets
  <2> QED
    BY <2>1 DEF Single
<1>32. ASSUME Restart
       PROVE  Single'
  <2>1. Live' \subseteq Live
    BY <1>32
    DEF Live, Evidence, Restart, files, rows, records, process, working, budgets
  <2> QED
    BY <2>1 DEF Single
<1>33. ASSUME UNCHANGED vars
       PROVE  Single'
  <2>1. Live' \subseteq Live
    BY <1>33
    DEF Live, Evidence, vars, files, rows, records, process, working, budgets
  <2> QED
    BY <2>1 DEF Single
<1> QED
  BY <1>1, <1>2, <1>3, <1>4, <1>5, <1>6, <1>7, <1>8, <1>9, <1>10, <1>11, <1>12, <1>13,
     <1>14, <1>15, <1>16, <1>17, <1>18, <1>19, <1>20, <1>21, <1>22, <1>23, <1>24, <1>25,
     <1>26, <1>27, <1>28, <1>29, <1>30, <1>31, <1>32, <1>33
  DEF Next, JobStep

\* What the job wrote stays, or is replaced by the user.
LEMMA WroteStep ==
    ASSUME TypeOK, Evidence, Shaped, Wrote, [Next]_vars
    PROVE  Wrote'
<1>1. ASSUME NEW q \in prepared, SaveIntent(q)
       PROVE  Wrote'
  BY <1>1
  DEF Evidence, Wrote, SaveIntent, At, GoTo, files, rows, records, process, working,
      budgets
<1>2. ASSUME NEW q \in prepared, SaveIntentFails(q)
       PROVE  Wrote'
  BY <1>2
  DEF Evidence, Wrote, SaveIntentFails, At, GoTo, Stop, Fault, files, rows, records,
      process, working, budgets
<1>3. ASSUME NEW q \in prepared, Effect(q)
       PROVE  Wrote'
  <2>1. \A r \in prepared : r.path = q.path => r = q
    BY <1>3 DEF Effect, Unwritten, At, Shaped
  <2>2. /\ prepared' = prepared /\ applied' = applied \cup {q.path}
        /\ step' = "record" => \A r \in prepared : r.path \in applied'
    BY <1>3 DEF Effect, Write, PathsOf
  <2>3. /\ disk'[q.path] = q.to
        /\ \A r \in prepared : r.path # q.path =>
              disk'[r.path] = disk[r.path] /\ writer'[r.path] = writer[r.path]
    BY <1>3 DEF Effect, Write, Put, TypeOK, Intents
  <2>4. step = "effect"
    BY <1>3 DEF Effect, Unwritten, At
  <2> QED
    BY <2>1, <2>2, <2>3, <2>4 DEF Wrote
<1>4. ASSUME NEW q \in prepared, EffectRefused(q)
       PROVE  Wrote'
  BY <1>4
  DEF Evidence, Wrote, EffectRefused, At, Unwritten, GoTo, files, rows, records,
      process, working, budgets
<1>5. ASSUME NEW q \in prepared, EffectFails(q)
       PROVE  Wrote'
  BY <1>5
  DEF Evidence, Wrote, EffectFails, At, Unwritten, Put, GoTo, Stop, Fault, files, rows,
      records, process, working, budgets
<1>6. ASSUME NEW q \in prepared, Withdraw(q)
       PROVE  Wrote'
  BY <1>6
  DEF Evidence, Wrote, Withdraw, At, Stop, Fault, files, rows, records, process,
      working, budgets
<1>7. ASSUME NEW q \in prepared, RecordEdit(q)
       PROVE  Wrote'
  BY <1>7
  DEF Evidence, Wrote, RecordEdit, At, Record, GoTo, Stop, files, rows, records,
      process, working, budgets
<1>8. ASSUME NEW q \in prepared, RecordEditFails(q)
       PROVE  Wrote'
  BY <1>8
  DEF Evidence, Wrote, RecordEditFails, At, Record, Stop, Fault, files, rows, records,
      process, working, budgets
<1>9. ASSUME NEW q \in prepared, RollBack(q)
       PROVE  Wrote'
  BY <1>9
  DEF Evidence, Wrote, RollBack, At, Put, Abandon, Stop, files, rows, records, process,
      working, budgets
<1>10. ASSUME NEW q \in prepared, RollBackFails(q)
       PROVE  Wrote'
  BY <1>10
  DEF Evidence, Wrote, RollBackFails, At, Put, Abandon, Stop, Fault, files, rows,
      records, process, working, budgets
<1>11. ASSUME NEW q \in prepared, ClearIntent(q)
       PROVE  Wrote'
  BY <1>11
  DEF Evidence, Wrote, ClearIntent, At, files, rows, records, process, working, budgets
<1>12. ASSUME CommitRestore
       PROVE  Wrote'
  BY <1>12
  DEF Evidence, Wrote, CommitRestore, At, Committed, GoTo, files, rows, records,
      process, working, budgets
<1>13. ASSUME CommitRestoreFails
       PROVE  Wrote'
  BY <1>13
  DEF Evidence, Wrote, CommitRestoreFails, At, Committed, GoTo, Stop, Fault, files,
      rows, records, process, working, budgets
<1>14. ASSUME RolledBack
       PROVE  Wrote'
  BY <1>14
  DEF Evidence, Wrote, RolledBack, At, GoTo, Abandon, Stop, files, rows, records,
      process, working, budgets
<1>15. ASSUME Cleared
       PROVE  Wrote'
  BY <1>15
  DEF Evidence, Wrote, Cleared, At, Stop, files, rows, records, process, working,
      budgets
<1>16. ASSUME ClearFails
       PROVE  Wrote'
  BY <1>16
  DEF Evidence, Wrote, ClearFails, At, Abandon, Stop, Fault, files, rows, records,
      process, working, budgets
<1>17. ASSUME NEW q \in pending, ReconcileEdit(q)
       PROVE  Wrote'
  BY <1>17
  DEF Evidence, Wrote, ReconcileEdit, EditIntents, Settles, Resolvable, Record, files,
      rows, records, process, working, budgets
<1>18. ASSUME NEW q \in pending, EditConflicts(q)
       PROVE  Wrote'
  BY <1>18
  DEF Evidence, Wrote, EditConflicts, EditIntents, Settles, Abandon, Stop, files, rows,
      records, process, working, budgets
<1>19. ASSUME NEW c \in ChangeSets, Settle(c)
       PROVE  Wrote'
  BY <1>19
  DEF Evidence, Wrote, Settle, Of, EditIntents, Stop, files, rows, records, process,
      working, budgets
<1>20. ASSUME NEW c \in ChangeSets, SettleFails(c)
       PROVE  Wrote'
  BY <1>20
  DEF Evidence, Wrote, SettleFails, Of, Abandon, Stop, Fault, files, rows, records,
      process, working, budgets
<1>21. ASSUME NEW c \in ChangeSets, SealOrphan(c)
       PROVE  Wrote'
  BY <1>21
  DEF Evidence, Wrote, SealOrphan, files, rows, records, process, working, budgets
<1>22. ASSUME NEW c \in ChangeSets, NEW kind \in {"undo", "redo"}, ReconcileOperation(c, kind)
       PROVE  Wrote'
  BY <1>22
  DEF Evidence, Wrote, ReconcileOperation, Reconciling, Group, files, rows, records,
      process, working, budgets
<1>23. ASSUME NEW c \in ChangeSets, NEW kind \in {"undo", "redo"}, OperationConflicts(c, kind)
       PROVE  Wrote'
  BY <1>23
  DEF Evidence, Wrote, OperationConflicts, Reconciling, Abandon, Stop, files, rows,
      records, process, working, budgets
<1>24. ASSUME Activate
       PROVE  Wrote'
  BY <1>24
  DEF Evidence, Wrote, Activate, files, rows, records, process, working, budgets
<1>25. ASSUME NEW c \in ChangeSets, OpenChangeSet(c)
       PROVE  Wrote'
  BY <1>25
  DEF Evidence, Wrote, OpenChangeSet, Idle, files, rows, records, process, working,
      budgets
<1>26. ASSUME NEW c \in ChangeSets, RecordExecute(c)
       PROVE  Wrote'
  BY <1>26
  DEF Evidence, Wrote, RecordExecute, Idle, files, rows, records, process, working,
      budgets
<1>27. ASSUME NEW c \in ChangeSets, NEW p \in Paths, NEW content \in Contents, BeginEdit(c, p, content)
       PROVE  Wrote'
  BY <1>27
  DEF Evidence, Wrote, BeginEdit, Idle, Begin, files, rows, records, process, working,
      budgets
<1>28. ASSUME NEW c \in ChangeSets, NEW kind \in {"undo", "redo"}, BeginRestore(c, kind)
       PROVE  Wrote'
  BY <1>28
  DEF Evidence, Wrote, BeginRestore, Idle, Begin, Restores, files, rows, records,
      process, working, budgets
<1>29. ASSUME NEW c \in ChangeSets, NEW what \in {"seal", "discard"}, BeginSeal(c, what)
       PROVE  Wrote'
  BY <1>29
  DEF Evidence, Wrote, BeginSeal, Idle, Begin, Of, files, rows, records, process,
      working, budgets
<1>30. ASSUME NEW p \in Paths, NEW content \in Contents, External(p, content)
       PROVE  Wrote'
  <2>1. UNCHANGED <<step, prepared, applied>>
    BY <1>30 DEF External
  <2>2. \A r \in prepared : writer'[r.path] = r.owner =>
           writer[r.path] = r.owner /\ disk'[r.path] = disk[r.path]
    BY <1>30 DEF External, Put, TypeOK, Intents
  <2> QED
    BY <2>1, <2>2 DEF Wrote
<1>31. ASSUME Crash
       PROVE  Wrote'
  BY <1>31
  DEF Evidence, Wrote, Crash, Stop, files, rows, records, process, working, budgets
<1>32. ASSUME Restart
       PROVE  Wrote'
  BY <1>32
  DEF Evidence, Wrote, Restart, files, rows, records, process, working, budgets
<1>33. ASSUME UNCHANGED vars
       PROVE  Wrote'
  BY <1>33
  DEF Evidence, Wrote, vars, files, rows, records, process, working, budgets
<1> QED
  BY <1>1, <1>2, <1>3, <1>4, <1>5, <1>6, <1>7, <1>8, <1>9, <1>10, <1>11, <1>12, <1>13,
     <1>14, <1>15, <1>16, <1>17, <1>18, <1>19, <1>20, <1>21, <1>22, <1>23, <1>24, <1>25,
     <1>26, <1>27, <1>28, <1>29, <1>30, <1>31, <1>32, <1>33
  DEF Next, JobStep

\* The user's replacements stay the user's until they are bound again.
LEMMA ReplacedStep ==
    ASSUME TypeOK, Shaped, Replaced, [Next]_vars
    PROVE  Replaced'
<1>1. ASSUME NEW q \in prepared, SaveIntent(q)
       PROVE  Replaced'
  BY <1>1
  DEF Replaced, SaveIntent, At, GoTo, files, rows, records, process, working, budgets
<1>2. ASSUME NEW q \in prepared, SaveIntentFails(q)
       PROVE  Replaced'
  BY <1>2
  DEF Replaced, SaveIntentFails, At, GoTo, Stop, Fault, files, rows, records, process,
      working, budgets
<1>3. ASSUME NEW q \in prepared, Effect(q)
       PROVE  Replaced'
  <2>1. step = "effect" /\ applied' = applied \cup {q.path} /\ touched' = touched
    BY <1>3 DEF Effect, Unwritten, At, Write
  <2>2. \A p \in touched : p # q.path => writer'[p] = writer[p]
    BY <1>3 DEF Effect, Write, Put, TypeOK
  <2>3. step' # "withdraw"
    BY <1>3 DEF Effect, Write
  <2> QED
    BY <2>1, <2>2, <2>3 DEF Replaced
<1>4. ASSUME NEW q \in prepared, EffectRefused(q)
       PROVE  Replaced'
  <2>1. writer[q.path] = Nobody /\ UNCHANGED <<files, prepared>>
    BY <1>4 DEF EffectRefused, Unwritten, At, GoTo, Replaced
  <2>2. \/ step' = "withdraw" /\ \A r \in prepared : r = q
        \/ step' = "rollback"
    BY <1>4 DEF EffectRefused, GoTo, Shaped
  <2> QED
    BY <2>1, <2>2 DEF Replaced, files
<1>5. ASSUME NEW q \in prepared, EffectFails(q)
       PROVE  Replaced'
  BY <1>5
  DEF Replaced, EffectFails, At, Unwritten, Put, GoTo, Stop, Fault, files, rows,
      records, process, working, budgets
<1>6. ASSUME NEW q \in prepared, Withdraw(q)
       PROVE  Replaced'
  BY <1>6
  DEF Replaced, Withdraw, At, Stop, Fault, files, rows, records, process, working,
      budgets
<1>7. ASSUME NEW q \in prepared, RecordEdit(q)
       PROVE  Replaced'
  BY <1>7
  DEF Replaced, RecordEdit, At, Record, GoTo, Stop, files, rows, records, process,
      working, budgets
<1>8. ASSUME NEW q \in prepared, RecordEditFails(q)
       PROVE  Replaced'
  BY <1>8
  DEF Replaced, RecordEditFails, At, Record, Stop, Fault, files, rows, records, process,
      working, budgets
<1>9. ASSUME NEW q \in prepared, RollBack(q)
       PROVE  Replaced'
  BY <1>9
  DEF Replaced, RollBack, At, Put, Abandon, Stop, files, rows, records, process,
      working, budgets
<1>10. ASSUME NEW q \in prepared, RollBackFails(q)
       PROVE  Replaced'
  BY <1>10
  DEF Replaced, RollBackFails, At, Put, Abandon, Stop, Fault, files, rows, records,
      process, working, budgets
<1>11. ASSUME NEW q \in prepared, ClearIntent(q)
       PROVE  Replaced'
  BY <1>11
  DEF Replaced, ClearIntent, At, files, rows, records, process, working, budgets
<1>12. ASSUME CommitRestore
       PROVE  Replaced'
  BY <1>12
  DEF Replaced, CommitRestore, At, Committed, GoTo, files, rows, records, process,
      working, budgets
<1>13. ASSUME CommitRestoreFails
       PROVE  Replaced'
  BY <1>13
  DEF Replaced, CommitRestoreFails, At, Committed, GoTo, Stop, Fault, files, rows,
      records, process, working, budgets
<1>14. ASSUME RolledBack
       PROVE  Replaced'
  BY <1>14
  DEF Replaced, RolledBack, At, GoTo, Abandon, Stop, files, rows, records, process,
      working, budgets
<1>15. ASSUME Cleared
       PROVE  Replaced'
  BY <1>15
  DEF Replaced, Cleared, At, Stop, files, rows, records, process, working, budgets
<1>16. ASSUME ClearFails
       PROVE  Replaced'
  BY <1>16
  DEF Replaced, ClearFails, At, Abandon, Stop, Fault, files, rows, records, process,
      working, budgets
<1>17. ASSUME NEW q \in pending, ReconcileEdit(q)
       PROVE  Replaced'
  BY <1>17
  DEF Replaced, ReconcileEdit, EditIntents, Settles, Resolvable, Record, files, rows,
      records, process, working, budgets
<1>18. ASSUME NEW q \in pending, EditConflicts(q)
       PROVE  Replaced'
  BY <1>18
  DEF Replaced, EditConflicts, EditIntents, Settles, Abandon, Stop, files, rows,
      records, process, working, budgets
<1>19. ASSUME NEW c \in ChangeSets, Settle(c)
       PROVE  Replaced'
  BY <1>19
  DEF Replaced, Settle, Of, EditIntents, Stop, files, rows, records, process, working,
      budgets
<1>20. ASSUME NEW c \in ChangeSets, SettleFails(c)
       PROVE  Replaced'
  BY <1>20
  DEF Replaced, SettleFails, Of, Abandon, Stop, Fault, files, rows, records, process,
      working, budgets
<1>21. ASSUME NEW c \in ChangeSets, SealOrphan(c)
       PROVE  Replaced'
  BY <1>21
  DEF Replaced, SealOrphan, files, rows, records, process, working, budgets
<1>22. ASSUME NEW c \in ChangeSets, NEW kind \in {"undo", "redo"}, ReconcileOperation(c, kind)
       PROVE  Replaced'
  BY <1>22
  DEF Replaced, ReconcileOperation, Reconciling, Group, files, rows, records, process,
      working, budgets
<1>23. ASSUME NEW c \in ChangeSets, NEW kind \in {"undo", "redo"}, OperationConflicts(c, kind)
       PROVE  Replaced'
  BY <1>23
  DEF Replaced, OperationConflicts, Reconciling, Abandon, Stop, files, rows, records,
      process, working, budgets
<1>24. ASSUME Activate
       PROVE  Replaced'
  BY <1>24
  DEF Replaced, Activate, files, rows, records, process, working, budgets
<1>25. ASSUME NEW c \in ChangeSets, OpenChangeSet(c)
       PROVE  Replaced'
  BY <1>25
  DEF Replaced, OpenChangeSet, Idle, files, rows, records, process, working, budgets
<1>26. ASSUME NEW c \in ChangeSets, RecordExecute(c)
       PROVE  Replaced'
  BY <1>26
  DEF Replaced, RecordExecute, Idle, files, rows, records, process, working, budgets
<1>27. ASSUME NEW c \in ChangeSets, NEW p \in Paths, NEW content \in Contents, BeginEdit(c, p, content)
       PROVE  Replaced'
  BY <1>27
  DEF Replaced, BeginEdit, Idle, Begin, files, rows, records, process, working, budgets
<1>28. ASSUME NEW c \in ChangeSets, NEW kind \in {"undo", "redo"}, BeginRestore(c, kind)
       PROVE  Replaced'
  BY <1>28
  DEF Replaced, BeginRestore, Idle, Begin, Restores, files, rows, records, process,
      working, budgets
<1>29. ASSUME NEW c \in ChangeSets, NEW what \in {"seal", "discard"}, BeginSeal(c, what)
       PROVE  Replaced'
  BY <1>29
  DEF Replaced, BeginSeal, Idle, Begin, Of, files, rows, records, process, working,
      budgets
<1>30. ASSUME NEW p \in Paths, NEW content \in Contents, External(p, content)
       PROVE  Replaced'
  <2>1. UNCHANGED <<step, prepared, applied>> /\ touched' \subseteq touched \cup {p}
    BY <1>30 DEF External
  <2>2. writer'[p] = Nobody /\ \A x : x # p => writer'[x] = writer[x]
    BY <1>30 DEF External, Put, TypeOK
  <2> QED
    BY <2>1, <2>2 DEF Replaced
<1>31. ASSUME Crash
       PROVE  Replaced'
  BY <1>31
  DEF Replaced, Crash, Stop, files, rows, records, process, working, budgets
<1>32. ASSUME Restart
       PROVE  Replaced'
  BY <1>32
  DEF Replaced, Restart, files, rows, records, process, working, budgets
<1>33. ASSUME UNCHANGED vars
       PROVE  Replaced'
  BY <1>33
  DEF Replaced, vars, files, rows, records, process, working, budgets
<1> QED
  BY <1>1, <1>2, <1>3, <1>4, <1>5, <1>6, <1>7, <1>8, <1>9, <1>10, <1>11, <1>12, <1>13,
     <1>14, <1>15, <1>16, <1>17, <1>18, <1>19, <1>20, <1>21, <1>22, <1>23, <1>24, <1>25,
     <1>26, <1>27, <1>28, <1>29, <1>30, <1>31, <1>32, <1>33
  DEF Next, JobStep

\* Only a saved change enters a merged record.
LEMMA FoundedStep ==
    ASSUME TypeOK, Founded, [Next]_vars
    PROVE  Founded'
<1>1. ASSUME NEW q \in prepared, SaveIntent(q)
       PROVE  Founded'
  BY <1>1
  DEF Founded, HasFiles, SaveIntent, At, GoTo, files, rows, records, process, working,
      budgets
<1>2. ASSUME NEW q \in prepared, SaveIntentFails(q)
       PROVE  Founded'
  BY <1>2
  DEF Founded, HasFiles, SaveIntentFails, At, GoTo, Stop, Fault, files, rows, records,
      process, working, budgets
<1>3. ASSUME NEW q \in prepared, Effect(q)
       PROVE  Founded'
  BY <1>3
  DEF Founded, HasFiles, Effect, At, Unwritten, Write, Put, PathsOf, files, rows,
      records, process, working, budgets
<1>4. ASSUME NEW q \in prepared, EffectRefused(q)
       PROVE  Founded'
  BY <1>4
  DEF Founded, HasFiles, EffectRefused, At, Unwritten, GoTo, files, rows, records,
      process, working, budgets
<1>5. ASSUME NEW q \in prepared, EffectFails(q)
       PROVE  Founded'
  BY <1>5
  DEF Founded, HasFiles, EffectFails, At, Unwritten, Put, GoTo, Stop, Fault, files,
      rows, records, process, working, budgets
<1>6. ASSUME NEW q \in prepared, Withdraw(q)
       PROVE  Founded'
  BY <1>6
  DEF Founded, HasFiles, Withdraw, At, Stop, Fault, files, rows, records, process,
      working, budgets
<1>7. ASSUME NEW q \in prepared, RecordEdit(q)
       PROVE  Founded'
  <2>1. CASE Record(q)
    <3>1. saved' = saved \cup {q}
      BY <2>1 DEF Record
    <3>2. \A c \in ChangeSets : c # q.owner => recorded'[c] = recorded[c]
      BY <2>1 DEF Record, TypeOK
    <3> QED
      BY <3>1, <3>2 DEF Founded, HasFiles
  <2>2. CASE UNCHANGED records
    BY <2>2 DEF Founded, HasFiles, records
  <2> QED
    BY <1>7, <2>1, <2>2 DEF RecordEdit
<1>8. ASSUME NEW q \in prepared, RecordEditFails(q)
       PROVE  Founded'
  <2>1. CASE Record(q)
    <3>1. saved' = saved \cup {q}
      BY <2>1 DEF Record
    <3>2. \A c \in ChangeSets : c # q.owner => recorded'[c] = recorded[c]
      BY <2>1 DEF Record, TypeOK
    <3> QED
      BY <3>1, <3>2 DEF Founded, HasFiles
  <2>2. CASE UNCHANGED records
    BY <2>2 DEF Founded, HasFiles, records
  <2> QED
    BY <1>8, <2>1, <2>2 DEF RecordEditFails
<1>9. ASSUME NEW q \in prepared, RollBack(q)
       PROVE  Founded'
  BY <1>9
  DEF Founded, HasFiles, RollBack, At, Put, Abandon, Stop, files, rows, records,
      process, working, budgets
<1>10. ASSUME NEW q \in prepared, RollBackFails(q)
       PROVE  Founded'
  BY <1>10
  DEF Founded, HasFiles, RollBackFails, At, Put, Abandon, Stop, Fault, files, rows,
      records, process, working, budgets
<1>11. ASSUME NEW q \in prepared, ClearIntent(q)
       PROVE  Founded'
  BY <1>11
  DEF Founded, HasFiles, ClearIntent, At, files, rows, records, process, working,
      budgets
<1>12. ASSUME CommitRestore
       PROVE  Founded'
  BY <1>12
  DEF Founded, HasFiles, CommitRestore, At, Committed, GoTo, files, rows, records,
      process, working, budgets
<1>13. ASSUME CommitRestoreFails
       PROVE  Founded'
  BY <1>13
  DEF Founded, HasFiles, CommitRestoreFails, At, Committed, GoTo, Stop, Fault, files,
      rows, records, process, working, budgets
<1>14. ASSUME RolledBack
       PROVE  Founded'
  BY <1>14
  DEF Founded, HasFiles, RolledBack, At, GoTo, Abandon, Stop, files, rows, records,
      process, working, budgets
<1>15. ASSUME Cleared
       PROVE  Founded'
  BY <1>15
  DEF Founded, HasFiles, Cleared, At, Stop, files, rows, records, process, working,
      budgets
<1>16. ASSUME ClearFails
       PROVE  Founded'
  BY <1>16
  DEF Founded, HasFiles, ClearFails, At, Abandon, Stop, Fault, files, rows, records,
      process, working, budgets
<1>17. ASSUME NEW q \in pending, ReconcileEdit(q)
       PROVE  Founded'
  <2>1. CASE Record(q)
    <3>1. saved' = saved \cup {q}
      BY <2>1 DEF Record
    <3>2. \A c \in ChangeSets : c # q.owner => recorded'[c] = recorded[c]
      BY <2>1 DEF Record, TypeOK
    <3> QED
      BY <3>1, <3>2 DEF Founded, HasFiles
  <2>2. CASE UNCHANGED records
    BY <2>2 DEF Founded, HasFiles, records
  <2> QED
    BY <1>17, <2>1, <2>2 DEF ReconcileEdit
<1>18. ASSUME NEW q \in pending, EditConflicts(q)
       PROVE  Founded'
  BY <1>18
  DEF Founded, HasFiles, EditConflicts, EditIntents, Settles, Abandon, Stop, files,
      rows, records, process, working, budgets
<1>19. ASSUME NEW c \in ChangeSets, Settle(c)
       PROVE  Founded'
  BY <1>19
  DEF Founded, HasFiles, Settle, Of, EditIntents, Stop, files, rows, records, process,
      working, budgets
<1>20. ASSUME NEW c \in ChangeSets, SettleFails(c)
       PROVE  Founded'
  BY <1>20
  DEF Founded, HasFiles, SettleFails, Of, Abandon, Stop, Fault, files, rows, records,
      process, working, budgets
<1>21. ASSUME NEW c \in ChangeSets, SealOrphan(c)
       PROVE  Founded'
  BY <1>21
  DEF Founded, HasFiles, SealOrphan, files, rows, records, process, working, budgets
<1>22. ASSUME NEW c \in ChangeSets, NEW kind \in {"undo", "redo"}, ReconcileOperation(c, kind)
       PROVE  Founded'
  BY <1>22
  DEF Founded, HasFiles, ReconcileOperation, Reconciling, Group, files, rows, records,
      process, working, budgets
<1>23. ASSUME NEW c \in ChangeSets, NEW kind \in {"undo", "redo"}, OperationConflicts(c, kind)
       PROVE  Founded'
  BY <1>23
  DEF Founded, HasFiles, OperationConflicts, Reconciling, Abandon, Stop, files, rows,
      records, process, working, budgets
<1>24. ASSUME Activate
       PROVE  Founded'
  BY <1>24
  DEF Founded, HasFiles, Activate, files, rows, records, process, working, budgets
<1>25. ASSUME NEW c \in ChangeSets, OpenChangeSet(c)
       PROVE  Founded'
  BY <1>25
  DEF Founded, HasFiles, OpenChangeSet, Idle, files, rows, records, process, working,
      budgets
<1>26. ASSUME NEW c \in ChangeSets, RecordExecute(c)
       PROVE  Founded'
  BY <1>26
  DEF Founded, HasFiles, RecordExecute, Idle, files, rows, records, process, working,
      budgets
<1>27. ASSUME NEW c \in ChangeSets, NEW p \in Paths, NEW content \in Contents, BeginEdit(c, p, content)
       PROVE  Founded'
  BY <1>27
  DEF Founded, HasFiles, BeginEdit, Idle, Begin, files, rows, records, process, working,
      budgets
<1>28. ASSUME NEW c \in ChangeSets, NEW kind \in {"undo", "redo"}, BeginRestore(c, kind)
       PROVE  Founded'
  BY <1>28
  DEF Founded, HasFiles, BeginRestore, Idle, Begin, Restores, files, rows, records,
      process, working, budgets
<1>29. ASSUME NEW c \in ChangeSets, NEW what \in {"seal", "discard"}, BeginSeal(c, what)
       PROVE  Founded'
  BY <1>29
  DEF Founded, HasFiles, BeginSeal, Idle, Begin, Of, files, rows, records, process,
      working, budgets
<1>30. ASSUME NEW p \in Paths, NEW content \in Contents, External(p, content)
       PROVE  Founded'
  BY <1>30
  DEF Founded, HasFiles, External, Put, PathsOf, files, rows, records, process, working,
      budgets
<1>31. ASSUME Crash
       PROVE  Founded'
  BY <1>31
  DEF Founded, HasFiles, Crash, Stop, files, rows, records, process, working, budgets
<1>32. ASSUME Restart
       PROVE  Founded'
  BY <1>32
  DEF Founded, HasFiles, Restart, files, rows, records, process, working, budgets
<1>33. ASSUME UNCHANGED vars
       PROVE  Founded'
  BY <1>33
  DEF Founded, HasFiles, vars, files, rows, records, process, working, budgets
<1> QED
  BY <1>1, <1>2, <1>3, <1>4, <1>5, <1>6, <1>7, <1>8, <1>9, <1>10, <1>11, <1>12, <1>13,
     <1>14, <1>15, <1>16, <1>17, <1>18, <1>19, <1>20, <1>21, <1>22, <1>23, <1>24, <1>25,
     <1>26, <1>27, <1>28, <1>29, <1>30, <1>31, <1>32, <1>33
  DEF Next, JobStep

\* Evidence is removed only where the disk agrees with the record.
LEMMA FinishedStep ==
    ASSUME TypeOK, Shaped, Meant, Wrote, Finished, [Next]_vars
    PROVE  Finished'
<1>1. ASSUME NEW q \in prepared, SaveIntent(q)
       PROVE  Finished'
  BY <1>1
  DEF Finished, Shaped, SaveIntent, At, GoTo, files, rows, records, process, working,
      budgets
<1>2. ASSUME NEW q \in prepared, SaveIntentFails(q)
       PROVE  Finished'
  BY <1>2
  DEF Finished, Shaped, SaveIntentFails, At, GoTo, Stop, Fault, files, rows, records,
      process, working, budgets
<1>3. ASSUME NEW q \in prepared, Effect(q)
       PROVE  Finished'
  BY <1>3
  DEF Finished, Shaped, Effect, At, Unwritten, Write, Put, PathsOf, files, rows,
      records, process, working, budgets
<1>4. ASSUME NEW q \in prepared, EffectRefused(q)
       PROVE  Finished'
  BY <1>4
  DEF Finished, Shaped, EffectRefused, At, Unwritten, GoTo, files, rows, records,
      process, working, budgets
<1>5. ASSUME NEW q \in prepared, EffectFails(q)
       PROVE  Finished'
  BY <1>5
  DEF Finished, Shaped, EffectFails, At, Unwritten, Put, GoTo, Stop, Fault, files, rows,
      records, process, working, budgets
<1>6. ASSUME NEW q \in prepared, Withdraw(q)
       PROVE  Finished'
  BY <1>6
  DEF Finished, Shaped, Withdraw, At, Stop, Fault, files, rows, records, process,
      working, budgets
<1>7. ASSUME NEW q \in prepared, RecordEdit(q)
       PROVE  Finished'
  <2>1. CASE Record(q) /\ disk[q.path] = q.to
    <3>1. q \in Intents /\ lifecycle[q.owner] = "open" /\ \A r \in prepared : r = q
      BY <1>7 DEF RecordEdit, At, Shaped, TypeOK
    <3>2. Truth(q.owner, q.path)' = q.to /\ q \in saved'
      BY <1>7, <2>1, <3>1, RecordTells DEF RecordEdit
    <3>3. UNCHANGED <<files, prepared>>
      BY <1>7, <2>1 DEF RecordEdit, GoTo, At
    <3> QED
      BY <2>1, <3>1, <3>2, <3>3 DEF Finished, files
  <2>2. CASE step' = "idle"
    BY <2>2 DEF Finished
  <2> QED
    BY <1>7, <2>1, <2>2 DEF RecordEdit, GoTo, Stop
<1>8. ASSUME NEW q \in prepared, RecordEditFails(q)
       PROVE  Finished'
  BY <1>8
  DEF Finished, Shaped, RecordEditFails, At, Record, Stop, Fault, files, rows, records,
      process, working, budgets
<1>9. ASSUME NEW q \in prepared, RollBack(q)
       PROVE  Finished'
  BY <1>9
  DEF Finished, Shaped, RollBack, At, Put, Abandon, Stop, files, rows, records, process,
      working, budgets
<1>10. ASSUME NEW q \in prepared, RollBackFails(q)
       PROVE  Finished'
  BY <1>10
  DEF Finished, Shaped, RollBackFails, At, Put, Abandon, Stop, Fault, files, rows,
      records, process, working, budgets
<1>11. ASSUME NEW q \in prepared, ClearIntent(q)
       PROVE  Finished'
  <2>1. UNCHANGED <<files, lifecycle, records, prepared, job, step>>
    BY <1>11 DEF ClearIntent, rows, working
  <2>2. \A r \in prepared : Truth(r.owner, r.path)' = Truth(r.owner, r.path)
    BY <2>1 DEF Truth, records
  <2> QED
    BY <2>1, <2>2 DEF Finished, files, records
<1>12. ASSUME CommitRestore
       PROVE  Finished'
  <2>1. /\ step = "record" /\ job \in {"undo", "redo"} /\ step' = "clear"
        /\ UNCHANGED <<files, records, prepared, job>>
        /\ lifecycle' = [lifecycle EXCEPT ![subject] = Committed(job)]
    BY <1>12 DEF CommitRestore, At, GoTo
  <2>2. ASSUME NEW q \in prepared, writer[q.path] = q.owner
        PROVE  disk[q.path] = Truth(q.owner, q.path)'
    <3>1. disk[q.path] = q.to /\ q \in Live
      BY <2>1, <2>2 DEF Wrote, Live
    <3>2. q.owner = subject /\ q.kind = job /\ subject \in ChangeSets
      BY <2>1 DEF Shaped
    <3>3. RestoreMeant(q)
      BY <2>1, <3>1, <3>2 DEF Meant
    <3>4. lifecycle'[subject] = Committed(job)
      BY <2>1, <3>2 DEF TypeOK
    <3> QED
      BY <2>1, <3>1, <3>2, <3>3, <3>4 DEF RestoreMeant, Truth, Committed, records
  <2> QED
    BY <2>1, <2>2 DEF Finished, files
<1>13. ASSUME CommitRestoreFails
       PROVE  Finished'
  BY <1>13
  DEF Finished, Shaped, CommitRestoreFails, At, Committed, GoTo, Stop, Fault, files,
      rows, records, process, working, budgets
<1>14. ASSUME RolledBack
       PROVE  Finished'
  <2>1. CASE step' = "clear"
    <3>1. /\ step = "rollback" /\ \A q \in prepared : disk[q.path] = q.from
          /\ UNCHANGED <<files, lifecycle, records, prepared, job>>
      BY <1>14, <2>1 DEF RolledBack, At, GoTo, Abandon, Stop, rows
    <3>2. ASSUME NEW q \in prepared
          PROVE  disk[q.path] = Truth(q.owner, q.path)
      <4>1. /\ q \in Live /\ q.kind \in {"undo", "redo"}
            /\ lifecycle[q.owner] = Source(q.kind)
        BY <3>1 DEF Live, Shaped
      <4>2. RestoreMeant(q)
        BY <4>1 DEF Meant
      <4> QED
        BY <3>1, <4>1, <4>2 DEF RestoreMeant, Source, Truth
    <3>3. \A q \in prepared : Truth(q.owner, q.path)' = Truth(q.owner, q.path)
      BY <3>1 DEF Truth, records
    <3>4. job \in {"undo", "redo"}
      BY <3>1 DEF Shaped
    <3> QED
      BY <3>1, <3>2, <3>3, <3>4 DEF Finished, files
  <2> QED
    BY <2>1 DEF Finished
<1>15. ASSUME Cleared
       PROVE  Finished'
  BY <1>15
  DEF Finished, Shaped, Cleared, At, Stop, files, rows, records, process, working,
      budgets
<1>16. ASSUME ClearFails
       PROVE  Finished'
  BY <1>16
  DEF Finished, Shaped, ClearFails, At, Abandon, Stop, Fault, files, rows, records,
      process, working, budgets
<1>17. ASSUME NEW q \in pending, ReconcileEdit(q)
       PROVE  Finished'
  BY <1>17
  DEF Finished, Shaped, ReconcileEdit, EditIntents, Settles, Resolvable, Record, files,
      rows, records, process, working, budgets
<1>18. ASSUME NEW q \in pending, EditConflicts(q)
       PROVE  Finished'
  BY <1>18
  DEF Finished, Shaped, EditConflicts, EditIntents, Settles, Abandon, Stop, files, rows,
      records, process, working, budgets
<1>19. ASSUME NEW c \in ChangeSets, Settle(c)
       PROVE  Finished'
  BY <1>19
  DEF Finished, Shaped, Settle, Of, EditIntents, Stop, files, rows, records, process,
      working, budgets
<1>20. ASSUME NEW c \in ChangeSets, SettleFails(c)
       PROVE  Finished'
  BY <1>20
  DEF Finished, Shaped, SettleFails, Of, Abandon, Stop, Fault, files, rows, records,
      process, working, budgets
<1>21. ASSUME NEW c \in ChangeSets, SealOrphan(c)
       PROVE  Finished'
  BY <1>21
  DEF Finished, Shaped, SealOrphan, files, rows, records, process, working, budgets
<1>22. ASSUME NEW c \in ChangeSets, NEW kind \in {"undo", "redo"}, ReconcileOperation(c, kind)
       PROVE  Finished'
  <2>1. CASE lifecycle[c] = Committed(kind)
    <3>1. /\ job' = kind /\ prepared' = Group(c, kind) /\ UNCHANGED <<files, lifecycle, records>>
      BY <1>22 DEF ReconcileOperation, rows
    <3>2. ASSUME NEW q \in Group(c, kind)
          PROVE  disk[q.path] = Truth(q.owner, q.path)
      <4>1. q \in Live /\ q.owner = c /\ q.kind = kind
        BY PendingLive DEF Group
      <4>2. disk[q.path] = q.to /\ RestoreMeant(q)
        BY <1>22, <2>1, <4>1 DEF ReconcileOperation, Explained, Source, Committed, Meant
      <4> QED
        BY <2>1, <4>1, <4>2 DEF RestoreMeant, Committed, Truth
    <3>3. \A q \in Group(c, kind) : Truth(q.owner, q.path)' = Truth(q.owner, q.path)
      BY <3>1 DEF Truth, records
    <3> QED
      BY <3>1, <3>2, <3>3 DEF Finished, files
  <2> QED
    BY <1>22, <2>1 DEF ReconcileOperation, Finished
<1>23. ASSUME NEW c \in ChangeSets, NEW kind \in {"undo", "redo"}, OperationConflicts(c, kind)
       PROVE  Finished'
  BY <1>23
  DEF Finished, Shaped, OperationConflicts, Reconciling, Abandon, Stop, files, rows,
      records, process, working, budgets
<1>24. ASSUME Activate
       PROVE  Finished'
  BY <1>24
  DEF Finished, Shaped, Activate, files, rows, records, process, working, budgets
<1>25. ASSUME NEW c \in ChangeSets, OpenChangeSet(c)
       PROVE  Finished'
  BY <1>25
  DEF Finished, Shaped, OpenChangeSet, Idle, files, rows, records, process, working,
      budgets
<1>26. ASSUME NEW c \in ChangeSets, RecordExecute(c)
       PROVE  Finished'
  <2>1. UNCHANGED <<files, lifecycle, records, prepared, job, step>>
    BY <1>26 DEF RecordExecute, rows, working
  <2>2. \A r \in prepared : Truth(r.owner, r.path)' = Truth(r.owner, r.path)
    BY <2>1 DEF Truth, records
  <2> QED
    BY <2>1, <2>2 DEF Finished, files, records
<1>27. ASSUME NEW c \in ChangeSets, NEW p \in Paths, NEW content \in Contents, BeginEdit(c, p, content)
       PROVE  Finished'
  BY <1>27
  DEF Finished, Shaped, BeginEdit, Idle, Begin, files, rows, records, process, working,
      budgets
<1>28. ASSUME NEW c \in ChangeSets, NEW kind \in {"undo", "redo"}, BeginRestore(c, kind)
       PROVE  Finished'
  BY <1>28
  DEF Finished, Shaped, BeginRestore, Idle, Begin, Restores, files, rows, records,
      process, working, budgets
<1>29. ASSUME NEW c \in ChangeSets, NEW what \in {"seal", "discard"}, BeginSeal(c, what)
       PROVE  Finished'
  BY <1>29
  DEF Finished, Shaped, BeginSeal, Idle, Begin, Of, files, rows, records, process,
      working, budgets
<1>30. ASSUME NEW p \in Paths, NEW content \in Contents, External(p, content)
       PROVE  Finished'
  <2>1. UNCHANGED <<step, prepared, job, lifecycle, records>>
    BY <1>30 DEF External, rows
  <2>2. \A r \in prepared : writer'[r.path] = r.owner =>
           writer[r.path] = r.owner /\ disk'[r.path] = disk[r.path]
    BY <1>30 DEF External, Put, TypeOK, Intents
  <2>3. \A r \in prepared : Truth(r.owner, r.path)' = Truth(r.owner, r.path)
    BY <2>1 DEF Truth, records
  <2> QED
    BY <2>1, <2>2, <2>3 DEF Finished, records
<1>31. ASSUME Crash
       PROVE  Finished'
  BY <1>31
  DEF Finished, Shaped, Crash, Stop, files, rows, records, process, working, budgets
<1>32. ASSUME Restart
       PROVE  Finished'
  <2>1. UNCHANGED <<files, lifecycle, records, prepared, job, step>>
    BY <1>32 DEF Restart, rows, working
  <2>2. \A r \in prepared : Truth(r.owner, r.path)' = Truth(r.owner, r.path)
    BY <2>1 DEF Truth, records
  <2> QED
    BY <2>1, <2>2 DEF Finished, files, records
<1>33. ASSUME UNCHANGED vars
       PROVE  Finished'
  <2>1. UNCHANGED <<files, lifecycle, records, prepared, job, step>>
    BY <1>33 DEF vars, rows, working
  <2>2. \A r \in prepared : Truth(r.owner, r.path)' = Truth(r.owner, r.path)
    BY <2>1 DEF Truth, records
  <2> QED
    BY <2>1, <2>2 DEF Finished, files, records
<1> QED
  BY <1>1, <1>2, <1>3, <1>4, <1>5, <1>6, <1>7, <1>8, <1>9, <1>10, <1>11, <1>12, <1>13,
     <1>14, <1>15, <1>16, <1>17, <1>18, <1>19, <1>20, <1>21, <1>22, <1>23, <1>24, <1>25,
     <1>26, <1>27, <1>28, <1>29, <1>30, <1>31, <1>32, <1>33
  DEF Next, JobStep

\* Nothing is written and no evidence removed.
LEMMA ToldFrame ==
    ASSUME Told, UNCHANGED <<files, records>>, pending \subseteq pending',
           \A c \in ChangeSets : lifecycle'[c] = "undone" <=> lifecycle[c] = "undone"
    PROVE  Told'
<1>1. \A c \in ChangeSets, p \in Paths : Truth(c, p)' = Truth(c, p)
  BY DEF Truth, records
<1> QED
  BY <1>1 DEF Told, files

\* One path is written, by the user or with evidence.
LEMMA ToldPut ==
    ASSUME TypeOK, Told, UNCHANGED <<lifecycle, records, pending>>,
           NEW p \in Paths, NEW content, NEW who, Put(p, content, who),
           who = Nobody \/ \E q \in pending : q.owner = who /\ q.path = p
    PROVE  Told'
<1>1. \A c \in ChangeSets, x \in Paths : Truth(c, x)' = Truth(c, x)
  BY DEF Truth, records
<1>2. writer'[p] = who /\ \A x : x # p => disk'[x] = disk[x] /\ writer'[x] = writer[x]
  BY DEF Put, TypeOK
<1> QED
  BY <1>1, <1>2 DEF Told

\* Evidence is removed of a path that is as recorded.
LEMMA ToldDrop ==
    ASSUME Told, UNCHANGED <<files, lifecycle, records>>, NEW q, pending' = pending \ {q},
           writer[q.path] = q.owner => disk[q.path] = Truth(q.owner, q.path)
    PROVE  Told'
<1>1. \A c \in ChangeSets, p \in Paths : Truth(c, p)' = Truth(c, p)
  BY DEF Truth, records
<1> QED
  BY <1>1 DEF Told, files

\* A change that is still pending is merged into the record.
LEMMA ToldRecord ==
    ASSUME TypeOK, Told, UNCHANGED <<files, lifecycle, pending>>,
           NEW q \in Intents, q \in pending, Record(q), lifecycle[q.owner] # "undone"
    PROVE  Told'
<1>1. \A c \in ChangeSets, p \in Paths :
         c # q.owner \/ p # q.path => Truth(c, p)' = Truth(c, p)
  BY RecordTells
<1> QED
  BY <1>1 DEF Told, files

\* Saved changes stay saved, and nothing is written.
LEMMA OwnedFrame ==
    ASSUME Owned, UNCHANGED files, saved \subseteq saved', pending \subseteq pending'
    PROVE  Owned'
  BY DEF Owned, HasFiles, files

\* One path is written, by the user, by a recorded ChangeSet or by a pending edit.
LEMMA OwnedPut ==
    ASSUME TypeOK, Owned, UNCHANGED <<saved, pending>>,
           NEW p \in Paths, NEW content, NEW who, Put(p, content, who),
           \/ who = Nobody \/ HasFiles(who)
           \/ \E q \in pending : q.kind = "edit" /\ q.owner = who /\ q.path = p /\ q.to = content
    PROVE  Owned'
<1>1. /\ writer'[p] = who /\ disk'[p] = content
      /\ \A x : x # p => disk'[x] = disk[x] /\ writer'[x] = writer[x]
  BY DEF Put, TypeOK
<1> QED
  BY <1>1 DEF Owned, HasFiles

\* Evidence is removed that no unrecorded write needs.
LEMMA OwnedDrop ==
    ASSUME Owned, UNCHANGED <<files, saved>>, NEW q, pending' = pending \ {q},
           q.kind # "edit" \/ HasFiles(q.owner) \/ writer[q.path] # q.owner \/ disk[q.path] # q.to
    PROVE  Owned'
  BY DEF Owned, HasFiles, files

\* A path is as its record says, or its change is pending.
LEMMA ToldStep ==
    ASSUME TypeOK, Evidence, Shaped, Meant, Replaced, Finished, Told, [Next]_vars
    PROVE  Told'
<1>1. ASSUME NEW q \in prepared, SaveIntent(q)
       PROVE  Told'
  <2>1. /\ UNCHANGED <<files, records>> /\ pending \subseteq pending'
        /\ \A x \in ChangeSets : lifecycle'[x] = "undone" <=> lifecycle[x] = "undone"
    BY <1>1 DEF SaveIntent, rows
  <2> QED
    BY <2>1, ToldFrame
<1>2. ASSUME NEW q \in prepared, SaveIntentFails(q)
       PROVE  Told'
  <2>1. /\ UNCHANGED <<files, records>> /\ pending \subseteq pending'
        /\ \A x \in ChangeSets : lifecycle'[x] = "undone" <=> lifecycle[x] = "undone"
    BY <1>2 DEF SaveIntentFails, rows
  <2> QED
    BY <2>1, ToldFrame
<1>3. ASSUME NEW q \in prepared, Effect(q)
       PROVE  Told'
  <2>1. UNCHANGED <<lifecycle, records, pending>> /\ (Put(q.path, q.to, q.owner) \/ UNCHANGED files)
    BY <1>3 DEF Effect, Write, rows
  <2>2. q \in pending /\ q.path \in Paths /\ q.owner \in ChangeSets
    BY <1>3, IntentTyped DEF Effect, Unwritten, At, Evidence
  <2> QED
    BY <2>1, <2>2, ToldPut, ToldFrame
<1>4. ASSUME NEW q \in prepared, EffectRefused(q)
       PROVE  Told'
  <2>1. /\ UNCHANGED <<files, records>> /\ pending \subseteq pending'
        /\ \A x \in ChangeSets : lifecycle'[x] = "undone" <=> lifecycle[x] = "undone"
    BY <1>4 DEF EffectRefused, rows
  <2> QED
    BY <2>1, ToldFrame
<1>5. ASSUME NEW q \in prepared, EffectFails(q)
       PROVE  Told'
  <2>1. UNCHANGED <<lifecycle, records, pending>> /\ (Put(q.path, q.to, q.owner) \/ UNCHANGED files)
    BY <1>5 DEF EffectFails, Write, rows
  <2>2. q \in pending /\ q.path \in Paths /\ q.owner \in ChangeSets
    BY <1>5, IntentTyped DEF EffectFails, Unwritten, At, Evidence
  <2> QED
    BY <2>1, <2>2, ToldPut, ToldFrame
<1>6. ASSUME NEW q \in prepared, Withdraw(q)
       PROVE  Told'
  <2>1. UNCHANGED <<files, lifecycle, records>> /\ pending' \in {pending, pending \ {q}}
    BY <1>6 DEF Withdraw
  <2>2. writer[q.path] # q.owner
    BY <1>6, IntentTyped DEF Withdraw, At, Replaced
  <2> QED
    BY <2>1, <2>2, ToldDrop, ToldFrame
<1>7. ASSUME NEW q \in prepared, RecordEdit(q)
       PROVE  Told'
  <2>1. /\ UNCHANGED <<files, lifecycle, pending>> /\ (Record(q) \/ UNCHANGED records)
    BY <1>7 DEF RecordEdit
  <2>2. q \in pending /\ q \in Intents /\ lifecycle[q.owner] = "open"
    BY <1>7 DEF RecordEdit, At, Evidence, Shaped, TypeOK
  <2> QED
    BY <2>1, <2>2, ToldRecord, ToldFrame
<1>8. ASSUME NEW q \in prepared, RecordEditFails(q)
       PROVE  Told'
  <2>1. /\ UNCHANGED <<files, lifecycle, pending>> /\ (Record(q) \/ UNCHANGED records)
    BY <1>8 DEF RecordEditFails
  <2>2. q \in pending /\ q \in Intents /\ lifecycle[q.owner] = "open"
    BY <1>8 DEF RecordEditFails, At, Evidence, Shaped, TypeOK
  <2> QED
    BY <2>1, <2>2, ToldRecord, ToldFrame
<1>9. ASSUME NEW q \in prepared, RollBack(q)
       PROVE  Told'
  <2>1. UNCHANGED <<lifecycle, records, pending>> /\ (Put(q.path, q.from, q.owner) \/ UNCHANGED files)
    BY <1>9 DEF RollBack, Write, rows
  <2>2. q \in pending /\ q.path \in Paths /\ q.owner \in ChangeSets
    BY <1>9, IntentTyped DEF RollBack, Unwritten, At, Evidence
  <2> QED
    BY <2>1, <2>2, ToldPut, ToldFrame
<1>10. ASSUME NEW q \in prepared, RollBackFails(q)
       PROVE  Told'
  <2>1. UNCHANGED <<lifecycle, records, pending>> /\ (Put(q.path, q.from, q.owner) \/ UNCHANGED files)
    BY <1>10 DEF RollBackFails, Write, rows
  <2>2. q \in pending /\ q.path \in Paths /\ q.owner \in ChangeSets
    BY <1>10, IntentTyped DEF RollBackFails, Unwritten, At, Evidence
  <2> QED
    BY <2>1, <2>2, ToldPut, ToldFrame
<1>11. ASSUME NEW q \in prepared, ClearIntent(q)
       PROVE  Told'
  <2>1. UNCHANGED <<files, lifecycle, records>> /\ pending' = pending \ {q}
    BY <1>11 DEF ClearIntent
  <2>2. writer[q.path] = q.owner => disk[q.path] = Truth(q.owner, q.path)
    BY <1>11 DEF ClearIntent, At, Finished
  <2> QED
    BY <2>1, <2>2, ToldDrop
<1>12. ASSUME CommitRestore
       PROVE  Told'
  <2>1. /\ step = "record" /\ job \in {"undo", "redo"} /\ UNCHANGED <<files, records, pending>>
        /\ \/ lifecycle' = [lifecycle EXCEPT ![subject] = Committed(job)]
           \/ UNCHANGED lifecycle
    BY <1>12 DEF CommitRestore, At
  <2>2. SUFFICES ASSUME NEW p \in Paths, NEW c \in ChangeSets, writer[p] = c,
                        \A q \in pending : q.owner # c \/ q.path # p
                 PROVE  disk[p] = Truth(c, p)'
    BY <2>1 DEF Told, files
  <2>3. disk[p] = Truth(c, p)
    BY <2>2 DEF Told
  <2>4. CASE c = subject
    <3>1. p \notin recorded[c]
      BY <2>1, <2>2, <2>4 DEF Shaped, Evidence
    <3> QED
      BY <2>1, <2>3, <3>1 DEF Truth, records
  <2>5. CASE c # subject
    BY <2>1, <2>3, <2>5 DEF Truth, records, TypeOK
  <2> QED
    BY <2>4, <2>5
<1>13. ASSUME CommitRestoreFails
       PROVE  Told'
  <2>1. /\ step = "record" /\ job \in {"undo", "redo"} /\ UNCHANGED <<files, records, pending>>
        /\ \/ lifecycle' = [lifecycle EXCEPT ![subject] = Committed(job)]
           \/ UNCHANGED lifecycle
    BY <1>13 DEF CommitRestoreFails, At
  <2>2. SUFFICES ASSUME NEW p \in Paths, NEW c \in ChangeSets, writer[p] = c,
                        \A q \in pending : q.owner # c \/ q.path # p
                 PROVE  disk[p] = Truth(c, p)'
    BY <2>1 DEF Told, files
  <2>3. disk[p] = Truth(c, p)
    BY <2>2 DEF Told
  <2>4. CASE c = subject
    <3>1. p \notin recorded[c]
      BY <2>1, <2>2, <2>4 DEF Shaped, Evidence
    <3> QED
      BY <2>1, <2>3, <3>1 DEF Truth, records
  <2>5. CASE c # subject
    BY <2>1, <2>3, <2>5 DEF Truth, records, TypeOK
  <2> QED
    BY <2>4, <2>5
<1>14. ASSUME RolledBack
       PROVE  Told'
  <2>1. /\ UNCHANGED <<files, records>> /\ pending \subseteq pending'
        /\ \A x \in ChangeSets : lifecycle'[x] = "undone" <=> lifecycle[x] = "undone"
    BY <1>14 DEF RolledBack, rows, process
  <2> QED
    BY <2>1, ToldFrame
<1>15. ASSUME Cleared
       PROVE  Told'
  <2>1. /\ UNCHANGED <<files, records>> /\ pending \subseteq pending'
        /\ \A x \in ChangeSets : lifecycle'[x] = "undone" <=> lifecycle[x] = "undone"
    BY <1>15 DEF Cleared, rows
  <2> QED
    BY <2>1, ToldFrame
<1>16. ASSUME ClearFails
       PROVE  Told'
  <2>1. /\ UNCHANGED <<files, records>> /\ pending \subseteq pending'
        /\ \A x \in ChangeSets : lifecycle'[x] = "undone" <=> lifecycle[x] = "undone"
    BY <1>16 DEF ClearFails, rows
  <2> QED
    BY <2>1, ToldFrame
<1>17. ASSUME NEW q \in pending, ReconcileEdit(q)
       PROVE  Told'
  <2>1. UNCHANGED <<files, lifecycle>>
    BY <1>17 DEF ReconcileEdit
  <2>2. q \in Intents /\ q.kind = "edit" /\ EditMeant(q)
    BY <1>17, PendingLive DEF ReconcileEdit, EditIntents, TypeOK, Meant
  <2>3. CASE pending' = pending \ {q} /\ UNCHANGED records /\ (q \in saved \/ disk[q.path] = q.from)
    <3>1. writer[q.path] = q.owner => disk[q.path] = Truth(q.owner, q.path)
      BY <2>2, <2>3 DEF EditMeant
    <3> QED
      BY <2>1, <2>3, <3>1, ToldDrop
  <2>4. CASE Record(q) /\ UNCHANGED pending
    BY <2>1, <2>2, <2>4, ToldRecord DEF EditMeant
  <2> QED
    BY <1>17, <2>3, <2>4 DEF ReconcileEdit
<1>18. ASSUME NEW q \in pending, EditConflicts(q)
       PROVE  Told'
  <2>1. /\ UNCHANGED <<files, records>> /\ pending \subseteq pending'
        /\ \A x \in ChangeSets : lifecycle'[x] = "undone" <=> lifecycle[x] = "undone"
    BY <1>18 DEF EditConflicts, rows
  <2> QED
    BY <2>1, ToldFrame
<1>19. ASSUME NEW c \in ChangeSets, Settle(c)
       PROVE  Told'
  <2>1. /\ UNCHANGED <<files, records>> /\ pending \subseteq pending'
        /\ \A x \in ChangeSets : lifecycle'[x] = "undone" <=> lifecycle[x] = "undone"
    BY <1>19 DEF Settle, rows, Shaped, TypeOK
  <2> QED
    BY <2>1, ToldFrame
<1>20. ASSUME NEW c \in ChangeSets, SettleFails(c)
       PROVE  Told'
  <2>1. /\ UNCHANGED <<files, records>> /\ pending \subseteq pending'
        /\ \A x \in ChangeSets : lifecycle'[x] = "undone" <=> lifecycle[x] = "undone"
    BY <1>20 DEF SettleFails, rows, Shaped, TypeOK
  <2> QED
    BY <2>1, ToldFrame
<1>21. ASSUME NEW c \in ChangeSets, SealOrphan(c)
       PROVE  Told'
  <2>1. /\ UNCHANGED <<files, records>> /\ pending \subseteq pending'
        /\ \A x \in ChangeSets : lifecycle'[x] = "undone" <=> lifecycle[x] = "undone"
    BY <1>21 DEF SealOrphan, rows, TypeOK
  <2> QED
    BY <2>1, ToldFrame
<1>22. ASSUME NEW c \in ChangeSets, NEW kind \in {"undo", "redo"}, ReconcileOperation(c, kind)
       PROVE  Told'
  <2>1. /\ UNCHANGED <<files, records>> /\ pending \subseteq pending'
        /\ \A x \in ChangeSets : lifecycle'[x] = "undone" <=> lifecycle[x] = "undone"
    BY <1>22 DEF ReconcileOperation, rows
  <2> QED
    BY <2>1, ToldFrame
<1>23. ASSUME NEW c \in ChangeSets, NEW kind \in {"undo", "redo"}, OperationConflicts(c, kind)
       PROVE  Told'
  <2>1. /\ UNCHANGED <<files, records>> /\ pending \subseteq pending'
        /\ \A x \in ChangeSets : lifecycle'[x] = "undone" <=> lifecycle[x] = "undone"
    BY <1>23 DEF OperationConflicts, rows
  <2> QED
    BY <2>1, ToldFrame
<1>24. ASSUME Activate
       PROVE  Told'
  <2>1. /\ UNCHANGED <<files, records>> /\ pending \subseteq pending'
        /\ \A x \in ChangeSets : lifecycle'[x] = "undone" <=> lifecycle[x] = "undone"
    BY <1>24 DEF Activate, rows
  <2> QED
    BY <2>1, ToldFrame
<1>25. ASSUME NEW c \in ChangeSets, OpenChangeSet(c)
       PROVE  Told'
  <2>1. /\ UNCHANGED <<files, records>> /\ pending \subseteq pending'
        /\ \A x \in ChangeSets : lifecycle'[x] = "undone" <=> lifecycle[x] = "undone"
    BY <1>25 DEF OpenChangeSet, rows, TypeOK
  <2> QED
    BY <2>1, ToldFrame
<1>26. ASSUME NEW c \in ChangeSets, RecordExecute(c)
       PROVE  Told'
  <2>1. /\ UNCHANGED <<files, records>> /\ pending \subseteq pending'
        /\ \A x \in ChangeSets : lifecycle'[x] = "undone" <=> lifecycle[x] = "undone"
    BY <1>26 DEF RecordExecute, rows
  <2> QED
    BY <2>1, ToldFrame
<1>27. ASSUME NEW c \in ChangeSets, NEW p \in Paths, NEW content \in Contents, BeginEdit(c, p, content)
       PROVE  Told'
  <2>1. /\ UNCHANGED <<files, records>> /\ pending \subseteq pending'
        /\ \A x \in ChangeSets : lifecycle'[x] = "undone" <=> lifecycle[x] = "undone"
    BY <1>27 DEF BeginEdit, rows
  <2> QED
    BY <2>1, ToldFrame
<1>28. ASSUME NEW c \in ChangeSets, NEW kind \in {"undo", "redo"}, BeginRestore(c, kind)
       PROVE  Told'
  <2>1. /\ UNCHANGED <<files, records>> /\ pending \subseteq pending'
        /\ \A x \in ChangeSets : lifecycle'[x] = "undone" <=> lifecycle[x] = "undone"
    BY <1>28 DEF BeginRestore, rows
  <2> QED
    BY <2>1, ToldFrame
<1>29. ASSUME NEW c \in ChangeSets, NEW what \in {"seal", "discard"}, BeginSeal(c, what)
       PROVE  Told'
  <2>1. /\ UNCHANGED <<files, records>> /\ pending \subseteq pending'
        /\ \A x \in ChangeSets : lifecycle'[x] = "undone" <=> lifecycle[x] = "undone"
    BY <1>29 DEF BeginSeal, rows
  <2> QED
    BY <2>1, ToldFrame
<1>30. ASSUME NEW p \in Paths, NEW content \in Contents, External(p, content)
       PROVE  Told'
  <2>1. UNCHANGED <<lifecycle, records, pending>> /\ Put(p, content, Nobody)
    BY <1>30 DEF External, rows
  <2> QED
    BY <2>1, ToldPut
<1>31. ASSUME Crash
       PROVE  Told'
  <2>1. /\ UNCHANGED <<files, records>> /\ pending \subseteq pending'
        /\ \A x \in ChangeSets : lifecycle'[x] = "undone" <=> lifecycle[x] = "undone"
    BY <1>31 DEF Crash, rows
  <2> QED
    BY <2>1, ToldFrame
<1>32. ASSUME Restart
       PROVE  Told'
  <2>1. /\ UNCHANGED <<files, records>> /\ pending \subseteq pending'
        /\ \A x \in ChangeSets : lifecycle'[x] = "undone" <=> lifecycle[x] = "undone"
    BY <1>32 DEF Restart, rows
  <2> QED
    BY <2>1, ToldFrame
<1>33. ASSUME UNCHANGED vars
       PROVE  Told'
  <2>1. /\ UNCHANGED <<files, records>> /\ pending \subseteq pending'
        /\ \A x \in ChangeSets : lifecycle'[x] = "undone" <=> lifecycle[x] = "undone"
    BY <1>33 DEF vars, rows
  <2> QED
    BY <2>1, ToldFrame
<1> QED
  BY <1>1, <1>2, <1>3, <1>4, <1>5, <1>6, <1>7, <1>8, <1>9, <1>10, <1>11, <1>12, <1>13,
     <1>14, <1>15, <1>16, <1>17, <1>18, <1>19, <1>20, <1>21, <1>22, <1>23, <1>24, <1>25,
     <1>26, <1>27, <1>28, <1>29, <1>30, <1>31, <1>32, <1>33
  DEF Next, JobStep

\* What a ChangeSet without a record wrote has its evidence.
LEMMA OwnedStep ==
    ASSUME TypeOK, Evidence, Shaped, Meant, Replaced, Finished, Founded, Owned,
           [Next]_vars
    PROVE  Owned'
<1>1. ASSUME NEW q \in prepared, SaveIntent(q)
       PROVE  Owned'
  <2>1. UNCHANGED files /\ saved \subseteq saved' /\ pending \subseteq pending'
    BY <1>1 DEF SaveIntent, rows, records
  <2> QED
    BY <2>1, OwnedFrame
<1>2. ASSUME NEW q \in prepared, SaveIntentFails(q)
       PROVE  Owned'
  <2>1. UNCHANGED files /\ saved \subseteq saved' /\ pending \subseteq pending'
    BY <1>2 DEF SaveIntentFails, rows, records
  <2> QED
    BY <2>1, OwnedFrame
<1>3. ASSUME NEW q \in prepared, Effect(q)
       PROVE  Owned'
  <2>1. UNCHANGED <<saved, pending>> /\ (Put(q.path, q.to, q.owner) \/ UNCHANGED files)
    BY <1>3 DEF Effect, Write, rows, records
  <2>2. /\ q \in pending /\ q \in Live /\ q.path \in Paths /\ q.owner \in ChangeSets
    BY <1>3, IntentTyped DEF Effect, Unwritten, At, Evidence, Live
  <2>3. q.kind # "edit" => HasFiles(q.owner)
    BY <2>2 DEF Meant, RestoreMeant, Founded
  <2> QED
    BY <2>1, <2>2, <2>3, OwnedPut, OwnedFrame
<1>4. ASSUME NEW q \in prepared, EffectRefused(q)
       PROVE  Owned'
  <2>1. UNCHANGED files /\ saved \subseteq saved' /\ pending \subseteq pending'
    BY <1>4 DEF EffectRefused, rows, records
  <2> QED
    BY <2>1, OwnedFrame
<1>5. ASSUME NEW q \in prepared, EffectFails(q)
       PROVE  Owned'
  <2>1. UNCHANGED <<saved, pending>> /\ (Put(q.path, q.to, q.owner) \/ UNCHANGED files)
    BY <1>5 DEF EffectFails, Write, rows, records
  <2>2. /\ q \in pending /\ q \in Live /\ q.path \in Paths /\ q.owner \in ChangeSets
    BY <1>5, IntentTyped DEF EffectFails, Unwritten, At, Evidence, Live
  <2>3. q.kind # "edit" => HasFiles(q.owner)
    BY <2>2 DEF Meant, RestoreMeant, Founded
  <2> QED
    BY <2>1, <2>2, <2>3, OwnedPut, OwnedFrame
<1>6. ASSUME NEW q \in prepared, Withdraw(q)
       PROVE  Owned'
  <2>1. UNCHANGED <<files, saved>> /\ pending' \in {pending, pending \ {q}}
    BY <1>6 DEF Withdraw, records
  <2>2. writer[q.path] # q.owner
    BY <1>6, IntentTyped DEF Withdraw, At, Replaced
  <2> QED
    BY <2>1, <2>2, OwnedDrop, OwnedFrame
<1>7. ASSUME NEW q \in prepared, RecordEdit(q)
       PROVE  Owned'
  <2>1. UNCHANGED files /\ saved \subseteq saved' /\ pending \subseteq pending'
    BY <1>7 DEF RecordEdit, rows, records, Record
  <2> QED
    BY <2>1, OwnedFrame
<1>8. ASSUME NEW q \in prepared, RecordEditFails(q)
       PROVE  Owned'
  <2>1. UNCHANGED files /\ saved \subseteq saved' /\ pending \subseteq pending'
    BY <1>8 DEF RecordEditFails, rows, records, Record
  <2> QED
    BY <2>1, OwnedFrame
<1>9. ASSUME NEW q \in prepared, RollBack(q)
       PROVE  Owned'
  <2>1. UNCHANGED <<saved, pending>> /\ (Put(q.path, q.from, q.owner) \/ UNCHANGED files)
    BY <1>9 DEF RollBack, Write, rows, records
  <2>2. /\ q \in pending /\ q \in Live /\ q.path \in Paths /\ q.owner \in ChangeSets
    BY <1>9, IntentTyped DEF RollBack, Unwritten, At, Evidence, Live
  <2>3. q.kind # "edit" => HasFiles(q.owner)
    BY <2>2 DEF Meant, RestoreMeant, Founded
  <2>4. q.kind # "edit"
    BY <1>9 DEF RollBack, At, Shaped
  <2> QED
    BY <2>1, <2>2, <2>3, <2>4, OwnedPut, OwnedFrame
<1>10. ASSUME NEW q \in prepared, RollBackFails(q)
       PROVE  Owned'
  <2>1. UNCHANGED <<saved, pending>> /\ (Put(q.path, q.from, q.owner) \/ UNCHANGED files)
    BY <1>10 DEF RollBackFails, Write, rows, records
  <2>2. /\ q \in pending /\ q \in Live /\ q.path \in Paths /\ q.owner \in ChangeSets
    BY <1>10, IntentTyped DEF RollBackFails, Unwritten, At, Evidence, Live
  <2>3. q.kind # "edit" => HasFiles(q.owner)
    BY <2>2 DEF Meant, RestoreMeant, Founded
  <2>4. q.kind # "edit"
    BY <1>10 DEF RollBackFails, At, Shaped
  <2> QED
    BY <2>1, <2>2, <2>3, <2>4, OwnedPut, OwnedFrame
<1>11. ASSUME NEW q \in prepared, ClearIntent(q)
       PROVE  Owned'
  <2>1. UNCHANGED <<files, saved>> /\ pending' = pending \ {q}
    BY <1>11 DEF ClearIntent, records
  <2>2. q.kind = "edit" => HasFiles(q.owner)
    BY <1>11 DEF ClearIntent, At, Finished, Shaped, HasFiles
  <2> QED
    BY <2>1, <2>2, OwnedDrop
<1>12. ASSUME CommitRestore
       PROVE  Owned'
  <2>1. UNCHANGED files /\ saved \subseteq saved' /\ pending \subseteq pending'
    BY <1>12 DEF CommitRestore, rows, records
  <2> QED
    BY <2>1, OwnedFrame
<1>13. ASSUME CommitRestoreFails
       PROVE  Owned'
  <2>1. UNCHANGED files /\ saved \subseteq saved' /\ pending \subseteq pending'
    BY <1>13 DEF CommitRestoreFails, rows, records
  <2> QED
    BY <2>1, OwnedFrame
<1>14. ASSUME RolledBack
       PROVE  Owned'
  <2>1. UNCHANGED files /\ saved \subseteq saved' /\ pending \subseteq pending'
    BY <1>14 DEF RolledBack, rows, records, process
  <2> QED
    BY <2>1, OwnedFrame
<1>15. ASSUME Cleared
       PROVE  Owned'
  <2>1. UNCHANGED files /\ saved \subseteq saved' /\ pending \subseteq pending'
    BY <1>15 DEF Cleared, rows, records
  <2> QED
    BY <2>1, OwnedFrame
<1>16. ASSUME ClearFails
       PROVE  Owned'
  <2>1. UNCHANGED files /\ saved \subseteq saved' /\ pending \subseteq pending'
    BY <1>16 DEF ClearFails, rows, records
  <2> QED
    BY <2>1, OwnedFrame
<1>17. ASSUME NEW q \in pending, ReconcileEdit(q)
       PROVE  Owned'
  <2>1. UNCHANGED files
    BY <1>17 DEF ReconcileEdit
  <2>2. q.kind = "edit" /\ EditMeant(q)
    BY <1>17, PendingLive DEF ReconcileEdit, EditIntents, Meant
  <2>3. CASE pending' = pending \ {q} /\ UNCHANGED records /\ (q \in saved \/ disk[q.path] = q.from)
    BY <2>1, <2>2, <2>3, OwnedDrop DEF EditMeant, HasFiles, records
  <2>4. CASE Record(q) /\ UNCHANGED pending
    BY <2>1, <2>4, OwnedFrame DEF Record
  <2> QED
    BY <1>17, <2>3, <2>4 DEF ReconcileEdit
<1>18. ASSUME NEW q \in pending, EditConflicts(q)
       PROVE  Owned'
  <2>1. UNCHANGED files /\ saved \subseteq saved' /\ pending \subseteq pending'
    BY <1>18 DEF EditConflicts, rows, records, Record
  <2> QED
    BY <2>1, OwnedFrame
<1>19. ASSUME NEW c \in ChangeSets, Settle(c)
       PROVE  Owned'
  <2>1. UNCHANGED files /\ saved \subseteq saved' /\ pending \subseteq pending'
    BY <1>19 DEF Settle, rows, records
  <2> QED
    BY <2>1, OwnedFrame
<1>20. ASSUME NEW c \in ChangeSets, SettleFails(c)
       PROVE  Owned'
  <2>1. UNCHANGED files /\ saved \subseteq saved' /\ pending \subseteq pending'
    BY <1>20 DEF SettleFails, rows, records
  <2> QED
    BY <2>1, OwnedFrame
<1>21. ASSUME NEW c \in ChangeSets, SealOrphan(c)
       PROVE  Owned'
  <2>1. UNCHANGED files /\ saved \subseteq saved' /\ pending \subseteq pending'
    BY <1>21 DEF SealOrphan, rows, records
  <2> QED
    BY <2>1, OwnedFrame
<1>22. ASSUME NEW c \in ChangeSets, NEW kind \in {"undo", "redo"}, ReconcileOperation(c, kind)
       PROVE  Owned'
  <2>1. UNCHANGED files /\ saved \subseteq saved' /\ pending \subseteq pending'
    BY <1>22 DEF ReconcileOperation, rows, records
  <2> QED
    BY <2>1, OwnedFrame
<1>23. ASSUME NEW c \in ChangeSets, NEW kind \in {"undo", "redo"}, OperationConflicts(c, kind)
       PROVE  Owned'
  <2>1. UNCHANGED files /\ saved \subseteq saved' /\ pending \subseteq pending'
    BY <1>23 DEF OperationConflicts, rows, records
  <2> QED
    BY <2>1, OwnedFrame
<1>24. ASSUME Activate
       PROVE  Owned'
  <2>1. UNCHANGED files /\ saved \subseteq saved' /\ pending \subseteq pending'
    BY <1>24 DEF Activate, rows, records
  <2> QED
    BY <2>1, OwnedFrame
<1>25. ASSUME NEW c \in ChangeSets, OpenChangeSet(c)
       PROVE  Owned'
  <2>1. UNCHANGED files /\ saved \subseteq saved' /\ pending \subseteq pending'
    BY <1>25 DEF OpenChangeSet, rows, records
  <2> QED
    BY <2>1, OwnedFrame
<1>26. ASSUME NEW c \in ChangeSets, RecordExecute(c)
       PROVE  Owned'
  <2>1. UNCHANGED files /\ saved \subseteq saved' /\ pending \subseteq pending'
    BY <1>26 DEF RecordExecute, rows, records
  <2> QED
    BY <2>1, OwnedFrame
<1>27. ASSUME NEW c \in ChangeSets, NEW p \in Paths, NEW content \in Contents, BeginEdit(c, p, content)
       PROVE  Owned'
  <2>1. UNCHANGED files /\ saved \subseteq saved' /\ pending \subseteq pending'
    BY <1>27 DEF BeginEdit, rows, records, Record
  <2> QED
    BY <2>1, OwnedFrame
<1>28. ASSUME NEW c \in ChangeSets, NEW kind \in {"undo", "redo"}, BeginRestore(c, kind)
       PROVE  Owned'
  <2>1. UNCHANGED files /\ saved \subseteq saved' /\ pending \subseteq pending'
    BY <1>28 DEF BeginRestore, rows, records
  <2> QED
    BY <2>1, OwnedFrame
<1>29. ASSUME NEW c \in ChangeSets, NEW what \in {"seal", "discard"}, BeginSeal(c, what)
       PROVE  Owned'
  <2>1. UNCHANGED files /\ saved \subseteq saved' /\ pending \subseteq pending'
    BY <1>29 DEF BeginSeal, rows, records
  <2> QED
    BY <2>1, OwnedFrame
<1>30. ASSUME NEW p \in Paths, NEW content \in Contents, External(p, content)
       PROVE  Owned'
  <2>1. UNCHANGED <<saved, pending>> /\ Put(p, content, Nobody)
    BY <1>30 DEF External, rows, records
  <2> QED
    BY <2>1, OwnedPut
<1>31. ASSUME Crash
       PROVE  Owned'
  <2>1. UNCHANGED files /\ saved \subseteq saved' /\ pending \subseteq pending'
    BY <1>31 DEF Crash, rows, records
  <2> QED
    BY <2>1, OwnedFrame
<1>32. ASSUME Restart
       PROVE  Owned'
  <2>1. UNCHANGED files /\ saved \subseteq saved' /\ pending \subseteq pending'
    BY <1>32 DEF Restart, rows, records
  <2> QED
    BY <2>1, OwnedFrame
<1>33. ASSUME UNCHANGED vars
       PROVE  Owned'
  <2>1. UNCHANGED files /\ saved \subseteq saved' /\ pending \subseteq pending'
    BY <1>33 DEF vars, rows, records
  <2> QED
    BY <2>1, OwnedFrame
<1> QED
  BY <1>1, <1>2, <1>3, <1>4, <1>5, <1>6, <1>7, <1>8, <1>9, <1>10, <1>11, <1>12, <1>13,
     <1>14, <1>15, <1>16, <1>17, <1>18, <1>19, <1>20, <1>21, <1>22, <1>23, <1>24, <1>25,
     <1>26, <1>27, <1>28, <1>29, <1>30, <1>31, <1>32, <1>33
  DEF Next, JobStep

\* A ChangeSet that was deleted gains nothing.
LEMMA DiscardFrame ==
    ASSUME DiscardedIsEmpty,
           \A c \in ChangeSets : lifecycle'[c] = "deleted" =>
              /\ lifecycle[c] = "deleted"
              /\ c \in executed' => c \in executed
              /\ \A q \in (saved' \ saved) \cup (pending' \ pending) : q.owner # c
              /\ \A p \in Paths : writer'[p] = c => writer[p] = c
    PROVE  DiscardedIsEmpty'
  BY DEF DiscardedIsEmpty, HasFiles, Of

\* A ChangeSet is deleted only if it did nothing, and does nothing afterwards.
LEMMA DiscardStep ==
    ASSUME TypeOK, Evidence, Shaped, Meant, Owned, DiscardedIsEmpty, [Next]_vars
    PROVE  DiscardedIsEmpty'
<1>1. ASSUME NEW q \in prepared, SaveIntent(q)
       PROVE  DiscardedIsEmpty'
  <2>1. UNCHANGED <<files, lifecycle, saved, executed>> /\ pending' \subseteq pending \cup {q}
    BY <1>1 DEF SaveIntent, records
  <2>2. lifecycle[q.owner] # "deleted"
    BY <1>1, OwnerStates DEF SaveIntent, At, Live
  <2> QED
    BY <2>1, <2>2, DiscardFrame DEF files
<1>2. ASSUME NEW q \in prepared, SaveIntentFails(q)
       PROVE  DiscardedIsEmpty'
  <2>1. UNCHANGED <<files, lifecycle, saved, executed>> /\ pending' \subseteq pending \cup {q}
    BY <1>2 DEF SaveIntentFails, records
  <2>2. lifecycle[q.owner] # "deleted"
    BY <1>2, OwnerStates DEF SaveIntentFails, At, Live
  <2> QED
    BY <2>1, <2>2, DiscardFrame DEF files
<1>3. ASSUME NEW q \in prepared, Effect(q)
       PROVE  DiscardedIsEmpty'
  <2>1. /\ UNCHANGED <<lifecycle, saved, executed, pending>>
        /\ Put(q.path, q.to, q.owner) \/ UNCHANGED files
    BY <1>3 DEF Effect, Write, rows, records
  <2>2. lifecycle[q.owner] # "deleted"
    BY <1>3, OwnerStates DEF Effect, Unwritten, At, Live
  <2>3. \A p \in Paths : writer'[p] \in {writer[p], q.owner}
    BY <2>1 DEF Put, TypeOK, files
  <2> QED
    BY <2>1, <2>2, <2>3, DiscardFrame
<1>4. ASSUME NEW q \in prepared, EffectRefused(q)
       PROVE  DiscardedIsEmpty'
  <2>1. /\ UNCHANGED <<files, saved>> /\ pending' \subseteq pending
        /\ \A x \in ChangeSets : lifecycle'[x] = "deleted" => lifecycle[x] = "deleted"
        /\ \A x \in executed' \ executed : lifecycle'[x] # "deleted"
    BY <1>4 DEF EffectRefused, TypeOK, rows, records
  <2> QED
    BY <2>1, DiscardFrame DEF files
<1>5. ASSUME NEW q \in prepared, EffectFails(q)
       PROVE  DiscardedIsEmpty'
  <2>1. /\ UNCHANGED <<lifecycle, saved, executed, pending>>
        /\ Put(q.path, q.to, q.owner) \/ UNCHANGED files
    BY <1>5 DEF EffectFails, Write, rows, records
  <2>2. lifecycle[q.owner] # "deleted"
    BY <1>5, OwnerStates DEF EffectFails, Unwritten, At, Live
  <2>3. \A p \in Paths : writer'[p] \in {writer[p], q.owner}
    BY <2>1 DEF Put, TypeOK, files
  <2> QED
    BY <2>1, <2>2, <2>3, DiscardFrame
<1>6. ASSUME NEW q \in prepared, Withdraw(q)
       PROVE  DiscardedIsEmpty'
  <2>1. /\ UNCHANGED <<files, saved>> /\ pending' \subseteq pending
        /\ \A x \in ChangeSets : lifecycle'[x] = "deleted" => lifecycle[x] = "deleted"
        /\ \A x \in executed' \ executed : lifecycle'[x] # "deleted"
    BY <1>6 DEF Withdraw, TypeOK, rows, records
  <2> QED
    BY <2>1, DiscardFrame DEF files
<1>7. ASSUME NEW q \in prepared, RecordEdit(q)
       PROVE  DiscardedIsEmpty'
  <2>1. /\ UNCHANGED <<files, lifecycle, executed>>
        /\ pending' \subseteq pending /\ saved' \subseteq saved \cup {q}
    BY <1>7 DEF RecordEdit, Record, records
  <2>2. lifecycle[q.owner] # "deleted"
    BY <1>7, OwnerStates DEF RecordEdit, At, Live
  <2> QED
    BY <2>1, <2>2, DiscardFrame DEF files
<1>8. ASSUME NEW q \in prepared, RecordEditFails(q)
       PROVE  DiscardedIsEmpty'
  <2>1. /\ UNCHANGED <<files, lifecycle, executed>>
        /\ pending' \subseteq pending /\ saved' \subseteq saved \cup {q}
    BY <1>8 DEF RecordEditFails, Record, records
  <2>2. lifecycle[q.owner] # "deleted"
    BY <1>8, OwnerStates DEF RecordEditFails, At, Live
  <2> QED
    BY <2>1, <2>2, DiscardFrame DEF files
<1>9. ASSUME NEW q \in prepared, RollBack(q)
       PROVE  DiscardedIsEmpty'
  <2>1. /\ UNCHANGED <<lifecycle, saved, executed, pending>>
        /\ Put(q.path, q.from, q.owner) \/ UNCHANGED files
    BY <1>9 DEF RollBack, Write, rows, records
  <2>2. lifecycle[q.owner] # "deleted"
    BY <1>9, OwnerStates DEF RollBack, Unwritten, At, Live
  <2>3. \A p \in Paths : writer'[p] \in {writer[p], q.owner}
    BY <2>1 DEF Put, TypeOK, files
  <2> QED
    BY <2>1, <2>2, <2>3, DiscardFrame
<1>10. ASSUME NEW q \in prepared, RollBackFails(q)
       PROVE  DiscardedIsEmpty'
  <2>1. /\ UNCHANGED <<lifecycle, saved, executed, pending>>
        /\ Put(q.path, q.from, q.owner) \/ UNCHANGED files
    BY <1>10 DEF RollBackFails, Write, rows, records
  <2>2. lifecycle[q.owner] # "deleted"
    BY <1>10, OwnerStates DEF RollBackFails, Unwritten, At, Live
  <2>3. \A p \in Paths : writer'[p] \in {writer[p], q.owner}
    BY <2>1 DEF Put, TypeOK, files
  <2> QED
    BY <2>1, <2>2, <2>3, DiscardFrame
<1>11. ASSUME NEW q \in prepared, ClearIntent(q)
       PROVE  DiscardedIsEmpty'
  <2>1. /\ UNCHANGED <<files, saved>> /\ pending' \subseteq pending
        /\ \A x \in ChangeSets : lifecycle'[x] = "deleted" => lifecycle[x] = "deleted"
        /\ \A x \in executed' \ executed : lifecycle'[x] # "deleted"
    BY <1>11 DEF ClearIntent, TypeOK, rows, records
  <2> QED
    BY <2>1, DiscardFrame DEF files
<1>12. ASSUME CommitRestore
       PROVE  DiscardedIsEmpty'
  <2>1. /\ UNCHANGED <<files, saved>> /\ pending' \subseteq pending
        /\ \A x \in ChangeSets : lifecycle'[x] = "deleted" => lifecycle[x] = "deleted"
        /\ \A x \in executed' \ executed : lifecycle'[x] # "deleted"
    BY <1>12 DEF CommitRestore, TypeOK, rows, records, Committed
  <2> QED
    BY <2>1, DiscardFrame DEF files
<1>13. ASSUME CommitRestoreFails
       PROVE  DiscardedIsEmpty'
  <2>1. /\ UNCHANGED <<files, saved>> /\ pending' \subseteq pending
        /\ \A x \in ChangeSets : lifecycle'[x] = "deleted" => lifecycle[x] = "deleted"
        /\ \A x \in executed' \ executed : lifecycle'[x] # "deleted"
    BY <1>13 DEF CommitRestoreFails, TypeOK, rows, records, Committed
  <2> QED
    BY <2>1, DiscardFrame DEF files
<1>14. ASSUME RolledBack
       PROVE  DiscardedIsEmpty'
  <2>1. /\ UNCHANGED <<files, saved>> /\ pending' \subseteq pending
        /\ \A x \in ChangeSets : lifecycle'[x] = "deleted" => lifecycle[x] = "deleted"
        /\ \A x \in executed' \ executed : lifecycle'[x] # "deleted"
    BY <1>14 DEF RolledBack, TypeOK, rows, records, process
  <2> QED
    BY <2>1, DiscardFrame DEF files
<1>15. ASSUME Cleared
       PROVE  DiscardedIsEmpty'
  <2>1. /\ UNCHANGED <<files, saved>> /\ pending' \subseteq pending
        /\ \A x \in ChangeSets : lifecycle'[x] = "deleted" => lifecycle[x] = "deleted"
        /\ \A x \in executed' \ executed : lifecycle'[x] # "deleted"
    BY <1>15 DEF Cleared, TypeOK, rows, records
  <2> QED
    BY <2>1, DiscardFrame DEF files
<1>16. ASSUME ClearFails
       PROVE  DiscardedIsEmpty'
  <2>1. /\ UNCHANGED <<files, saved>> /\ pending' \subseteq pending
        /\ \A x \in ChangeSets : lifecycle'[x] = "deleted" => lifecycle[x] = "deleted"
        /\ \A x \in executed' \ executed : lifecycle'[x] # "deleted"
    BY <1>16 DEF ClearFails, TypeOK, rows, records
  <2> QED
    BY <2>1, DiscardFrame DEF files
<1>17. ASSUME NEW q \in pending, ReconcileEdit(q)
       PROVE  DiscardedIsEmpty'
  <2>1. /\ UNCHANGED <<files, lifecycle, executed>>
        /\ pending' \subseteq pending /\ saved' \subseteq saved \cup {q}
    BY <1>17 DEF ReconcileEdit, Record, records
  <2>2. lifecycle[q.owner] # "deleted"
    BY <1>17, OwnerStates DEF ReconcileEdit, Resolvable
  <2> QED
    BY <2>1, <2>2, DiscardFrame DEF files
<1>18. ASSUME NEW q \in pending, EditConflicts(q)
       PROVE  DiscardedIsEmpty'
  <2>1. /\ UNCHANGED <<files, saved>> /\ pending' \subseteq pending
        /\ \A x \in ChangeSets : lifecycle'[x] = "deleted" => lifecycle[x] = "deleted"
        /\ \A x \in executed' \ executed : lifecycle'[x] # "deleted"
    BY <1>18 DEF EditConflicts, TypeOK, rows, records
  <2> QED
    BY <2>1, DiscardFrame DEF files
<1>19. ASSUME NEW c \in ChangeSets, Settle(c)
       PROVE  DiscardedIsEmpty'
  <2>1. UNCHANGED <<files, saved, executed, pending>>
    BY <1>19 DEF Settle, records
  <2>2. CASE Seal(c)
    <3>1. \A x \in ChangeSets : lifecycle'[x] = "deleted" => lifecycle[x] = "deleted"
      BY <2>2 DEF TypeOK
    <3> QED
      BY <2>1, <3>1, DiscardFrame DEF files
  <2>3. CASE DeleteEmpty(c)
    <3>1. lifecycle[c] = "open"
      BY <1>19 DEF Settle, Shaped
    <3>2. Of(c) = {}
      BY <1>19, <3>1, PendingLive, OwnerStates DEF Settle, Of, EditIntents
    <3>3. \A p \in Paths : writer[p] # c
      BY <2>3, <3>2 DEF Owned, Of
    <3>4. \A x \in ChangeSets : lifecycle'[x] = "deleted" => x = c \/ lifecycle[x] = "deleted"
      BY <2>3 DEF TypeOK
    <3> QED
      BY <2>1, <2>3, <3>2, <3>3, <3>4 DEF DiscardedIsEmpty, HasFiles, Of, files
  <2> QED
    BY <1>19, <2>2, <2>3 DEF Settle
<1>20. ASSUME NEW c \in ChangeSets, SettleFails(c)
       PROVE  DiscardedIsEmpty'
  <2>1. /\ UNCHANGED <<files, saved>> /\ pending' \subseteq pending
        /\ \A x \in ChangeSets : lifecycle'[x] = "deleted" => lifecycle[x] = "deleted"
        /\ \A x \in executed' \ executed : lifecycle'[x] # "deleted"
    BY <1>20 DEF SettleFails, TypeOK, rows, records
  <2> QED
    BY <2>1, DiscardFrame DEF files
<1>21. ASSUME NEW c \in ChangeSets, SealOrphan(c)
       PROVE  DiscardedIsEmpty'
  <2>1. /\ UNCHANGED <<files, saved>> /\ pending' \subseteq pending
        /\ \A x \in ChangeSets : lifecycle'[x] = "deleted" => lifecycle[x] = "deleted"
        /\ \A x \in executed' \ executed : lifecycle'[x] # "deleted"
    BY <1>21 DEF SealOrphan, TypeOK, rows, records
  <2> QED
    BY <2>1, DiscardFrame DEF files
<1>22. ASSUME NEW c \in ChangeSets, NEW kind \in {"undo", "redo"}, ReconcileOperation(c, kind)
       PROVE  DiscardedIsEmpty'
  <2>1. /\ UNCHANGED <<files, saved>> /\ pending' \subseteq pending
        /\ \A x \in ChangeSets : lifecycle'[x] = "deleted" => lifecycle[x] = "deleted"
        /\ \A x \in executed' \ executed : lifecycle'[x] # "deleted"
    BY <1>22 DEF ReconcileOperation, TypeOK, rows, records
  <2> QED
    BY <2>1, DiscardFrame DEF files
<1>23. ASSUME NEW c \in ChangeSets, NEW kind \in {"undo", "redo"}, OperationConflicts(c, kind)
       PROVE  DiscardedIsEmpty'
  <2>1. /\ UNCHANGED <<files, saved>> /\ pending' \subseteq pending
        /\ \A x \in ChangeSets : lifecycle'[x] = "deleted" => lifecycle[x] = "deleted"
        /\ \A x \in executed' \ executed : lifecycle'[x] # "deleted"
    BY <1>23 DEF OperationConflicts, TypeOK, rows, records
  <2> QED
    BY <2>1, DiscardFrame DEF files
<1>24. ASSUME Activate
       PROVE  DiscardedIsEmpty'
  <2>1. /\ UNCHANGED <<files, saved>> /\ pending' \subseteq pending
        /\ \A x \in ChangeSets : lifecycle'[x] = "deleted" => lifecycle[x] = "deleted"
        /\ \A x \in executed' \ executed : lifecycle'[x] # "deleted"
    BY <1>24 DEF Activate, TypeOK, rows, records
  <2> QED
    BY <2>1, DiscardFrame DEF files
<1>25. ASSUME NEW c \in ChangeSets, OpenChangeSet(c)
       PROVE  DiscardedIsEmpty'
  <2>1. /\ UNCHANGED <<files, saved>> /\ pending' \subseteq pending
        /\ \A x \in ChangeSets : lifecycle'[x] = "deleted" => lifecycle[x] = "deleted"
        /\ \A x \in executed' \ executed : lifecycle'[x] # "deleted"
    BY <1>25 DEF OpenChangeSet, TypeOK, rows, records
  <2> QED
    BY <2>1, DiscardFrame DEF files
<1>26. ASSUME NEW c \in ChangeSets, RecordExecute(c)
       PROVE  DiscardedIsEmpty'
  <2>1. /\ UNCHANGED <<files, saved>> /\ pending' \subseteq pending
        /\ \A x \in ChangeSets : lifecycle'[x] = "deleted" => lifecycle[x] = "deleted"
        /\ \A x \in executed' \ executed : lifecycle'[x] # "deleted"
    BY <1>26 DEF RecordExecute, TypeOK, rows, records
  <2> QED
    BY <2>1, DiscardFrame DEF files
<1>27. ASSUME NEW c \in ChangeSets, NEW p \in Paths, NEW content \in Contents, BeginEdit(c, p, content)
       PROVE  DiscardedIsEmpty'
  <2>1. /\ UNCHANGED <<files, saved>> /\ pending' \subseteq pending
        /\ \A x \in ChangeSets : lifecycle'[x] = "deleted" => lifecycle[x] = "deleted"
        /\ \A x \in executed' \ executed : lifecycle'[x] # "deleted"
    BY <1>27 DEF BeginEdit, TypeOK, rows, records
  <2> QED
    BY <2>1, DiscardFrame DEF files
<1>28. ASSUME NEW c \in ChangeSets, NEW kind \in {"undo", "redo"}, BeginRestore(c, kind)
       PROVE  DiscardedIsEmpty'
  <2>1. /\ UNCHANGED <<files, saved>> /\ pending' \subseteq pending
        /\ \A x \in ChangeSets : lifecycle'[x] = "deleted" => lifecycle[x] = "deleted"
        /\ \A x \in executed' \ executed : lifecycle'[x] # "deleted"
    BY <1>28 DEF BeginRestore, TypeOK, rows, records
  <2> QED
    BY <2>1, DiscardFrame DEF files
<1>29. ASSUME NEW c \in ChangeSets, NEW what \in {"seal", "discard"}, BeginSeal(c, what)
       PROVE  DiscardedIsEmpty'
  <2>1. /\ UNCHANGED <<files, saved>> /\ pending' \subseteq pending
        /\ \A x \in ChangeSets : lifecycle'[x] = "deleted" => lifecycle[x] = "deleted"
        /\ \A x \in executed' \ executed : lifecycle'[x] # "deleted"
    BY <1>29 DEF BeginSeal, TypeOK, rows, records
  <2> QED
    BY <2>1, DiscardFrame DEF files
<1>30. ASSUME NEW p \in Paths, NEW content \in Contents, External(p, content)
       PROVE  DiscardedIsEmpty'
  <2>1. UNCHANGED <<lifecycle, saved, executed, pending>> /\ Put(p, content, Nobody)
    BY <1>30 DEF External, rows, records
  <2>2. \A x \in Paths : writer'[x] \in {writer[x], Nobody}
    BY <2>1 DEF Put, TypeOK
  <2> QED
    BY <2>1, <2>2, DiscardFrame
<1>31. ASSUME Crash
       PROVE  DiscardedIsEmpty'
  <2>1. /\ UNCHANGED <<files, saved>> /\ pending' \subseteq pending
        /\ \A x \in ChangeSets : lifecycle'[x] = "deleted" => lifecycle[x] = "deleted"
        /\ \A x \in executed' \ executed : lifecycle'[x] # "deleted"
    BY <1>31 DEF Crash, TypeOK, rows, records
  <2> QED
    BY <2>1, DiscardFrame DEF files
<1>32. ASSUME Restart
       PROVE  DiscardedIsEmpty'
  <2>1. /\ UNCHANGED <<files, saved>> /\ pending' \subseteq pending
        /\ \A x \in ChangeSets : lifecycle'[x] = "deleted" => lifecycle[x] = "deleted"
        /\ \A x \in executed' \ executed : lifecycle'[x] # "deleted"
    BY <1>32 DEF Restart, TypeOK, rows, records
  <2> QED
    BY <2>1, DiscardFrame DEF files
<1>33. ASSUME UNCHANGED vars
       PROVE  DiscardedIsEmpty'
  <2>1. /\ UNCHANGED <<files, saved>> /\ pending' \subseteq pending
        /\ \A x \in ChangeSets : lifecycle'[x] = "deleted" => lifecycle[x] = "deleted"
        /\ \A x \in executed' \ executed : lifecycle'[x] # "deleted"
    BY <1>33 DEF vars, TypeOK, rows, records
  <2> QED
    BY <2>1, DiscardFrame DEF files
<1> QED
  BY <1>1, <1>2, <1>3, <1>4, <1>5, <1>6, <1>7, <1>8, <1>9, <1>10, <1>11, <1>12, <1>13,
     <1>14, <1>15, <1>16, <1>17, <1>18, <1>19, <1>20, <1>21, <1>22, <1>23, <1>24, <1>25,
     <1>26, <1>27, <1>28, <1>29, <1>30, <1>31, <1>32, <1>33
  DEF Next, JobStep

\* The journal stays sound.
LEMMA SoundStep ==
    ASSUME Sound, [Next]_vars
    PROVE  Sound'
<1>1. TypeOK /\ Evidence /\ StillBound
  BY DEF Sound, IInv
<1>2. IInv'
  BY <1>1, TypeStep, EvidenceStep, BoundStep DEF IInv
<1>3. /\ Numbered /\ Shaped /\ Meant /\ Single /\ Wrote /\ Replaced
      /\ Finished /\ Founded /\ Told /\ Owned /\ DiscardedIsEmpty
  BY DEF Sound
<1>4. Numbered' /\ Shaped' /\ Meant' /\ Single'
  BY <1>1, <1>3, NumberedStep, ShapedStep, MeantStep, SingleStep
<1>5. Wrote' /\ Replaced' /\ Finished' /\ Founded'
  BY <1>1, <1>3, WroteStep, ReplacedStep, FinishedStep, FoundedStep
<1>6. Told' /\ Owned' /\ DiscardedIsEmpty'
  BY <1>1, <1>3, ToldStep, OwnedStep, DiscardStep
<1> QED
  BY <1>2, <1>4, <1>5, <1>6 DEF Sound

\* Every intent keeps its meaning and every path its record or its evidence.
THEOREM SoundAlways == Spec => []Sound
<1> QED
  BY InitSound, SoundStep, PTL DEF Spec

\* JournalSound, for every instance: between operations each path the program
\* wrote last, and holds no evidence on, is as the record of its writer says,
\* after any failures, crashes, recoveries and user edits; and a ChangeSet
\* that was deleted changed nothing.
THEOREM RecordIsTrue == Spec => []JournalSound
<1>1. Sound => JournalSound
  <2> SUFFICES ASSUME Told, DiscardedIsEmpty
               PROVE  JournalSound
    BY DEF Sound
  <2>1. ASSUME NEW p \in Paths, NEW c \in ChangeSets, writer[p] = c, p \notin PathsOf(pending)
        PROVE  disk[p] = Truth(c, p)
    BY <2>1 DEF Told, PathsOf
  <2>2. JournalTellsTruth
    BY <2>1 DEF JournalTellsTruth, Truth
  <2> QED
    BY <2>2 DEF JournalSound
<1> QED
  BY <1>1, SoundAlways, PTL

-----------------------------------------------------------------------------
(* No crash alone makes a startup fail.                                     *)

\* Nobody but the program touched the workspace, and no write failed.
Quiet == edits = 0 /\ faults = 0

\* Then one operation at a time is unsettled, with one intent for a path.
OneUnsettled ==
    /\ touched = {}
    /\ \A q, r \in pending \cup prepared :
          q.owner = r.owner /\ q.kind = r.kind /\ (q.path = r.path => q = r)

\* It is in hand, unless a crash took it from there.
InHand ==
    /\ step \in {"idle", "settle"} => prepared = {}
    /\ mode = "up" \/ step \notin {"idle", "settle"} => pending \subseteq prepared
    /\ step \in {"intend", "effect"} => prepared \cap saved = {}

\* Its paths hold what they held or what it writes, the latter once it is
\* recorded or committed.
Explainable ==
    /\ step \in {"intend", "effect", "record", "rollback"} =>
          \A q \in prepared : disk[q.path] = IF q.path \in applied THEN q.to ELSE q.from
    /\ \A q \in pending :
          /\ disk[q.path] \in {q.from, q.to}
          /\ q.kind = "edit" /\ q \in saved => disk[q.path] = q.to
          /\ q.kind # "edit" /\ lifecycle[q.owner] = Committed(q.kind) => disk[q.path] = q.to

Recoverable == Quiet => OneUnsettled /\ InHand /\ Explainable

\* User edits and failed writes are counted.
LEMMA QuietBefore ==
    ASSUME TypeOK, [Next]_vars
    PROVE  Quiet' => Quiet /\ UNCHANGED <<edits, faults>>
<1>1. ASSUME NEW q \in prepared, SaveIntent(q)
       PROVE  Quiet' => Quiet /\ UNCHANGED <<edits, faults>>
  BY <1>1
  DEF Quiet, TypeOK, SaveIntent, At, GoTo, files, rows, records, process, working,
      budgets
<1>2. ASSUME NEW q \in prepared, SaveIntentFails(q)
       PROVE  Quiet' => Quiet /\ UNCHANGED <<edits, faults>>
  BY <1>2
  DEF Quiet, TypeOK, SaveIntentFails, At, GoTo, Stop, Fault, files, rows, records,
      process, working, budgets
<1>3. ASSUME NEW q \in prepared, Effect(q)
       PROVE  Quiet' => Quiet /\ UNCHANGED <<edits, faults>>
  BY <1>3
  DEF Quiet, TypeOK, Effect, At, Unwritten, Write, Put, PathsOf, files, rows, records,
      process, working, budgets
<1>4. ASSUME NEW q \in prepared, EffectRefused(q)
       PROVE  Quiet' => Quiet /\ UNCHANGED <<edits, faults>>
  BY <1>4
  DEF Quiet, TypeOK, EffectRefused, At, Unwritten, GoTo, files, rows, records, process,
      working, budgets
<1>5. ASSUME NEW q \in prepared, EffectFails(q)
       PROVE  Quiet' => Quiet /\ UNCHANGED <<edits, faults>>
  BY <1>5
  DEF Quiet, TypeOK, EffectFails, At, Unwritten, Put, GoTo, Stop, Fault, files, rows,
      records, process, working, budgets
<1>6. ASSUME NEW q \in prepared, Withdraw(q)
       PROVE  Quiet' => Quiet /\ UNCHANGED <<edits, faults>>
  BY <1>6
  DEF Quiet, TypeOK, Withdraw, At, Stop, Fault, files, rows, records, process, working,
      budgets
<1>7. ASSUME NEW q \in prepared, RecordEdit(q)
       PROVE  Quiet' => Quiet /\ UNCHANGED <<edits, faults>>
  BY <1>7
  DEF Quiet, TypeOK, RecordEdit, At, Record, GoTo, Stop, files, rows, records, process,
      working, budgets
<1>8. ASSUME NEW q \in prepared, RecordEditFails(q)
       PROVE  Quiet' => Quiet /\ UNCHANGED <<edits, faults>>
  BY <1>8
  DEF Quiet, TypeOK, RecordEditFails, At, Record, Stop, Fault, files, rows, records,
      process, working, budgets
<1>9. ASSUME NEW q \in prepared, RollBack(q)
       PROVE  Quiet' => Quiet /\ UNCHANGED <<edits, faults>>
  BY <1>9
  DEF Quiet, TypeOK, RollBack, At, Put, Abandon, Stop, files, rows, records, process,
      working, budgets
<1>10. ASSUME NEW q \in prepared, RollBackFails(q)
       PROVE  Quiet' => Quiet /\ UNCHANGED <<edits, faults>>
  BY <1>10
  DEF Quiet, TypeOK, RollBackFails, At, Put, Abandon, Stop, Fault, files, rows, records,
      process, working, budgets
<1>11. ASSUME NEW q \in prepared, ClearIntent(q)
       PROVE  Quiet' => Quiet /\ UNCHANGED <<edits, faults>>
  BY <1>11
  DEF Quiet, TypeOK, ClearIntent, At, files, rows, records, process, working, budgets
<1>12. ASSUME CommitRestore
       PROVE  Quiet' => Quiet /\ UNCHANGED <<edits, faults>>
  BY <1>12
  DEF Quiet, TypeOK, CommitRestore, At, Committed, GoTo, files, rows, records, process,
      working, budgets
<1>13. ASSUME CommitRestoreFails
       PROVE  Quiet' => Quiet /\ UNCHANGED <<edits, faults>>
  BY <1>13
  DEF Quiet, TypeOK, CommitRestoreFails, At, Committed, GoTo, Stop, Fault, files, rows,
      records, process, working, budgets
<1>14. ASSUME RolledBack
       PROVE  Quiet' => Quiet /\ UNCHANGED <<edits, faults>>
  BY <1>14
  DEF Quiet, TypeOK, RolledBack, At, GoTo, Abandon, Stop, files, rows, records, process,
      working, budgets
<1>15. ASSUME Cleared
       PROVE  Quiet' => Quiet /\ UNCHANGED <<edits, faults>>
  BY <1>15
  DEF Quiet, TypeOK, Cleared, At, Stop, files, rows, records, process, working, budgets
<1>16. ASSUME ClearFails
       PROVE  Quiet' => Quiet /\ UNCHANGED <<edits, faults>>
  BY <1>16
  DEF Quiet, TypeOK, ClearFails, At, Abandon, Stop, Fault, files, rows, records,
      process, working, budgets
<1>17. ASSUME NEW q \in pending, ReconcileEdit(q)
       PROVE  Quiet' => Quiet /\ UNCHANGED <<edits, faults>>
  BY <1>17
  DEF Quiet, TypeOK, ReconcileEdit, EditIntents, Settles, Resolvable, Record, files,
      rows, records, process, working, budgets
<1>18. ASSUME NEW q \in pending, EditConflicts(q)
       PROVE  Quiet' => Quiet /\ UNCHANGED <<edits, faults>>
  BY <1>18
  DEF Quiet, TypeOK, EditConflicts, EditIntents, Settles, Abandon, Stop, files, rows,
      records, process, working, budgets
<1>19. ASSUME NEW c \in ChangeSets, Settle(c)
       PROVE  Quiet' => Quiet /\ UNCHANGED <<edits, faults>>
  BY <1>19
  DEF Quiet, TypeOK, Settle, Of, EditIntents, Stop, files, rows, records, process,
      working, budgets
<1>20. ASSUME NEW c \in ChangeSets, SettleFails(c)
       PROVE  Quiet' => Quiet /\ UNCHANGED <<edits, faults>>
  BY <1>20
  DEF Quiet, TypeOK, SettleFails, Of, Abandon, Stop, Fault, files, rows, records,
      process, working, budgets
<1>21. ASSUME NEW c \in ChangeSets, SealOrphan(c)
       PROVE  Quiet' => Quiet /\ UNCHANGED <<edits, faults>>
  BY <1>21
  DEF Quiet, TypeOK, SealOrphan, files, rows, records, process, working, budgets
<1>22. ASSUME NEW c \in ChangeSets, NEW kind \in {"undo", "redo"}, ReconcileOperation(c, kind)
       PROVE  Quiet' => Quiet /\ UNCHANGED <<edits, faults>>
  BY <1>22
  DEF Quiet, TypeOK, ReconcileOperation, Reconciling, Group, files, rows, records,
      process, working, budgets
<1>23. ASSUME NEW c \in ChangeSets, NEW kind \in {"undo", "redo"}, OperationConflicts(c, kind)
       PROVE  Quiet' => Quiet /\ UNCHANGED <<edits, faults>>
  BY <1>23
  DEF Quiet, TypeOK, OperationConflicts, Reconciling, Abandon, Stop, files, rows,
      records, process, working, budgets
<1>24. ASSUME Activate
       PROVE  Quiet' => Quiet /\ UNCHANGED <<edits, faults>>
  BY <1>24
  DEF Quiet, TypeOK, Activate, files, rows, records, process, working, budgets
<1>25. ASSUME NEW c \in ChangeSets, OpenChangeSet(c)
       PROVE  Quiet' => Quiet /\ UNCHANGED <<edits, faults>>
  BY <1>25
  DEF Quiet, TypeOK, OpenChangeSet, Idle, files, rows, records, process, working,
      budgets
<1>26. ASSUME NEW c \in ChangeSets, RecordExecute(c)
       PROVE  Quiet' => Quiet /\ UNCHANGED <<edits, faults>>
  BY <1>26
  DEF Quiet, TypeOK, RecordExecute, Idle, files, rows, records, process, working,
      budgets
<1>27. ASSUME NEW c \in ChangeSets, NEW p \in Paths, NEW content \in Contents, BeginEdit(c, p, content)
       PROVE  Quiet' => Quiet /\ UNCHANGED <<edits, faults>>
  BY <1>27
  DEF Quiet, TypeOK, BeginEdit, Idle, Begin, files, rows, records, process, working,
      budgets
<1>28. ASSUME NEW c \in ChangeSets, NEW kind \in {"undo", "redo"}, BeginRestore(c, kind)
       PROVE  Quiet' => Quiet /\ UNCHANGED <<edits, faults>>
  BY <1>28
  DEF Quiet, TypeOK, BeginRestore, Idle, Begin, Restores, files, rows, records, process,
      working, budgets
<1>29. ASSUME NEW c \in ChangeSets, NEW what \in {"seal", "discard"}, BeginSeal(c, what)
       PROVE  Quiet' => Quiet /\ UNCHANGED <<edits, faults>>
  BY <1>29
  DEF Quiet, TypeOK, BeginSeal, Idle, Begin, Of, files, rows, records, process, working,
      budgets
<1>30. ASSUME NEW p \in Paths, NEW content \in Contents, External(p, content)
       PROVE  Quiet' => Quiet /\ UNCHANGED <<edits, faults>>
  BY <1>30
  DEF Quiet, TypeOK, External, Put, PathsOf, files, rows, records, process, working,
      budgets
<1>31. ASSUME Crash
       PROVE  Quiet' => Quiet /\ UNCHANGED <<edits, faults>>
  BY <1>31
  DEF Quiet, TypeOK, Crash, Stop, files, rows, records, process, working, budgets
<1>32. ASSUME Restart
       PROVE  Quiet' => Quiet /\ UNCHANGED <<edits, faults>>
  BY <1>32
  DEF Quiet, TypeOK, Restart, files, rows, records, process, working, budgets
<1>33. ASSUME UNCHANGED vars
       PROVE  Quiet' => Quiet /\ UNCHANGED <<edits, faults>>
  BY <1>33
  DEF Quiet, TypeOK, vars, files, rows, records, process, working, budgets
<1> QED
  BY <1>1, <1>2, <1>3, <1>4, <1>5, <1>6, <1>7, <1>8, <1>9, <1>10, <1>11, <1>12, <1>13,
     <1>14, <1>15, <1>16, <1>17, <1>18, <1>19, <1>20, <1>21, <1>22, <1>23, <1>24, <1>25,
     <1>26, <1>27, <1>28, <1>29, <1>30, <1>31, <1>32, <1>33
  DEF Next, JobStep

\* The next operation begins when nothing is unsettled.
LEMMA OneStep ==
    ASSUME TypeOK, Shaped, Meant, edits' = edits, faults' = faults, OneUnsettled,
           InHand, [Next]_vars
    PROVE  OneUnsettled'
<1>1. ASSUME NEW q \in prepared, SaveIntent(q)
       PROVE  OneUnsettled'
  BY <1>1
  DEF OneUnsettled, SaveIntent, At, GoTo, files, rows, records, process, working,
      budgets
<1>2. ASSUME NEW q \in prepared, SaveIntentFails(q)
       PROVE  OneUnsettled'
  BY <1>2 DEF TypeOK, SaveIntentFails, At, GoTo, Stop, Fault
<1>3. ASSUME NEW q \in prepared, Effect(q)
       PROVE  OneUnsettled'
  BY <1>3
  DEF OneUnsettled, Effect, At, Unwritten, Write, Put, PathsOf, files, rows, records,
      process, working, budgets
<1>4. ASSUME NEW q \in prepared, EffectRefused(q)
       PROVE  OneUnsettled'
  BY <1>4
  DEF OneUnsettled, EffectRefused, At, Unwritten, GoTo, files, rows, records, process,
      working, budgets
<1>5. ASSUME NEW q \in prepared, EffectFails(q)
       PROVE  OneUnsettled'
  BY <1>5 DEF TypeOK, EffectFails, At, Unwritten, Put, GoTo, Stop, Fault
<1>6. ASSUME NEW q \in prepared, Withdraw(q)
       PROVE  OneUnsettled'
  BY <1>6
  DEF OneUnsettled, Withdraw, At, Stop, Fault, files, rows, records, process, working,
      budgets
<1>7. ASSUME NEW q \in prepared, RecordEdit(q)
       PROVE  OneUnsettled'
  BY <1>7
  DEF OneUnsettled, RecordEdit, At, Record, GoTo, Stop, files, rows, records, process,
      working, budgets
<1>8. ASSUME NEW q \in prepared, RecordEditFails(q)
       PROVE  OneUnsettled'
  BY <1>8 DEF TypeOK, RecordEditFails, At, Record, Stop, Fault
<1>9. ASSUME NEW q \in prepared, RollBack(q)
       PROVE  OneUnsettled'
  BY <1>9
  DEF OneUnsettled, RollBack, At, Put, Abandon, Stop, files, rows, records, process,
      working, budgets
<1>10. ASSUME NEW q \in prepared, RollBackFails(q)
       PROVE  OneUnsettled'
  BY <1>10 DEF TypeOK, RollBackFails, At, Put, Abandon, Stop, Fault
<1>11. ASSUME NEW q \in prepared, ClearIntent(q)
       PROVE  OneUnsettled'
  BY <1>11
  DEF OneUnsettled, ClearIntent, At, files, rows, records, process, working, budgets
<1>12. ASSUME CommitRestore
       PROVE  OneUnsettled'
  BY <1>12
  DEF OneUnsettled, CommitRestore, At, Committed, GoTo, files, rows, records, process,
      working, budgets
<1>13. ASSUME CommitRestoreFails
       PROVE  OneUnsettled'
  BY <1>13 DEF TypeOK, CommitRestoreFails, At, Committed, GoTo, Stop, Fault
<1>14. ASSUME RolledBack
       PROVE  OneUnsettled'
  BY <1>14
  DEF OneUnsettled, RolledBack, At, GoTo, Abandon, Stop, files, rows, records, process,
      working, budgets
<1>15. ASSUME Cleared
       PROVE  OneUnsettled'
  BY <1>15
  DEF OneUnsettled, Cleared, At, Stop, files, rows, records, process, working, budgets
<1>16. ASSUME ClearFails
       PROVE  OneUnsettled'
  BY <1>16 DEF TypeOK, ClearFails, At, Abandon, Stop, Fault
<1>17. ASSUME NEW q \in pending, ReconcileEdit(q)
       PROVE  OneUnsettled'
  BY <1>17
  DEF OneUnsettled, ReconcileEdit, EditIntents, Settles, Resolvable, Record, files,
      rows, records, process, working, budgets
<1>18. ASSUME NEW q \in pending, EditConflicts(q)
       PROVE  OneUnsettled'
  BY <1>18
  DEF OneUnsettled, EditConflicts, EditIntents, Settles, Abandon, Stop, files, rows,
      records, process, working, budgets
<1>19. ASSUME NEW c \in ChangeSets, Settle(c)
       PROVE  OneUnsettled'
  BY <1>19
  DEF OneUnsettled, Settle, Of, EditIntents, Stop, files, rows, records, process,
      working, budgets
<1>20. ASSUME NEW c \in ChangeSets, SettleFails(c)
       PROVE  OneUnsettled'
  BY <1>20 DEF TypeOK, SettleFails, Of, Abandon, Stop, Fault
<1>21. ASSUME NEW c \in ChangeSets, SealOrphan(c)
       PROVE  OneUnsettled'
  BY <1>21
  DEF OneUnsettled, SealOrphan, files, rows, records, process, working, budgets
<1>22. ASSUME NEW c \in ChangeSets, NEW kind \in {"undo", "redo"}, ReconcileOperation(c, kind)
       PROVE  OneUnsettled'
  BY <1>22
  DEF OneUnsettled, ReconcileOperation, Reconciling, Group, files, rows, records,
      process, working, budgets
<1>23. ASSUME NEW c \in ChangeSets, NEW kind \in {"undo", "redo"}, OperationConflicts(c, kind)
       PROVE  OneUnsettled'
  BY <1>23
  DEF OneUnsettled, OperationConflicts, Reconciling, Abandon, Stop, files, rows,
      records, process, working, budgets
<1>24. ASSUME Activate
       PROVE  OneUnsettled'
  BY <1>24
  DEF OneUnsettled, Activate, files, rows, records, process, working, budgets
<1>25. ASSUME NEW c \in ChangeSets, OpenChangeSet(c)
       PROVE  OneUnsettled'
  BY <1>25
  DEF OneUnsettled, OpenChangeSet, Idle, files, rows, records, process, working, budgets
<1>26. ASSUME NEW c \in ChangeSets, RecordExecute(c)
       PROVE  OneUnsettled'
  BY <1>26
  DEF OneUnsettled, RecordExecute, Idle, files, rows, records, process, working, budgets
<1>27. ASSUME NEW c \in ChangeSets, NEW p \in Paths, NEW content \in Contents, BeginEdit(c, p, content)
       PROVE  OneUnsettled'
  <2>1. pending = {}
    BY <1>27 DEF BeginEdit, Idle, InHand, Shaped, TypeOK, Steps
  <2>2. UNCHANGED pending /\ touched' = {} /\ \A q, r \in prepared' : q = r
    BY <1>27 DEF BeginEdit, Begin, rows
  <2> QED
    BY <2>1, <2>2 DEF OneUnsettled
<1>28. ASSUME NEW c \in ChangeSets, NEW kind \in {"undo", "redo"}, BeginRestore(c, kind)
       PROVE  OneUnsettled'
  <2>1. pending = {}
    BY <1>28 DEF BeginRestore, Idle, InHand, Shaped, TypeOK, Steps
  <2>2. UNCHANGED pending /\ touched' = {} /\ prepared' = Restores(c, kind)
    BY <1>28 DEF BeginRestore, Begin, rows
  <2>3. \A q, r \in Restores(c, kind) :
           q.owner = r.owner /\ q.kind = r.kind /\ (q.path = r.path => q = r)
    BY DEF Restores
  <2> QED
    BY <2>1, <2>2, <2>3 DEF OneUnsettled
<1>29. ASSUME NEW c \in ChangeSets, NEW what \in {"seal", "discard"}, BeginSeal(c, what)
       PROVE  OneUnsettled'
  BY <1>29
  DEF OneUnsettled, BeginSeal, Idle, Begin, Of, files, rows, records, process, working,
      budgets
<1>30. ASSUME NEW p \in Paths, NEW content \in Contents, External(p, content)
       PROVE  OneUnsettled'
  BY <1>30 DEF TypeOK, External, Put, PathsOf
<1>31. ASSUME Crash
       PROVE  OneUnsettled'
  BY <1>31
  DEF OneUnsettled, Crash, Stop, files, rows, records, process, working, budgets
<1>32. ASSUME Restart
       PROVE  OneUnsettled'
  BY <1>32
  DEF OneUnsettled, Restart, files, rows, records, process, working, budgets
<1>33. ASSUME UNCHANGED vars
       PROVE  OneUnsettled'
  BY <1>33
  DEF OneUnsettled, vars, files, rows, records, process, working, budgets
<1> QED
  BY <1>1, <1>2, <1>3, <1>4, <1>5, <1>6, <1>7, <1>8, <1>9, <1>10, <1>11, <1>12, <1>13,
     <1>14, <1>15, <1>16, <1>17, <1>18, <1>19, <1>20, <1>21, <1>22, <1>23, <1>24, <1>25,
     <1>26, <1>27, <1>28, <1>29, <1>30, <1>31, <1>32, <1>33
  DEF Next, JobStep

\* What is unsettled stays in hand until it is settled or the process dies.
LEMMA HandStep ==
    ASSUME TypeOK, Numbered, Shaped, Wrote, edits' = edits, faults' = faults,
           OneUnsettled, InHand, Explainable, [Next]_vars
    PROVE  InHand'
<1>1. ASSUME NEW q \in prepared, SaveIntent(q)
       PROVE  InHand'
  BY <1>1
  DEF InHand, TypeOK, Steps, SaveIntent, At, GoTo, files, rows, records, process,
      working, budgets
<1>2. ASSUME NEW q \in prepared, SaveIntentFails(q)
       PROVE  InHand'
  BY <1>2 DEF TypeOK, SaveIntentFails, At, GoTo, Stop, Fault
<1>3. ASSUME NEW q \in prepared, Effect(q)
       PROVE  InHand'
  BY <1>3
  DEF InHand, TypeOK, Steps, Effect, At, Unwritten, Write, Put, PathsOf, files, rows,
      records, process, working, budgets
<1>4. ASSUME NEW q \in prepared, EffectRefused(q)
       PROVE  InHand'
  BY <1>4
  DEF InHand, TypeOK, Steps, EffectRefused, At, Unwritten, GoTo, files, rows, records,
      process, working, budgets
<1>5. ASSUME NEW q \in prepared, EffectFails(q)
       PROVE  InHand'
  BY <1>5 DEF TypeOK, EffectFails, At, Unwritten, Put, GoTo, Stop, Fault
<1>6. ASSUME NEW q \in prepared, Withdraw(q)
       PROVE  InHand'
  <2>1. step = "withdraw" /\ \A r \in prepared : r = q
    BY <1>6 DEF Withdraw, At, Shaped
  <2>2. pending' = {}
    BY <1>6, <2>1 DEF Withdraw, Fault, InHand, TypeOK
  <2> QED
    BY <1>6, <2>2 DEF Withdraw, Stop, InHand
<1>7. ASSUME NEW q \in prepared, RecordEdit(q)
       PROVE  InHand'
  <2>1. disk[q.path] = q.to
    BY <1>7 DEF RecordEdit, At, Explainable, Wrote
  <2> QED
    BY <1>7, <2>1 DEF RecordEdit, At, GoTo, InHand
<1>8. ASSUME NEW q \in prepared, RecordEditFails(q)
       PROVE  InHand'
  BY <1>8 DEF TypeOK, RecordEditFails, At, Record, Stop, Fault
<1>9. ASSUME NEW q \in prepared, RollBack(q)
       PROVE  InHand'
  <2>1. disk[q.path] = q.to /\ touched = {}
    BY <1>9 DEF RollBack, At, Explainable, OneUnsettled
  <2>2. UNCHANGED <<mode, step, prepared, pending, saved>>
    BY <1>9, <2>1 DEF RollBack, At, TypeOK, rows, records, process
  <2> QED
    BY <2>2 DEF InHand
<1>10. ASSUME NEW q \in prepared, RollBackFails(q)
       PROVE  InHand'
  BY <1>10 DEF TypeOK, RollBackFails, At, Put, Abandon, Stop, Fault
<1>11. ASSUME NEW q \in prepared, ClearIntent(q)
       PROVE  InHand'
  BY <1>11
  DEF InHand, TypeOK, Steps, ClearIntent, At, files, rows, records, process, working,
      budgets
<1>12. ASSUME CommitRestore
       PROVE  InHand'
  BY <1>12
  DEF InHand, TypeOK, Steps, CommitRestore, At, Committed, GoTo, files, rows, records,
      process, working, budgets
<1>13. ASSUME CommitRestoreFails
       PROVE  InHand'
  BY <1>13 DEF TypeOK, CommitRestoreFails, At, Committed, GoTo, Stop, Fault
<1>14. ASSUME RolledBack
       PROVE  InHand'
  <2>1. \A q \in prepared : disk[q.path] = q.from
    BY <1>14 DEF RolledBack, At, Explainable
  <2> QED
    BY <1>14, <2>1 DEF RolledBack, At, GoTo, rows, records, process, InHand
<1>15. ASSUME Cleared
       PROVE  InHand'
  BY <1>15
  DEF InHand, TypeOK, Steps, Cleared, At, Stop, files, rows, records, process, working,
      budgets
<1>16. ASSUME ClearFails
       PROVE  InHand'
  BY <1>16 DEF TypeOK, ClearFails, At, Abandon, Stop, Fault
<1>17. ASSUME NEW q \in pending, ReconcileEdit(q)
       PROVE  InHand'
  BY <1>17
  DEF InHand, TypeOK, Steps, ReconcileEdit, EditIntents, Settles, Resolvable, Record,
      files, rows, records, process, working, budgets
<1>18. ASSUME NEW q \in pending, EditConflicts(q)
       PROVE  InHand'
  BY <1>18
  DEF InHand, TypeOK, Steps, EditConflicts, EditIntents, Settles, Abandon, Stop, files,
      rows, records, process, working, budgets
<1>19. ASSUME NEW c \in ChangeSets, Settle(c)
       PROVE  InHand'
  BY <1>19
  DEF InHand, TypeOK, Steps, Settle, Of, EditIntents, Stop, files, rows, records,
      process, working, budgets
<1>20. ASSUME NEW c \in ChangeSets, SettleFails(c)
       PROVE  InHand'
  BY <1>20 DEF TypeOK, SettleFails, Of, Abandon, Stop, Fault
<1>21. ASSUME NEW c \in ChangeSets, SealOrphan(c)
       PROVE  InHand'
  BY <1>21
  DEF InHand, TypeOK, Steps, SealOrphan, files, rows, records, process, working, budgets
<1>22. ASSUME NEW c \in ChangeSets, NEW kind \in {"undo", "redo"}, ReconcileOperation(c, kind)
       PROVE  InHand'
  <2>1. pending = Group(c, kind)
    BY <1>22 DEF ReconcileOperation, Reconciling, Group, OneUnsettled
  <2>2. prepared' = pending' /\ step' \in {"clear", "rollback"}
    BY <1>22, <2>1 DEF ReconcileOperation, rows
  <2> QED
    BY <2>2 DEF InHand
<1>23. ASSUME NEW c \in ChangeSets, NEW kind \in {"undo", "redo"}, OperationConflicts(c, kind)
       PROVE  InHand'
  BY <1>23
  DEF InHand, TypeOK, Steps, OperationConflicts, Reconciling, Abandon, Stop, files,
      rows, records, process, working, budgets
<1>24. ASSUME Activate
       PROVE  InHand'
  BY <1>24
  DEF InHand, TypeOK, Steps, Activate, files, rows, records, process, working, budgets
<1>25. ASSUME NEW c \in ChangeSets, OpenChangeSet(c)
       PROVE  InHand'
  BY <1>25
  DEF InHand, TypeOK, Steps, OpenChangeSet, Idle, files, rows, records, process,
      working, budgets
<1>26. ASSUME NEW c \in ChangeSets, RecordExecute(c)
       PROVE  InHand'
  BY <1>26
  DEF InHand, TypeOK, Steps, RecordExecute, Idle, files, rows, records, process,
      working, budgets
<1>27. ASSUME NEW c \in ChangeSets, NEW p \in Paths, NEW content \in Contents, BeginEdit(c, p, content)
       PROVE  InHand'
  <2>1. pending = {}
    BY <1>27 DEF BeginEdit, Idle, InHand, Shaped, TypeOK, Steps
  <2>2. /\ UNCHANGED <<pending, saved>> /\ step' \notin {"idle", "settle"}
        /\ \A q \in prepared' : q.id = ops + 1
    BY <1>27 DEF BeginEdit, Begin, rows, records
  <2>3. prepared' \cap saved = {}
    BY <2>2 DEF Numbered, TypeOK, Intents
  <2> QED
    BY <2>1, <2>2, <2>3 DEF InHand
<1>28. ASSUME NEW c \in ChangeSets, NEW kind \in {"undo", "redo"}, BeginRestore(c, kind)
       PROVE  InHand'
  <2>1. pending = {}
    BY <1>28 DEF BeginRestore, Idle, InHand, Shaped, TypeOK, Steps
  <2>2. /\ UNCHANGED <<pending, saved>> /\ step' \notin {"idle", "settle"}
        /\ \A q \in prepared' : q.id = ops + 1
    BY <1>28 DEF BeginRestore, Begin, Restores, rows, records
  <2>3. prepared' \cap saved = {}
    BY <2>2 DEF Numbered, TypeOK, Intents
  <2> QED
    BY <2>1, <2>2, <2>3 DEF InHand
<1>29. ASSUME NEW c \in ChangeSets, NEW what \in {"seal", "discard"}, BeginSeal(c, what)
       PROVE  InHand'
  <2>1. prepared = {} /\ pending = {} /\ step \in {"idle", "settle"}
    BY <1>29 DEF BeginSeal, Idle, InHand, Shaped, TypeOK, Steps
  <2>2. UNCHANGED pending /\ prepared' = {} /\ step' \in {"idle", "settle"}
    BY <1>29, <2>1 DEF BeginSeal, Begin, Of, rows, working
  <2> QED
    BY <2>1, <2>2 DEF InHand
<1>30. ASSUME NEW p \in Paths, NEW content \in Contents, External(p, content)
       PROVE  InHand'
  BY <1>30 DEF TypeOK, External, Put, PathsOf
<1>31. ASSUME Crash
       PROVE  InHand'
  BY <1>31
  DEF InHand, TypeOK, Steps, Crash, Stop, files, rows, records, process, working,
      budgets
<1>32. ASSUME Restart
       PROVE  InHand'
  BY <1>32
  DEF InHand, TypeOK, Steps, Restart, files, rows, records, process, working, budgets
<1>33. ASSUME UNCHANGED vars
       PROVE  InHand'
  BY <1>33
  DEF InHand, TypeOK, Steps, vars, files, rows, records, process, working, budgets
<1> QED
  BY <1>1, <1>2, <1>3, <1>4, <1>5, <1>6, <1>7, <1>8, <1>9, <1>10, <1>11, <1>12, <1>13,
     <1>14, <1>15, <1>16, <1>17, <1>18, <1>19, <1>20, <1>21, <1>22, <1>23, <1>24, <1>25,
     <1>26, <1>27, <1>28, <1>29, <1>30, <1>31, <1>32, <1>33
  DEF Next, JobStep

\* What is unsettled can be told from the disk.
LEMMA ExplainableStep ==
    ASSUME TypeOK, Evidence, Shaped, Meant, Wrote, edits' = edits, faults' = faults,
           OneUnsettled, InHand, Explainable, [Next]_vars
    PROVE  Explainable'
<1>1. ASSUME NEW q \in prepared, SaveIntent(q)
       PROVE  Explainable'
  <2>1. /\ UNCHANGED <<files, lifecycle, saved, prepared, applied>> /\ pending' = pending \cup {q}
        /\ step = "intend"
    BY <1>1 DEF SaveIntent, At, GoTo, records
  <2>2. \A r \in prepared : disk[r.path] = IF r.path \in applied THEN r.to ELSE r.from
    BY <2>1 DEF Explainable
  <2>3. disk[q.path] = q.from /\ q \notin saved
    BY <2>1, <2>2 DEF Evidence, InHand
  <2>4. q.kind # "edit" => lifecycle[q.owner] # Committed(q.kind)
    BY <2>1 DEF Shaped, Source, Committed
  <2> QED
    BY <2>1, <2>2, <2>3, <2>4 DEF Explainable, files
<1>2. ASSUME NEW q \in prepared, SaveIntentFails(q)
       PROVE  Explainable'
  BY <1>2 DEF TypeOK, SaveIntentFails, At, GoTo, Stop, Fault
<1>3. ASSUME NEW q \in prepared, Effect(q)
       PROVE  Explainable'
  <2>1. /\ UNCHANGED <<lifecycle, saved, pending, prepared>> /\ applied' = applied \cup {q.path}
        /\ step = "effect"
    BY <1>3 DEF Effect, Unwritten, At, Write, rows, records
  <2>2. disk'[q.path] = q.to /\ \A p \in Paths : p # q.path => disk'[p] = disk[p]
    BY <1>3 DEF Effect, Write, Put, TypeOK, Intents
  <2>3. \A r \in pending \cup prepared : r \in Intents /\ (r.path = q.path => r = q)
    BY DEF OneUnsettled, TypeOK
  <2>4. \A r \in prepared : disk'[r.path] = IF r.path \in applied' THEN r.to ELSE r.from
    BY <2>1, <2>2, <2>3 DEF Explainable, Intents
  <2> QED
    BY <2>1, <2>2, <2>3, <2>4 DEF Explainable, Intents
<1>4. ASSUME NEW q \in prepared, EffectRefused(q)
       PROVE  Explainable'
  BY <1>4
  DEF Explainable, EffectRefused, At, Unwritten, GoTo, files, rows, records, process,
      working, budgets
<1>5. ASSUME NEW q \in prepared, EffectFails(q)
       PROVE  Explainable'
  BY <1>5 DEF TypeOK, EffectFails, At, Unwritten, Put, GoTo, Stop, Fault
<1>6. ASSUME NEW q \in prepared, Withdraw(q)
       PROVE  Explainable'
  BY <1>6
  DEF Explainable, Withdraw, At, Stop, Fault, files, rows, records, process, working,
      budgets
<1>7. ASSUME NEW q \in prepared, RecordEdit(q)
       PROVE  Explainable'
  BY <1>7
  DEF Explainable, RecordEdit, At, Record, GoTo, Stop, files, rows, records, process,
      working, budgets
<1>8. ASSUME NEW q \in prepared, RecordEditFails(q)
       PROVE  Explainable'
  BY <1>8 DEF TypeOK, RecordEditFails, At, Record, Stop, Fault
<1>9. ASSUME NEW q \in prepared, RollBack(q)
       PROVE  Explainable'
  <2>1. /\ UNCHANGED <<lifecycle, saved, pending>> /\ step = "rollback" /\ q.path \in applied
        /\ disk[q.path] = q.to /\ touched = {}
    BY <1>9 DEF RollBack, At, rows, records, Explainable, OneUnsettled
  <2>2. /\ UNCHANGED <<step, prepared>> /\ applied' = applied \ {q.path}
        /\ (UNCHANGED files /\ disk[q.path] = q.from) \/ Put(q.path, q.from, q.owner)
    BY <1>9, <2>1 DEF RollBack, At, TypeOK
  <2>3. disk'[q.path] = q.from /\ \A p \in Paths : p # q.path => disk'[p] = disk[p]
    BY <2>2 DEF Put, TypeOK, Intents, files
  <2>4. \A r \in pending \cup prepared : r \in Intents /\ (r.path = q.path => r = q)
    BY DEF OneUnsettled, TypeOK
  <2>5. \A r \in prepared : disk'[r.path] = IF r.path \in applied' THEN r.to ELSE r.from
    BY <2>1, <2>2, <2>3, <2>4 DEF Explainable, Intents
  <2>6. q.kind # "edit" /\ lifecycle[q.owner] # Committed(q.kind)
    BY <2>1 DEF Shaped, Source, Committed
  <2> QED
    BY <2>1, <2>2, <2>3, <2>4, <2>5, <2>6 DEF Explainable, Intents
<1>10. ASSUME NEW q \in prepared, RollBackFails(q)
       PROVE  Explainable'
  BY <1>10 DEF TypeOK, RollBackFails, At, Put, Abandon, Stop, Fault
<1>11. ASSUME NEW q \in prepared, ClearIntent(q)
       PROVE  Explainable'
  BY <1>11
  DEF Explainable, ClearIntent, At, files, rows, records, process, working, budgets
<1>12. ASSUME CommitRestore
       PROVE  Explainable'
  <2>1. UNCHANGED <<files, saved, pending>> /\ step = "record" /\ step' = "clear"
    BY <1>12 DEF CommitRestore, At, GoTo, records
  <2>2. \A q \in pending : disk[q.path] = q.to
    BY <2>1 DEF InHand, Wrote, Explainable
  <2> QED
    BY <2>1, <2>2 DEF Explainable, files
<1>13. ASSUME CommitRestoreFails
       PROVE  Explainable'
  BY <1>13 DEF TypeOK, CommitRestoreFails, At, Committed, GoTo, Stop, Fault
<1>14. ASSUME RolledBack
       PROVE  Explainable'
  BY <1>14
  DEF Explainable, RolledBack, At, GoTo, Abandon, Stop, files, rows, records, process,
      working, budgets
<1>15. ASSUME Cleared
       PROVE  Explainable'
  BY <1>15
  DEF Explainable, Cleared, At, Stop, files, rows, records, process, working, budgets
<1>16. ASSUME ClearFails
       PROVE  Explainable'
  BY <1>16 DEF TypeOK, ClearFails, At, Abandon, Stop, Fault
<1>17. ASSUME NEW q \in pending, ReconcileEdit(q)
       PROVE  Explainable'
  BY <1>17
  DEF Explainable, ReconcileEdit, EditIntents, Settles, Resolvable, Record, files, rows,
      records, process, working, budgets
<1>18. ASSUME NEW q \in pending, EditConflicts(q)
       PROVE  Explainable'
  BY <1>18
  DEF Explainable, EditConflicts, EditIntents, Settles, Abandon, Stop, files, rows,
      records, process, working, budgets
<1>19. ASSUME NEW c \in ChangeSets, Settle(c)
       PROVE  Explainable'
  <2>1. UNCHANGED <<files, saved, pending>> /\ step' = "idle"
    BY <1>19 DEF Settle, Stop, records
  <2>2. \A q \in pending : lifecycle'[q.owner] = lifecycle[q.owner] \/ lifecycle'[q.owner] = "deleted"
    BY <1>19, IntentTyped DEF Settle, Of, TypeOK
  <2> QED
    BY <2>1, <2>2 DEF Explainable, Committed, files
<1>20. ASSUME NEW c \in ChangeSets, SettleFails(c)
       PROVE  Explainable'
  BY <1>20 DEF TypeOK, SettleFails, Of, Abandon, Stop, Fault
<1>21. ASSUME NEW c \in ChangeSets, SealOrphan(c)
       PROVE  Explainable'
  BY <1>21
  DEF Explainable, SealOrphan, files, rows, records, process, working, budgets
<1>22. ASSUME NEW c \in ChangeSets, NEW kind \in {"undo", "redo"}, ReconcileOperation(c, kind)
       PROVE  Explainable'
  <2>1. UNCHANGED <<files, lifecycle, saved, pending>> /\ prepared' = Group(c, kind)
    BY <1>22 DEF ReconcileOperation, rows, records
  <2>2. CASE step' = "clear"
    BY <2>1, <2>2 DEF Explainable, files
  <2>3. CASE applied' = {q.path : q \in {r \in prepared' : disk[r.path] = r.to}}
    <3>1. ASSUME NEW q \in prepared'
          PROVE  disk[q.path] = IF q.path \in applied' THEN q.to ELSE q.from
      <4>1. q \in pending /\ disk[q.path] \in {q.from, q.to}
        BY <2>1, <3>1 DEF Group, Explainable
      <4>2. \A r \in prepared' : r.path = q.path => r = q
        BY <2>1, <3>1 DEF Group, OneUnsettled
      <4> QED
        BY <2>3, <3>1, <4>1, <4>2
    <3> QED
      BY <2>1, <3>1 DEF Explainable, files
  <2> QED
    BY <1>22, <2>2, <2>3 DEF ReconcileOperation
<1>23. ASSUME NEW c \in ChangeSets, NEW kind \in {"undo", "redo"}, OperationConflicts(c, kind)
       PROVE  Explainable'
  BY <1>23
  DEF Explainable, OperationConflicts, Reconciling, Abandon, Stop, files, rows, records,
      process, working, budgets
<1>24. ASSUME Activate
       PROVE  Explainable'
  BY <1>24
  DEF Explainable, Activate, files, rows, records, process, working, budgets
<1>25. ASSUME NEW c \in ChangeSets, OpenChangeSet(c)
       PROVE  Explainable'
  <2>1. UNCHANGED <<files, saved, pending, step, prepared, applied>>
    BY <1>25 DEF OpenChangeSet, records, working
  <2>2. \A q \in pending : lifecycle'[q.owner] = lifecycle[q.owner] \/ lifecycle'[q.owner] = "open"
    BY <1>25, IntentTyped DEF OpenChangeSet, TypeOK
  <2> QED
    BY <2>1, <2>2 DEF Explainable, Committed, files
<1>26. ASSUME NEW c \in ChangeSets, RecordExecute(c)
       PROVE  Explainable'
  BY <1>26
  DEF Explainable, RecordExecute, Idle, files, rows, records, process, working, budgets
<1>27. ASSUME NEW c \in ChangeSets, NEW p \in Paths, NEW content \in Contents, BeginEdit(c, p, content)
       PROVE  Explainable'
  BY <1>27
  DEF Explainable, BeginEdit, Idle, Begin, files, rows, records, process, working,
      budgets
<1>28. ASSUME NEW c \in ChangeSets, NEW kind \in {"undo", "redo"}, BeginRestore(c, kind)
       PROVE  Explainable'
  BY <1>28
  DEF Explainable, BeginRestore, Idle, Begin, Restores, files, rows, records, process,
      working, budgets
<1>29. ASSUME NEW c \in ChangeSets, NEW what \in {"seal", "discard"}, BeginSeal(c, what)
       PROVE  Explainable'
  BY <1>29
  DEF Explainable, BeginSeal, Idle, Begin, Of, files, rows, records, process, working,
      budgets
<1>30. ASSUME NEW p \in Paths, NEW content \in Contents, External(p, content)
       PROVE  Explainable'
  BY <1>30 DEF TypeOK, External, Put, PathsOf
<1>31. ASSUME Crash
       PROVE  Explainable'
  BY <1>31
  DEF Explainable, Crash, Stop, files, rows, records, process, working, budgets
<1>32. ASSUME Restart
       PROVE  Explainable'
  BY <1>32
  DEF Explainable, Restart, files, rows, records, process, working, budgets
<1>33. ASSUME UNCHANGED vars
       PROVE  Explainable'
  BY <1>33
  DEF Explainable, vars, files, rows, records, process, working, budgets
<1> QED
  BY <1>1, <1>2, <1>3, <1>4, <1>5, <1>6, <1>7, <1>8, <1>9, <1>10, <1>11, <1>12, <1>13,
     <1>14, <1>15, <1>16, <1>17, <1>18, <1>19, <1>20, <1>21, <1>22, <1>23, <1>24, <1>25,
     <1>26, <1>27, <1>28, <1>29, <1>30, <1>31, <1>32, <1>33
  DEF Next, JobStep

\* What a process that nobody disturbed leaves can always be settled.
THEOREM AlwaysRecoverable == Spec => []Recoverable
<1>1. Init => Recoverable
  BY DEF Init, Recoverable, OneUnsettled, InHand, Explainable
<1>2. Sound /\ Recoverable /\ [Next]_vars => Recoverable'
  <2> SUFFICES ASSUME Sound, Recoverable, [Next]_vars, Quiet'
               PROVE  OneUnsettled' /\ InHand' /\ Explainable'
    BY DEF Recoverable
  <2>1. TypeOK /\ Evidence /\ Numbered /\ Shaped /\ Meant /\ Wrote
    BY DEF Sound, IInv
  <2>2. Quiet /\ edits' = edits /\ faults' = faults
    BY <2>1, QuietBefore
  <2>3. OneUnsettled /\ InHand /\ Explainable
    BY <2>2 DEF Recoverable
  <2> QED
    BY <2>1, <2>2, <2>3, OneStep, HandStep, ExplainableStep
<1> QED
  BY <1>1, <1>2, SoundAlways, PTL DEF Spec

\* A startup settles what is recoverable.
LEMMA StartupStep ==
    ASSUME TypeOK, Shaped, Meant, edits' = edits, faults' = faults, OneUnsettled,
           InHand, Explainable, [Next]_vars
    PROVE  ~StartupFails
<1>1. ASSUME NEW q \in prepared, SaveIntent(q)
       PROVE  ~StartupFails
  BY <1>1
  DEF StartupFails, TypeOK, SaveIntent, At, GoTo, files, rows, records, process,
      working, budgets
<1>2. ASSUME NEW q \in prepared, SaveIntentFails(q)
       PROVE  ~StartupFails
  BY <1>2 DEF TypeOK, SaveIntentFails, At, GoTo, Stop, Fault
<1>3. ASSUME NEW q \in prepared, Effect(q)
       PROVE  ~StartupFails
  BY <1>3
  DEF StartupFails, TypeOK, Effect, At, Unwritten, Write, Put, PathsOf, files, rows,
      records, process, working, budgets
<1>4. ASSUME NEW q \in prepared, EffectRefused(q)
       PROVE  ~StartupFails
  BY <1>4
  DEF StartupFails, TypeOK, EffectRefused, At, Unwritten, GoTo, files, rows, records,
      process, working, budgets
<1>5. ASSUME NEW q \in prepared, EffectFails(q)
       PROVE  ~StartupFails
  BY <1>5 DEF TypeOK, EffectFails, At, Unwritten, Put, GoTo, Stop, Fault
<1>6. ASSUME NEW q \in prepared, Withdraw(q)
       PROVE  ~StartupFails
  BY <1>6
  DEF StartupFails, TypeOK, Withdraw, At, Stop, Fault, files, rows, records, process,
      working, budgets
<1>7. ASSUME NEW q \in prepared, RecordEdit(q)
       PROVE  ~StartupFails
  BY <1>7
  DEF StartupFails, TypeOK, RecordEdit, At, Record, GoTo, Stop, files, rows, records,
      process, working, budgets
<1>8. ASSUME NEW q \in prepared, RecordEditFails(q)
       PROVE  ~StartupFails
  BY <1>8 DEF TypeOK, RecordEditFails, At, Record, Stop, Fault
<1>9. ASSUME NEW q \in prepared, RollBack(q)
       PROVE  ~StartupFails
  <2>1. disk[q.path] = q.to /\ touched = {}
    BY <1>9 DEF RollBack, At, Explainable, OneUnsettled
  <2> QED
    BY <1>9, <2>1 DEF RollBack, At, TypeOK, process, StartupFails
<1>10. ASSUME NEW q \in prepared, RollBackFails(q)
       PROVE  ~StartupFails
  BY <1>10 DEF TypeOK, RollBackFails, At, Put, Abandon, Stop, Fault
<1>11. ASSUME NEW q \in prepared, ClearIntent(q)
       PROVE  ~StartupFails
  BY <1>11
  DEF StartupFails, TypeOK, ClearIntent, At, files, rows, records, process, working,
      budgets
<1>12. ASSUME CommitRestore
       PROVE  ~StartupFails
  BY <1>12
  DEF StartupFails, TypeOK, CommitRestore, At, Committed, GoTo, files, rows, records,
      process, working, budgets
<1>13. ASSUME CommitRestoreFails
       PROVE  ~StartupFails
  BY <1>13 DEF TypeOK, CommitRestoreFails, At, Committed, GoTo, Stop, Fault
<1>14. ASSUME RolledBack
       PROVE  ~StartupFails
  <2>1. \A q \in prepared : disk[q.path] = q.from
    BY <1>14 DEF RolledBack, At, Explainable
  <2> QED
    BY <1>14, <2>1 DEF RolledBack, At, GoTo, process, StartupFails
<1>15. ASSUME Cleared
       PROVE  ~StartupFails
  BY <1>15
  DEF StartupFails, TypeOK, Cleared, At, Stop, files, rows, records, process, working,
      budgets
<1>16. ASSUME ClearFails
       PROVE  ~StartupFails
  BY <1>16 DEF TypeOK, ClearFails, At, Abandon, Stop, Fault
<1>17. ASSUME NEW q \in pending, ReconcileEdit(q)
       PROVE  ~StartupFails
  BY <1>17
  DEF StartupFails, TypeOK, ReconcileEdit, EditIntents, Settles, Resolvable, Record,
      files, rows, records, process, working, budgets
<1>18. ASSUME NEW q \in pending, EditConflicts(q)
       PROVE  ~StartupFails
  <2>1. EditMeant(q)
    BY <1>18, PendingLive DEF EditConflicts, EditIntents, Meant
  <2> QED
    BY <1>18, <2>1 DEF EditConflicts, EditIntents, Resolvable, EditMeant, Explainable
<1>19. ASSUME NEW c \in ChangeSets, Settle(c)
       PROVE  ~StartupFails
  BY <1>19
  DEF StartupFails, TypeOK, Settle, Of, EditIntents, Stop, files, rows, records,
      process, working, budgets
<1>20. ASSUME NEW c \in ChangeSets, SettleFails(c)
       PROVE  ~StartupFails
  BY <1>20 DEF TypeOK, SettleFails, Of, Abandon, Stop, Fault
<1>21. ASSUME NEW c \in ChangeSets, SealOrphan(c)
       PROVE  ~StartupFails
  BY <1>21
  DEF StartupFails, TypeOK, SealOrphan, files, rows, records, process, working, budgets
<1>22. ASSUME NEW c \in ChangeSets, NEW kind \in {"undo", "redo"}, ReconcileOperation(c, kind)
       PROVE  ~StartupFails
  BY <1>22
  DEF StartupFails, TypeOK, ReconcileOperation, Reconciling, Group, files, rows,
      records, process, working, budgets
<1>23. ASSUME NEW c \in ChangeSets, NEW kind \in {"undo", "redo"}, OperationConflicts(c, kind)
       PROVE  ~StartupFails
  <2>1. \A q \in Group(c, kind) :
           /\ lifecycle[c] \in {"applied", "undone"}
           /\ disk[q.path] \in {q.from, q.to}
           /\ lifecycle[c] = Committed(kind) => disk[q.path] = q.to
    BY PendingLive DEF Group, Meant, RestoreMeant, Explainable
  <2> QED
    BY <1>23, <2>1 DEF OperationConflicts, Reconciling, Explained, Source, Committed
<1>24. ASSUME Activate
       PROVE  ~StartupFails
  BY <1>24
  DEF StartupFails, TypeOK, Activate, files, rows, records, process, working, budgets
<1>25. ASSUME NEW c \in ChangeSets, OpenChangeSet(c)
       PROVE  ~StartupFails
  BY <1>25
  DEF StartupFails, TypeOK, OpenChangeSet, Idle, files, rows, records, process, working,
      budgets
<1>26. ASSUME NEW c \in ChangeSets, RecordExecute(c)
       PROVE  ~StartupFails
  BY <1>26
  DEF StartupFails, TypeOK, RecordExecute, Idle, files, rows, records, process, working,
      budgets
<1>27. ASSUME NEW c \in ChangeSets, NEW p \in Paths, NEW content \in Contents, BeginEdit(c, p, content)
       PROVE  ~StartupFails
  BY <1>27
  DEF StartupFails, TypeOK, BeginEdit, Idle, Begin, files, rows, records, process,
      working, budgets
<1>28. ASSUME NEW c \in ChangeSets, NEW kind \in {"undo", "redo"}, BeginRestore(c, kind)
       PROVE  ~StartupFails
  BY <1>28
  DEF StartupFails, TypeOK, BeginRestore, Idle, Begin, Restores, files, rows, records,
      process, working, budgets
<1>29. ASSUME NEW c \in ChangeSets, NEW what \in {"seal", "discard"}, BeginSeal(c, what)
       PROVE  ~StartupFails
  BY <1>29
  DEF StartupFails, TypeOK, BeginSeal, Idle, Begin, Of, files, rows, records, process,
      working, budgets
<1>30. ASSUME NEW p \in Paths, NEW content \in Contents, External(p, content)
       PROVE  ~StartupFails
  BY <1>30
  DEF StartupFails, TypeOK, External, Put, PathsOf, files, rows, records, process,
      working, budgets
<1>31. ASSUME Crash
       PROVE  ~StartupFails
  BY <1>31 DEF Crash, TypeOK, StartupFails
<1>32. ASSUME Restart
       PROVE  ~StartupFails
  BY <1>32
  DEF StartupFails, TypeOK, Restart, files, rows, records, process, working, budgets
<1>33. ASSUME UNCHANGED vars
       PROVE  ~StartupFails
  BY <1>33
  DEF StartupFails, TypeOK, vars, files, rows, records, process, working, budgets
<1> QED
  BY <1>1, <1>2, <1>3, <1>4, <1>5, <1>6, <1>7, <1>8, <1>9, <1>10, <1>11, <1>12, <1>13,
     <1>14, <1>15, <1>16, <1>17, <1>18, <1>19, <1>20, <1>21, <1>22, <1>23, <1>24, <1>25,
     <1>26, <1>27, <1>28, <1>29, <1>30, <1>31, <1>32, <1>33
  DEF Next, JobStep

\* A user edit does not stop the process.
LEMMA EditsStep ==
    ASSUME [Next]_vars
    PROVE  edits' = edits \/ mode' = mode
<1>1. ASSUME NEW q \in prepared, SaveIntent(q)
       PROVE  edits' = edits \/ mode' = mode
  BY <1>1
  DEF SaveIntent, At, GoTo, files, rows, records, process, working, budgets
<1>2. ASSUME NEW q \in prepared, SaveIntentFails(q)
       PROVE  edits' = edits \/ mode' = mode
  BY <1>2
  DEF SaveIntentFails, At, GoTo, Stop, Fault, files, rows, records, process, working,
      budgets
<1>3. ASSUME NEW q \in prepared, Effect(q)
       PROVE  edits' = edits \/ mode' = mode
  BY <1>3
  DEF Effect, At, Unwritten, Write, Put, PathsOf, files, rows, records, process,
      working, budgets
<1>4. ASSUME NEW q \in prepared, EffectRefused(q)
       PROVE  edits' = edits \/ mode' = mode
  BY <1>4
  DEF EffectRefused, At, Unwritten, GoTo, files, rows, records, process, working,
      budgets
<1>5. ASSUME NEW q \in prepared, EffectFails(q)
       PROVE  edits' = edits \/ mode' = mode
  BY <1>5
  DEF EffectFails, At, Unwritten, Put, GoTo, Stop, Fault, files, rows, records, process,
      working, budgets
<1>6. ASSUME NEW q \in prepared, Withdraw(q)
       PROVE  edits' = edits \/ mode' = mode
  BY <1>6
  DEF Withdraw, At, Stop, Fault, files, rows, records, process, working, budgets
<1>7. ASSUME NEW q \in prepared, RecordEdit(q)
       PROVE  edits' = edits \/ mode' = mode
  BY <1>7
  DEF RecordEdit, At, Record, GoTo, Stop, files, rows, records, process, working,
      budgets
<1>8. ASSUME NEW q \in prepared, RecordEditFails(q)
       PROVE  edits' = edits \/ mode' = mode
  BY <1>8
  DEF RecordEditFails, At, Record, Stop, Fault, files, rows, records, process, working,
      budgets
<1>9. ASSUME NEW q \in prepared, RollBack(q)
       PROVE  edits' = edits \/ mode' = mode
  BY <1>9
  DEF RollBack, At, Put, Abandon, Stop, files, rows, records, process, working, budgets
<1>10. ASSUME NEW q \in prepared, RollBackFails(q)
       PROVE  edits' = edits \/ mode' = mode
  BY <1>10
  DEF RollBackFails, At, Put, Abandon, Stop, Fault, files, rows, records, process,
      working, budgets
<1>11. ASSUME NEW q \in prepared, ClearIntent(q)
       PROVE  edits' = edits \/ mode' = mode
  BY <1>11
  DEF ClearIntent, At, files, rows, records, process, working, budgets
<1>12. ASSUME CommitRestore
       PROVE  edits' = edits \/ mode' = mode
  BY <1>12
  DEF CommitRestore, At, Committed, GoTo, files, rows, records, process, working,
      budgets
<1>13. ASSUME CommitRestoreFails
       PROVE  edits' = edits \/ mode' = mode
  BY <1>13
  DEF CommitRestoreFails, At, Committed, GoTo, Stop, Fault, files, rows, records,
      process, working, budgets
<1>14. ASSUME RolledBack
       PROVE  edits' = edits \/ mode' = mode
  BY <1>14
  DEF RolledBack, At, GoTo, Abandon, Stop, files, rows, records, process, working,
      budgets
<1>15. ASSUME Cleared
       PROVE  edits' = edits \/ mode' = mode
  BY <1>15
  DEF Cleared, At, Stop, files, rows, records, process, working, budgets
<1>16. ASSUME ClearFails
       PROVE  edits' = edits \/ mode' = mode
  BY <1>16
  DEF ClearFails, At, Abandon, Stop, Fault, files, rows, records, process, working,
      budgets
<1>17. ASSUME NEW q \in pending, ReconcileEdit(q)
       PROVE  edits' = edits \/ mode' = mode
  BY <1>17
  DEF ReconcileEdit, EditIntents, Settles, Resolvable, Record, files, rows, records,
      process, working, budgets
<1>18. ASSUME NEW q \in pending, EditConflicts(q)
       PROVE  edits' = edits \/ mode' = mode
  BY <1>18
  DEF EditConflicts, EditIntents, Settles, Abandon, Stop, files, rows, records, process,
      working, budgets
<1>19. ASSUME NEW c \in ChangeSets, Settle(c)
       PROVE  edits' = edits \/ mode' = mode
  BY <1>19
  DEF Settle, Of, EditIntents, Stop, files, rows, records, process, working, budgets
<1>20. ASSUME NEW c \in ChangeSets, SettleFails(c)
       PROVE  edits' = edits \/ mode' = mode
  BY <1>20
  DEF SettleFails, Of, Abandon, Stop, Fault, files, rows, records, process, working,
      budgets
<1>21. ASSUME NEW c \in ChangeSets, SealOrphan(c)
       PROVE  edits' = edits \/ mode' = mode
  BY <1>21
  DEF SealOrphan, files, rows, records, process, working, budgets
<1>22. ASSUME NEW c \in ChangeSets, NEW kind \in {"undo", "redo"}, ReconcileOperation(c, kind)
       PROVE  edits' = edits \/ mode' = mode
  BY <1>22
  DEF ReconcileOperation, Reconciling, Group, files, rows, records, process, working,
      budgets
<1>23. ASSUME NEW c \in ChangeSets, NEW kind \in {"undo", "redo"}, OperationConflicts(c, kind)
       PROVE  edits' = edits \/ mode' = mode
  BY <1>23
  DEF OperationConflicts, Reconciling, Abandon, Stop, files, rows, records, process,
      working, budgets
<1>24. ASSUME Activate
       PROVE  edits' = edits \/ mode' = mode
  BY <1>24
  DEF Activate, files, rows, records, process, working, budgets
<1>25. ASSUME NEW c \in ChangeSets, OpenChangeSet(c)
       PROVE  edits' = edits \/ mode' = mode
  BY <1>25
  DEF OpenChangeSet, Idle, files, rows, records, process, working, budgets
<1>26. ASSUME NEW c \in ChangeSets, RecordExecute(c)
       PROVE  edits' = edits \/ mode' = mode
  BY <1>26
  DEF RecordExecute, Idle, files, rows, records, process, working, budgets
<1>27. ASSUME NEW c \in ChangeSets, NEW p \in Paths, NEW content \in Contents, BeginEdit(c, p, content)
       PROVE  edits' = edits \/ mode' = mode
  BY <1>27
  DEF BeginEdit, Idle, Begin, files, rows, records, process, working, budgets
<1>28. ASSUME NEW c \in ChangeSets, NEW kind \in {"undo", "redo"}, BeginRestore(c, kind)
       PROVE  edits' = edits \/ mode' = mode
  BY <1>28
  DEF BeginRestore, Idle, Begin, Restores, files, rows, records, process, working,
      budgets
<1>29. ASSUME NEW c \in ChangeSets, NEW what \in {"seal", "discard"}, BeginSeal(c, what)
       PROVE  edits' = edits \/ mode' = mode
  BY <1>29
  DEF BeginSeal, Idle, Begin, Of, files, rows, records, process, working, budgets
<1>30. ASSUME NEW p \in Paths, NEW content \in Contents, External(p, content)
       PROVE  edits' = edits \/ mode' = mode
  BY <1>30
  DEF External, Put, PathsOf, files, rows, records, process, working, budgets
<1>31. ASSUME Crash
       PROVE  edits' = edits \/ mode' = mode
  BY <1>31
  DEF Crash, Stop, files, rows, records, process, working, budgets
<1>32. ASSUME Restart
       PROVE  edits' = edits \/ mode' = mode
  BY <1>32
  DEF Restart, files, rows, records, process, working, budgets
<1>33. ASSUME UNCHANGED vars
       PROVE  edits' = edits \/ mode' = mode
  BY <1>33
  DEF vars, files, rows, records, process, working, budgets
<1> QED
  BY <1>1, <1>2, <1>3, <1>4, <1>5, <1>6, <1>7, <1>8, <1>9, <1>10, <1>11, <1>12, <1>13,
     <1>14, <1>15, <1>16, <1>17, <1>18, <1>19, <1>20, <1>21, <1>22, <1>23, <1>24, <1>25,
     <1>26, <1>27, <1>28, <1>29, <1>30, <1>31, <1>32, <1>33
  DEF Next, JobStep

\* RestartRecovers, for every instance: a crash alone, whenever it comes and
\* however often, a startup included, leaves nothing that startup refuses.
THEOREM StartupSucceeds == Spec => RestartRecovers
<1>1. Sound /\ Recoverable /\ [Next]_vars =>
         [StartupFails => edits > 0 \/ faults' > 0]_vars
  <2> SUFFICES ASSUME Sound, Recoverable, [Next]_vars, StartupFails, ~(edits > 0), ~(faults' > 0)
               PROVE  FALSE
    OBVIOUS
  <2>1. TypeOK /\ Shaped /\ Meant
    BY DEF Sound, IInv
  <2>2. TypeOK'
    BY <2>1, TypeStep
  <2>3. faults' = 0 /\ edits = 0
    BY <2>1, <2>2 DEF TypeOK
  <2>4. edits' = edits
    BY EditsStep DEF StartupFails
  <2>5. Quiet /\ UNCHANGED <<edits, faults>>
    BY <2>1, <2>3, <2>4, QuietBefore DEF Quiet
  <2>6. OneUnsettled /\ InHand /\ Explainable
    BY <2>5 DEF Recoverable
  <2> QED
    BY <2>1, <2>5, <2>6, StartupStep
<1> QED
  BY <1>1, SoundAlways, AlwaysRecoverable, PTL DEF Spec, RestartRecovers

=============================================================================
