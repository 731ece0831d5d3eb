---------------------------- MODULE Turns_proofs ----------------------------
(***************************************************************************)
(* Turns, as the process lives them and as the database keeps them.  What  *)
(* TLC checks of TurnLifecycle for three Turns, one crash and one fault    *)
(* holds for any set of Turns and any number of either; what it checks of  *)
(* Conversations for two Threads, two callers and a few calls holds for    *)
(* any number of them and for pages and transcripts of any length.         *)
(***************************************************************************)
EXTENDS TurnLifecycle, Conversations, FiniteSetTheorems, TLAPS

\* Who may touch which Turn: a Turn a failed start still cleans up after is
\* nobody's work and not on offer, one being executed is not on offer, one a
\* startup settled is finished, and nobody works while the process is down or
\* starting.
Custody ==
    /\ mode # "up" => owner = Nobody /\ \A t \in Turns : compensating[t] = "none"
    /\ mode # "reconciling" => todo = {}
    /\ owner = Nobody => stage = "idle"
    /\ asking # Nobody => asking \in recoverable
    /\ \A t \in recoverable \cup todo : status[t] # "none"
    /\ \A t \in Turns : compensating[t] # "none" =>
          owner # t /\ t \notin recoverable /\ status[t] # "none"
    /\ \A t \in Turns : compensating[t] = "requeue" => InProgress(t)
    /\ \A t \in settled : status[t] \in Terminal
    /\ \A t \in Turns : owner = t /\ stage # "aborted" => t \notin recoverable

\* Whoever is about to write a terminal status knows which.
Decided ==
    /\ stage \in {"persist", "seal", "delete", "publish", "refused", "left"}
       => target \in Terminal
    /\ phase \in {"reserved", "starting", "running"} => target = "none"
    /\ phase = "starting" => stage = "begun"
    /\ stage \in {"beginning", "unbegin"} => phase = "reserved"

\* What keeps an acknowledged cancellation from ending as a completion.
AckKept ==
    /\ crashes = 0 => mode = "up" /\ recoverable = {} /\ kind # "resume"
    /\ crashes = 0 => \A t \in Turns : compensating[t] # "requeue"
    /\ crashes = 0 => \A t \in acked :
          /\ status[t] \notin {"none", "completed"}
          /\ owner = t => /\ phase \notin {"reserved", "starting", "running", "committing"}
                          /\ target # "completed"
          /\ owner = t => stage \notin {"beginning", "unbegin"}

IInv == /\ TypeOK /\ Custody /\ OwnedTurnIsOpen /\ Decided
        /\ OneTurnPerThread /\ AckKept

-----------------------------------------------------------------------------

LEMMA InitInv == Init => IInv
  <1> SUFFICES ASSUME Init PROVE IInv
    OBVIOUS
  <1> USE TurnsAssumption DEF Init
  <1>1. TypeOK
    <2>1. status \in [Turns -> Statuses] /\ checkpoint \in [Turns -> Checkpoints]
      BY DEF Statuses, Checkpoints
    <2>2. /\ changes \in [Turns -> {"none", "open", "sealed"}]
          /\ compensating \in [Turns -> {"none", "failed", "cancelled", "requeue"}]
      OBVIOUS
    <2>3. told \in [Turns -> Terminal \cup {"none", "refused"}]
      OBVIOUS
    <2>4. crashes \in 0..MaxCrashes /\ faults \in 0..MaxFaults
      OBVIOUS
    <2>5. QED
      BY <2>1, <2>2, <2>3, <2>4 DEF TypeOK, Phases, Stages
  <1>2. Custody /\ Decided /\ AckKept
    BY DEF Custody, Decided, AckKept
  <1>3. OwnedTurnIsOpen /\ OneTurnPerThread
    BY DEF OwnedTurnIsOpen, OneTurnPerThread, InProgress
  <1>4. QED
    BY <1>1, <1>2, <1>3 DEF IInv

LEMMA TypeStep == IInv /\ [Next]_vars => TypeOK'
  <1> SUFFICES ASSUME IInv, [Next]_vars PROVE TypeOK'
    OBVIOUS
  <1> USE TurnsAssumption DEF IInv, TypeOK, InProgress, ThreadFree, Write, Fault, Idle,
     Take, At, Go, AskNext, Volatile, Looking, durable, recovery, work, history,
     budgets, vars, Terminal, Statuses, Checkpoints, Phases, Stages
  <1>1. ASSUME NEW t \in Turns, NEW k \in {"submit", "retry"}, Submit(t, k) PROVE TypeOK'
    BY <1>1 DEF Submit
  <1>2. ASSUME NEW t \in Turns, BeginTurn(t) PROVE TypeOK'
    BY <1>2 DEF BeginTurn
  <1>3. ASSUME NEW t \in Turns, BeginFails(t) PROVE TypeOK'
    <2>1. status' \in [Turns -> Statuses]
      BY <1>3 DEF BeginFails
    <2>2. faults' \in 0..MaxFaults
      BY <1>3 DEF BeginFails
    <2>3. QED
      BY <1>3, <2>1, <2>2 DEF BeginFails
  <1>4. ASSUME NEW t \in Turns, CancelBegunTurn(t) PROVE TypeOK'
    <2>1. status' \in [Turns -> Statuses]
      BY <1>4 DEF CancelBegunTurn
    <2>2. faults' \in 0..MaxFaults
      BY <1>4 DEF CancelBegunTurn
    <2>3. QED
      BY <1>4, <2>1, <2>2 DEF CancelBegunTurn
  <1>5. ASSUME NEW t \in Turns, ClaimRecovery(t) PROVE TypeOK'
    BY <1>5 DEF ClaimRecovery
  <1>6. ASSUME NEW t \in Turns, StartReserved(t) PROVE TypeOK'
    BY <1>6 DEF StartReserved
  <1>7. ASSUME NEW t \in Turns, StartFails(t) PROVE TypeOK'
    <2>1. compensating' \in [Turns -> {"none", "failed", "cancelled", "requeue"}]
      BY <1>7 DEF StartFails
    <2>2. recoverable' \subseteq Turns /\ asking' \in Turns \cup {Nobody}
      BY <1>7 DEF StartFails
    <2>3. QED
      BY <1>7, <2>1, <2>2 DEF StartFails
  <1>8. ASSUME NEW t \in Turns, Compensate(t) PROVE TypeOK'
    BY <1>8 DEF Compensate
  <1>9. ASSUME NEW t \in Turns, InvokeStarts(t) PROVE TypeOK'
    BY <1>9 DEF InvokeStarts
  <1>10. ASSUME NEW t \in Turns, Cancel(t) PROVE TypeOK'
    BY <1>10 DEF Cancel
  <1>11. ASSUME NEW t \in Turns, BarrierOpens(t) PROVE TypeOK'
    BY <1>11 DEF BarrierOpens
  <1>12. ASSUME NEW t \in Turns, BarrierFails(t) PROVE TypeOK'
    BY <1>12 DEF BarrierFails
  <1>13. ASSUME NEW t \in Turns, BarrierCancelled(t) PROVE TypeOK'
    BY <1>13 DEF BarrierCancelled
  <1>14. ASSUME NEW t \in Turns, Prepared(t) PROVE TypeOK'
    BY <1>14 DEF Prepared
  <1>15. ASSUME NEW t \in Turns, GraphSteps(t) PROVE TypeOK'
    BY <1>15 DEF GraphSteps
  <1>16. ASSUME NEW t \in Turns, GraphConcludes(t) PROVE TypeOK'
    BY <1>16 DEF GraphConcludes
  <1>17. ASSUME NEW t \in Turns, CommitBegins(t) PROVE TypeOK'
    BY <1>17 DEF CommitBegins
  <1>18. ASSUME NEW t \in Turns, PreparationFails(t) PROVE TypeOK'
    BY <1>18 DEF PreparationFails
  <1>19. ASSUME NEW t \in Turns, CancelDelivered(t) PROVE TypeOK'
    BY <1>19 DEF CancelDelivered
  <1>20. ASSUME NEW t \in Turns, UnwindingFails(t) PROVE TypeOK'
    BY <1>20 DEF UnwindingFails
  <1>21. ASSUME NEW t \in Turns, Persist(t) PROVE TypeOK'
    BY <1>21 DEF Persist
  <1>22. ASSUME NEW t \in Turns, PersistFails(t) PROVE TypeOK'
    BY <1>22 DEF PersistFails
  <1>23. ASSUME NEW t \in Turns, SealChanges(t) PROVE TypeOK'
    BY <1>23 DEF SealChanges
  <1>24. ASSUME NEW t \in Turns, DeleteCheckpoint(t) PROVE TypeOK'
    BY <1>24 DEF DeleteCheckpoint
  <1>25. ASSUME NEW t \in Turns, Release(t) PROVE TypeOK'
    BY <1>25 DEF Release
  <1>26. ASSUME NEW t \in Turns, FailRecovery(t) PROVE TypeOK'
    BY <1>26 DEF FailRecovery
  <1>27. ASSUME NEW t \in Turns, FailRecoveryFails(t) PROVE TypeOK'
    BY <1>27 DEF FailRecoveryFails
  <1>28. ASSUME NEW t \in Turns, RecoveryCleaned(t) PROVE TypeOK'
    <2>1. checkpoint' \in [Turns -> Checkpoints]
      BY <1>28 DEF RecoveryCleaned
    <2>2. faults' \in 0..MaxFaults
      BY <1>28 DEF RecoveryCleaned
    <2>3. QED
      BY <1>28, <2>1, <2>2 DEF RecoveryCleaned
  <1>29. ASSUME NEW t \in Turns, RecoveryStale(t) PROVE TypeOK'
    BY <1>29 DEF RecoveryStale
  <1>30. ASSUME NEW t \in Turns, ReconcileTerminal(t) PROVE TypeOK'
    BY <1>30 DEF ReconcileTerminal
  <1>31. ASSUME NEW t \in Turns, ReconcileInProgress(t) PROVE TypeOK'
    BY <1>31 DEF ReconcileInProgress, Settle
  <1>32. CASE Crash
    <2>1. compensating' \in [Turns -> {"none", "failed", "cancelled", "requeue"}]
      BY <1>32 DEF Crash
    <2>2. crashes' \in 0..MaxCrashes /\ faults' \in 0..MaxFaults
      BY <1>32 DEF Crash
    <2>3. QED
      BY <1>32, <2>1, <2>2 DEF Crash
  <1>33. CASE Restart
    BY <1>33 DEF Restart
  <1>34. CASE ReconcileFails
    <2>1. compensating' \in [Turns -> {"none", "failed", "cancelled", "requeue"}]
      BY <1>34 DEF ReconcileFails
    <2>2. crashes' \in 0..MaxCrashes /\ faults' \in 0..MaxFaults
      BY <1>34 DEF ReconcileFails
    <2>3. status' \in [Turns -> Statuses]
      BY <1>34 DEF ReconcileFails, Settle
    <2>4. checkpoint' \in [Turns -> Checkpoints]
      BY <1>34 DEF ReconcileFails
    <2>5. QED
      BY <1>34, <2>1, <2>2, <2>3, <2>4 DEF ReconcileFails
  <1>35. CASE Activate
    BY <1>35 DEF Activate
  <1>36. CASE UNCHANGED vars
    BY <1>36
  <1>37. ASSUME NEW t \in Turns, Requeue(t) PROVE TypeOK'
    BY <1>37 DEF Requeue
  <1>38. ASSUME NEW t \in Turns, Announce(t) PROVE TypeOK'
    BY <1>38 DEF Announce
  <1>39. ASSUME NEW t \in Turns, CleanSettled(t) PROVE TypeOK'
    BY <1>39 DEF CleanSettled
  <1>40. QED
    BY <1>1, <1>2, <1>3, <1>4, <1>5, <1>6, <1>7, <1>8, <1>9, <1>10, <1>11, <1>12,
      <1>13, <1>14, <1>15, <1>16, <1>17, <1>18, <1>19, <1>20, <1>21, <1>22, <1>23,
      <1>24, <1>25, <1>26, <1>27, <1>28, <1>29, <1>30, <1>31, <1>32, <1>33, <1>34,
      <1>35, <1>36, <1>37, <1>38, <1>39
      DEF Next, RequestNext, FactoryNext, RecoveryNext

LEMMA CustodyStep == IInv /\ [Next]_vars => Custody'
  <1> SUFFICES ASSUME IInv, [Next]_vars PROVE Custody'
    OBVIOUS
  <1> USE TurnsAssumption DEF IInv, TypeOK, Custody, OwnedTurnIsOpen, InProgress,
     ThreadFree, Write, Fault, Idle, Take, At, Go, AskNext, Volatile, Looking, durable,
     recovery, work, history, budgets, vars, Terminal, Statuses, Checkpoints, Phases,
     Stages
  <1>1. ASSUME NEW t \in Turns, NEW k \in {"submit", "retry"}, Submit(t, k) PROVE Custody'
    BY <1>1 DEF Submit
  <1>2. ASSUME NEW t \in Turns, BeginTurn(t) PROVE Custody'
    BY <1>2 DEF BeginTurn
  <1>3. ASSUME NEW t \in Turns, BeginFails(t) PROVE Custody'
    BY <1>3 DEF BeginFails
  <1>4. ASSUME NEW t \in Turns, CancelBegunTurn(t) PROVE Custody'
    BY <1>4 DEF CancelBegunTurn
  <1>5. ASSUME NEW t \in Turns, ClaimRecovery(t) PROVE Custody'
    BY <1>5 DEF ClaimRecovery
  <1>6. ASSUME NEW t \in Turns, StartReserved(t) PROVE Custody'
    BY <1>6 DEF StartReserved
  <1>7. ASSUME NEW t \in Turns, StartFails(t) PROVE Custody'
    <2>1. \A u \in Turns \ {t} : compensating'[u] = compensating[u]
      BY <1>7 DEF StartFails
    <2>2. owner' = Nobody /\ owner = t /\ stage' = "idle" /\ mode = "up"
      BY <1>7 DEF StartFails
    <2>3. UNCHANGED <<recoverable, asking, mode, status, todo, settled>>
      BY <1>7 DEF StartFails
    <2>4. stage = "begun"
      BY <1>7 DEF StartFails
    <2>5. QED
      BY <2>1, <2>2, <2>3, <2>4
  <1>8. ASSUME NEW t \in Turns, Compensate(t) PROVE Custody'
    BY <1>8 DEF Compensate
  <1>9. ASSUME NEW t \in Turns, InvokeStarts(t) PROVE Custody'
    BY <1>9 DEF InvokeStarts
  <1>10. ASSUME NEW t \in Turns, Cancel(t) PROVE Custody'
    BY <1>10 DEF Cancel
  <1>11. ASSUME NEW t \in Turns, BarrierOpens(t) PROVE Custody'
    BY <1>11 DEF BarrierOpens
  <1>12. ASSUME NEW t \in Turns, BarrierFails(t) PROVE Custody'
    BY <1>12 DEF BarrierFails
  <1>13. ASSUME NEW t \in Turns, BarrierCancelled(t) PROVE Custody'
    BY <1>13 DEF BarrierCancelled
  <1>14. ASSUME NEW t \in Turns, Prepared(t) PROVE Custody'
    BY <1>14 DEF Prepared
  <1>15. ASSUME NEW t \in Turns, GraphSteps(t) PROVE Custody'
    BY <1>15 DEF GraphSteps
  <1>16. ASSUME NEW t \in Turns, GraphConcludes(t) PROVE Custody'
    BY <1>16 DEF GraphConcludes
  <1>17. ASSUME NEW t \in Turns, CommitBegins(t) PROVE Custody'
    BY <1>17 DEF CommitBegins
  <1>18. ASSUME NEW t \in Turns, PreparationFails(t) PROVE Custody'
    BY <1>18 DEF PreparationFails
  <1>19. ASSUME NEW t \in Turns, CancelDelivered(t) PROVE Custody'
    BY <1>19 DEF CancelDelivered
  <1>20. ASSUME NEW t \in Turns, UnwindingFails(t) PROVE Custody'
    BY <1>20 DEF UnwindingFails
  <1>21. ASSUME NEW t \in Turns, Persist(t) PROVE Custody'
    BY <1>21 DEF Persist
  <1>22. ASSUME NEW t \in Turns, PersistFails(t) PROVE Custody'
    BY <1>22 DEF PersistFails
  <1>23. ASSUME NEW t \in Turns, SealChanges(t) PROVE Custody'
    BY <1>23 DEF SealChanges
  <1>24. ASSUME NEW t \in Turns, DeleteCheckpoint(t) PROVE Custody'
    BY <1>24 DEF DeleteCheckpoint
  <1>25. ASSUME NEW t \in Turns, Release(t) PROVE Custody'
    BY <1>25 DEF Release
  <1>26. ASSUME NEW t \in Turns, FailRecovery(t) PROVE Custody'
    BY <1>26 DEF FailRecovery
  <1>27. ASSUME NEW t \in Turns, FailRecoveryFails(t) PROVE Custody'
    BY <1>27 DEF FailRecoveryFails
  <1>28. ASSUME NEW t \in Turns, RecoveryCleaned(t) PROVE Custody'
    BY <1>28 DEF RecoveryCleaned
  <1>29. ASSUME NEW t \in Turns, RecoveryStale(t) PROVE Custody'
    BY <1>29 DEF RecoveryStale
  <1>30. ASSUME NEW t \in Turns, ReconcileTerminal(t) PROVE Custody'
    BY <1>30 DEF ReconcileTerminal
  <1>31. ASSUME NEW t \in Turns, ReconcileInProgress(t) PROVE Custody'
    BY <1>31 DEF ReconcileInProgress, Settle
  <1>32. CASE Crash
    BY <1>32 DEF Crash
  <1>33. CASE Restart
    BY <1>33 DEF Restart
  <1>34. CASE ReconcileFails
    BY <1>34 DEF ReconcileFails, Settle
  <1>35. CASE Activate
    BY <1>35 DEF Activate
  <1>36. CASE UNCHANGED vars
    BY <1>36
  <1>37. ASSUME NEW t \in Turns, Requeue(t) PROVE Custody'
    BY <1>37 DEF Requeue
  <1>38. ASSUME NEW t \in Turns, Announce(t) PROVE Custody'
    BY <1>38 DEF Announce
  <1>39. ASSUME NEW t \in Turns, CleanSettled(t) PROVE Custody'
    BY <1>39 DEF CleanSettled
  <1>40. QED
    BY <1>1, <1>2, <1>3, <1>4, <1>5, <1>6, <1>7, <1>8, <1>9, <1>10, <1>11, <1>12,
      <1>13, <1>14, <1>15, <1>16, <1>17, <1>18, <1>19, <1>20, <1>21, <1>22, <1>23,
      <1>24, <1>25, <1>26, <1>27, <1>28, <1>29, <1>30, <1>31, <1>32, <1>33, <1>34,
      <1>35, <1>36, <1>37, <1>38, <1>39
      DEF Next, RequestNext, FactoryNext, RecoveryNext

LEMMA OwnedStep == IInv /\ [Next]_vars => OwnedTurnIsOpen'
  <1> SUFFICES ASSUME IInv, [Next]_vars PROVE OwnedTurnIsOpen'
    OBVIOUS
  <1> USE TurnsAssumption DEF IInv, TypeOK, Custody, OwnedTurnIsOpen, Decided,
     InProgress, ThreadFree, Write, Fault, Idle, Take, At, Go, AskNext, Volatile,
     Looking, durable, recovery, work, history, budgets, vars, Terminal, Statuses,
     Checkpoints, Phases, Stages
  <1>1. ASSUME NEW t \in Turns, NEW k \in {"submit", "retry"}, Submit(t, k) PROVE OwnedTurnIsOpen'
    BY <1>1 DEF Submit
  <1>2. ASSUME NEW t \in Turns, BeginTurn(t) PROVE OwnedTurnIsOpen'
    BY <1>2 DEF BeginTurn
  <1>3. ASSUME NEW t \in Turns, BeginFails(t) PROVE OwnedTurnIsOpen'
    BY <1>3 DEF BeginFails
  <1>4. ASSUME NEW t \in Turns, CancelBegunTurn(t) PROVE OwnedTurnIsOpen'
    BY <1>4 DEF CancelBegunTurn
  <1>5. ASSUME NEW t \in Turns, ClaimRecovery(t) PROVE OwnedTurnIsOpen'
    BY <1>5 DEF ClaimRecovery
  <1>6. ASSUME NEW t \in Turns, StartReserved(t) PROVE OwnedTurnIsOpen'
    BY <1>6 DEF StartReserved
  <1>7. ASSUME NEW t \in Turns, StartFails(t) PROVE OwnedTurnIsOpen'
    BY <1>7 DEF StartFails
  <1>8. ASSUME NEW t \in Turns, Compensate(t) PROVE OwnedTurnIsOpen'
    BY <1>8 DEF Compensate
  <1>9. ASSUME NEW t \in Turns, InvokeStarts(t) PROVE OwnedTurnIsOpen'
    BY <1>9 DEF InvokeStarts
  <1>10. ASSUME NEW t \in Turns, Cancel(t) PROVE OwnedTurnIsOpen'
    BY <1>10 DEF Cancel
  <1>11. ASSUME NEW t \in Turns, BarrierOpens(t) PROVE OwnedTurnIsOpen'
    BY <1>11 DEF BarrierOpens
  <1>12. ASSUME NEW t \in Turns, BarrierFails(t) PROVE OwnedTurnIsOpen'
    BY <1>12 DEF BarrierFails
  <1>13. ASSUME NEW t \in Turns, BarrierCancelled(t) PROVE OwnedTurnIsOpen'
    BY <1>13 DEF BarrierCancelled
  <1>14. ASSUME NEW t \in Turns, Prepared(t) PROVE OwnedTurnIsOpen'
    BY <1>14 DEF Prepared
  <1>15. ASSUME NEW t \in Turns, GraphSteps(t) PROVE OwnedTurnIsOpen'
    BY <1>15 DEF GraphSteps
  <1>16. ASSUME NEW t \in Turns, GraphConcludes(t) PROVE OwnedTurnIsOpen'
    BY <1>16 DEF GraphConcludes
  <1>17. ASSUME NEW t \in Turns, CommitBegins(t) PROVE OwnedTurnIsOpen'
    BY <1>17 DEF CommitBegins
  <1>18. ASSUME NEW t \in Turns, PreparationFails(t) PROVE OwnedTurnIsOpen'
    BY <1>18 DEF PreparationFails
  <1>19. ASSUME NEW t \in Turns, CancelDelivered(t) PROVE OwnedTurnIsOpen'
    BY <1>19 DEF CancelDelivered
  <1>20. ASSUME NEW t \in Turns, UnwindingFails(t) PROVE OwnedTurnIsOpen'
    BY <1>20 DEF UnwindingFails
  <1>21. ASSUME NEW t \in Turns, Persist(t) PROVE OwnedTurnIsOpen'
    BY <1>21 DEF Persist
  <1>22. ASSUME NEW t \in Turns, PersistFails(t) PROVE OwnedTurnIsOpen'
    BY <1>22 DEF PersistFails
  <1>23. ASSUME NEW t \in Turns, SealChanges(t) PROVE OwnedTurnIsOpen'
    BY <1>23 DEF SealChanges
  <1>24. ASSUME NEW t \in Turns, DeleteCheckpoint(t) PROVE OwnedTurnIsOpen'
    BY <1>24 DEF DeleteCheckpoint
  <1>25. ASSUME NEW t \in Turns, Release(t) PROVE OwnedTurnIsOpen'
    BY <1>25 DEF Release
  <1>26. ASSUME NEW t \in Turns, FailRecovery(t) PROVE OwnedTurnIsOpen'
    BY <1>26 DEF FailRecovery
  <1>27. ASSUME NEW t \in Turns, FailRecoveryFails(t) PROVE OwnedTurnIsOpen'
    BY <1>27 DEF FailRecoveryFails
  <1>28. ASSUME NEW t \in Turns, RecoveryCleaned(t) PROVE OwnedTurnIsOpen'
    BY <1>28 DEF RecoveryCleaned
  <1>29. ASSUME NEW t \in Turns, RecoveryStale(t) PROVE OwnedTurnIsOpen'
    BY <1>29 DEF RecoveryStale
  <1>30. ASSUME NEW t \in Turns, ReconcileTerminal(t) PROVE OwnedTurnIsOpen'
    BY <1>30 DEF ReconcileTerminal
  <1>31. ASSUME NEW t \in Turns, ReconcileInProgress(t) PROVE OwnedTurnIsOpen'
    BY <1>31 DEF ReconcileInProgress, Settle
  <1>32. CASE Crash
    BY <1>32 DEF Crash
  <1>33. CASE Restart
    BY <1>33 DEF Restart
  <1>34. CASE ReconcileFails
    BY <1>34 DEF ReconcileFails, Settle
  <1>35. CASE Activate
    BY <1>35 DEF Activate
  <1>36. CASE UNCHANGED vars
    BY <1>36
  <1>37. ASSUME NEW t \in Turns, Requeue(t) PROVE OwnedTurnIsOpen'
    BY <1>37 DEF Requeue
  <1>38. ASSUME NEW t \in Turns, Announce(t) PROVE OwnedTurnIsOpen'
    BY <1>38 DEF Announce
  <1>39. ASSUME NEW t \in Turns, CleanSettled(t) PROVE OwnedTurnIsOpen'
    BY <1>39 DEF CleanSettled
  <1>40. QED
    BY <1>1, <1>2, <1>3, <1>4, <1>5, <1>6, <1>7, <1>8, <1>9, <1>10, <1>11, <1>12,
      <1>13, <1>14, <1>15, <1>16, <1>17, <1>18, <1>19, <1>20, <1>21, <1>22, <1>23,
      <1>24, <1>25, <1>26, <1>27, <1>28, <1>29, <1>30, <1>31, <1>32, <1>33, <1>34,
      <1>35, <1>36, <1>37, <1>38, <1>39
      DEF Next, RequestNext, FactoryNext, RecoveryNext

LEMMA DecidedStep == IInv /\ [Next]_vars => Decided'
  <1> SUFFICES ASSUME IInv, [Next]_vars PROVE Decided'
    OBVIOUS
  <1> USE TurnsAssumption DEF IInv, TypeOK, Custody, OwnedTurnIsOpen, Decided,
     InProgress, ThreadFree, Write, Fault, Idle, Take, At, Go, AskNext, Volatile,
     Looking, durable, recovery, work, history, budgets, vars, Terminal, Statuses,
     Checkpoints, Phases, Stages
  <1>1. ASSUME NEW t \in Turns, NEW k \in {"submit", "retry"}, Submit(t, k) PROVE Decided'
    BY <1>1 DEF Submit
  <1>2. ASSUME NEW t \in Turns, BeginTurn(t) PROVE Decided'
    BY <1>2 DEF BeginTurn
  <1>3. ASSUME NEW t \in Turns, BeginFails(t) PROVE Decided'
    BY <1>3 DEF BeginFails
  <1>4. ASSUME NEW t \in Turns, CancelBegunTurn(t) PROVE Decided'
    BY <1>4 DEF CancelBegunTurn
  <1>5. ASSUME NEW t \in Turns, ClaimRecovery(t) PROVE Decided'
    BY <1>5 DEF ClaimRecovery
  <1>6. ASSUME NEW t \in Turns, StartReserved(t) PROVE Decided'
    BY <1>6 DEF StartReserved
  <1>7. ASSUME NEW t \in Turns, StartFails(t) PROVE Decided'
    BY <1>7 DEF StartFails
  <1>8. ASSUME NEW t \in Turns, Compensate(t) PROVE Decided'
    BY <1>8 DEF Compensate
  <1>9. ASSUME NEW t \in Turns, InvokeStarts(t) PROVE Decided'
    BY <1>9 DEF InvokeStarts
  <1>10. ASSUME NEW t \in Turns, Cancel(t) PROVE Decided'
    BY <1>10 DEF Cancel
  <1>11. ASSUME NEW t \in Turns, BarrierOpens(t) PROVE Decided'
    BY <1>11 DEF BarrierOpens
  <1>12. ASSUME NEW t \in Turns, BarrierFails(t) PROVE Decided'
    BY <1>12 DEF BarrierFails
  <1>13. ASSUME NEW t \in Turns, BarrierCancelled(t) PROVE Decided'
    BY <1>13 DEF BarrierCancelled
  <1>14. ASSUME NEW t \in Turns, Prepared(t) PROVE Decided'
    BY <1>14 DEF Prepared
  <1>15. ASSUME NEW t \in Turns, GraphSteps(t) PROVE Decided'
    BY <1>15 DEF GraphSteps
  <1>16. ASSUME NEW t \in Turns, GraphConcludes(t) PROVE Decided'
    BY <1>16 DEF GraphConcludes
  <1>17. ASSUME NEW t \in Turns, CommitBegins(t) PROVE Decided'
    BY <1>17 DEF CommitBegins
  <1>18. ASSUME NEW t \in Turns, PreparationFails(t) PROVE Decided'
    BY <1>18 DEF PreparationFails
  <1>19. ASSUME NEW t \in Turns, CancelDelivered(t) PROVE Decided'
    BY <1>19 DEF CancelDelivered
  <1>20. ASSUME NEW t \in Turns, UnwindingFails(t) PROVE Decided'
    BY <1>20 DEF UnwindingFails
  <1>21. ASSUME NEW t \in Turns, Persist(t) PROVE Decided'
    BY <1>21 DEF Persist
  <1>22. ASSUME NEW t \in Turns, PersistFails(t) PROVE Decided'
    BY <1>22 DEF PersistFails
  <1>23. ASSUME NEW t \in Turns, SealChanges(t) PROVE Decided'
    BY <1>23 DEF SealChanges
  <1>24. ASSUME NEW t \in Turns, DeleteCheckpoint(t) PROVE Decided'
    BY <1>24 DEF DeleteCheckpoint
  <1>25. ASSUME NEW t \in Turns, Release(t) PROVE Decided'
    BY <1>25 DEF Release
  <1>26. ASSUME NEW t \in Turns, FailRecovery(t) PROVE Decided'
    BY <1>26 DEF FailRecovery
  <1>27. ASSUME NEW t \in Turns, FailRecoveryFails(t) PROVE Decided'
    BY <1>27 DEF FailRecoveryFails
  <1>28. ASSUME NEW t \in Turns, RecoveryCleaned(t) PROVE Decided'
    BY <1>28 DEF RecoveryCleaned
  <1>29. ASSUME NEW t \in Turns, RecoveryStale(t) PROVE Decided'
    BY <1>29 DEF RecoveryStale
  <1>30. ASSUME NEW t \in Turns, ReconcileTerminal(t) PROVE Decided'
    BY <1>30 DEF ReconcileTerminal
  <1>31. ASSUME NEW t \in Turns, ReconcileInProgress(t) PROVE Decided'
    BY <1>31 DEF ReconcileInProgress, Settle
  <1>32. CASE Crash
    BY <1>32 DEF Crash
  <1>33. CASE Restart
    BY <1>33 DEF Restart
  <1>34. CASE ReconcileFails
    BY <1>34 DEF ReconcileFails, Settle
  <1>35. CASE Activate
    BY <1>35 DEF Activate
  <1>36. CASE UNCHANGED vars
    BY <1>36
  <1>37. ASSUME NEW t \in Turns, Requeue(t) PROVE Decided'
    BY <1>37 DEF Requeue
  <1>38. ASSUME NEW t \in Turns, Announce(t) PROVE Decided'
    BY <1>38 DEF Announce
  <1>39. ASSUME NEW t \in Turns, CleanSettled(t) PROVE Decided'
    BY <1>39 DEF CleanSettled
  <1>40. QED
    BY <1>1, <1>2, <1>3, <1>4, <1>5, <1>6, <1>7, <1>8, <1>9, <1>10, <1>11, <1>12,
      <1>13, <1>14, <1>15, <1>16, <1>17, <1>18, <1>19, <1>20, <1>21, <1>22, <1>23,
      <1>24, <1>25, <1>26, <1>27, <1>28, <1>29, <1>30, <1>31, <1>32, <1>33, <1>34,
      <1>35, <1>36, <1>37, <1>38, <1>39
      DEF Next, RequestNext, FactoryNext, RecoveryNext

LEMMA OneStep == IInv /\ [Next]_vars => OneTurnPerThread'
  <1> SUFFICES ASSUME IInv, [Next]_vars PROVE OneTurnPerThread'
    OBVIOUS
  <1> USE TurnsAssumption DEF IInv, TypeOK, Custody, OwnedTurnIsOpen, Decided,
     OneTurnPerThread, InProgress, ThreadFree, Write, Fault, Idle, Take, At, Go,
     AskNext, Volatile, Looking, durable, recovery, work, history, budgets, vars,
     Terminal, Statuses, Checkpoints, Phases, Stages
  <1>1. ASSUME NEW t \in Turns, NEW k \in {"submit", "retry"}, Submit(t, k) PROVE OneTurnPerThread'
    BY <1>1 DEF Submit
  <1>2. ASSUME NEW t \in Turns, BeginTurn(t) PROVE OneTurnPerThread'
    BY <1>2 DEF BeginTurn
  <1>3. ASSUME NEW t \in Turns, BeginFails(t) PROVE OneTurnPerThread'
    BY <1>3 DEF BeginFails
  <1>4. ASSUME NEW t \in Turns, CancelBegunTurn(t) PROVE OneTurnPerThread'
    BY <1>4 DEF CancelBegunTurn
  <1>5. ASSUME NEW t \in Turns, ClaimRecovery(t) PROVE OneTurnPerThread'
    BY <1>5 DEF ClaimRecovery
  <1>6. ASSUME NEW t \in Turns, StartReserved(t) PROVE OneTurnPerThread'
    BY <1>6 DEF StartReserved
  <1>7. ASSUME NEW t \in Turns, StartFails(t) PROVE OneTurnPerThread'
    BY <1>7 DEF StartFails
  <1>8. ASSUME NEW t \in Turns, Compensate(t) PROVE OneTurnPerThread'
    BY <1>8 DEF Compensate
  <1>9. ASSUME NEW t \in Turns, InvokeStarts(t) PROVE OneTurnPerThread'
    BY <1>9 DEF InvokeStarts
  <1>10. ASSUME NEW t \in Turns, Cancel(t) PROVE OneTurnPerThread'
    BY <1>10 DEF Cancel
  <1>11. ASSUME NEW t \in Turns, BarrierOpens(t) PROVE OneTurnPerThread'
    BY <1>11 DEF BarrierOpens
  <1>12. ASSUME NEW t \in Turns, BarrierFails(t) PROVE OneTurnPerThread'
    BY <1>12 DEF BarrierFails
  <1>13. ASSUME NEW t \in Turns, BarrierCancelled(t) PROVE OneTurnPerThread'
    BY <1>13 DEF BarrierCancelled
  <1>14. ASSUME NEW t \in Turns, Prepared(t) PROVE OneTurnPerThread'
    BY <1>14 DEF Prepared
  <1>15. ASSUME NEW t \in Turns, GraphSteps(t) PROVE OneTurnPerThread'
    BY <1>15 DEF GraphSteps
  <1>16. ASSUME NEW t \in Turns, GraphConcludes(t) PROVE OneTurnPerThread'
    BY <1>16 DEF GraphConcludes
  <1>17. ASSUME NEW t \in Turns, CommitBegins(t) PROVE OneTurnPerThread'
    BY <1>17 DEF CommitBegins
  <1>18. ASSUME NEW t \in Turns, PreparationFails(t) PROVE OneTurnPerThread'
    BY <1>18 DEF PreparationFails
  <1>19. ASSUME NEW t \in Turns, CancelDelivered(t) PROVE OneTurnPerThread'
    BY <1>19 DEF CancelDelivered
  <1>20. ASSUME NEW t \in Turns, UnwindingFails(t) PROVE OneTurnPerThread'
    BY <1>20 DEF UnwindingFails
  <1>21. ASSUME NEW t \in Turns, Persist(t) PROVE OneTurnPerThread'
    BY <1>21 DEF Persist
  <1>22. ASSUME NEW t \in Turns, PersistFails(t) PROVE OneTurnPerThread'
    BY <1>22 DEF PersistFails
  <1>23. ASSUME NEW t \in Turns, SealChanges(t) PROVE OneTurnPerThread'
    BY <1>23 DEF SealChanges
  <1>24. ASSUME NEW t \in Turns, DeleteCheckpoint(t) PROVE OneTurnPerThread'
    BY <1>24 DEF DeleteCheckpoint
  <1>25. ASSUME NEW t \in Turns, Release(t) PROVE OneTurnPerThread'
    BY <1>25 DEF Release
  <1>26. ASSUME NEW t \in Turns, FailRecovery(t) PROVE OneTurnPerThread'
    BY <1>26 DEF FailRecovery
  <1>27. ASSUME NEW t \in Turns, FailRecoveryFails(t) PROVE OneTurnPerThread'
    BY <1>27 DEF FailRecoveryFails
  <1>28. ASSUME NEW t \in Turns, RecoveryCleaned(t) PROVE OneTurnPerThread'
    BY <1>28 DEF RecoveryCleaned
  <1>29. ASSUME NEW t \in Turns, RecoveryStale(t) PROVE OneTurnPerThread'
    BY <1>29 DEF RecoveryStale
  <1>30. ASSUME NEW t \in Turns, ReconcileTerminal(t) PROVE OneTurnPerThread'
    BY <1>30 DEF ReconcileTerminal
  <1>31. ASSUME NEW t \in Turns, ReconcileInProgress(t) PROVE OneTurnPerThread'
    BY <1>31 DEF ReconcileInProgress, Settle
  <1>32. CASE Crash
    BY <1>32 DEF Crash
  <1>33. CASE Restart
    BY <1>33 DEF Restart
  <1>34. CASE ReconcileFails
    BY <1>34 DEF ReconcileFails, Settle
  <1>35. CASE Activate
    BY <1>35 DEF Activate
  <1>36. CASE UNCHANGED vars
    BY <1>36
  <1>37. ASSUME NEW t \in Turns, Requeue(t) PROVE OneTurnPerThread'
    BY <1>37 DEF Requeue
  <1>38. ASSUME NEW t \in Turns, Announce(t) PROVE OneTurnPerThread'
    BY <1>38 DEF Announce
  <1>39. ASSUME NEW t \in Turns, CleanSettled(t) PROVE OneTurnPerThread'
    BY <1>39 DEF CleanSettled
  <1>40. QED
    BY <1>1, <1>2, <1>3, <1>4, <1>5, <1>6, <1>7, <1>8, <1>9, <1>10, <1>11, <1>12,
      <1>13, <1>14, <1>15, <1>16, <1>17, <1>18, <1>19, <1>20, <1>21, <1>22, <1>23,
      <1>24, <1>25, <1>26, <1>27, <1>28, <1>29, <1>30, <1>31, <1>32, <1>33, <1>34,
      <1>35, <1>36, <1>37, <1>38, <1>39
      DEF Next, RequestNext, FactoryNext, RecoveryNext

LEMMA AckStep == IInv /\ [Next]_vars => AckKept'
  <1> SUFFICES ASSUME IInv, [Next]_vars PROVE AckKept'
    OBVIOUS
  <1> USE TurnsAssumption DEF IInv, TypeOK, Custody, OwnedTurnIsOpen, Decided, AckKept,
     InProgress, ThreadFree, Write, Fault, Idle, Take, At, Go, AskNext, Volatile,
     Looking, durable, recovery, work, history, budgets, vars, Terminal, Statuses,
     Checkpoints, Phases, Stages
  <1>1. ASSUME NEW t \in Turns, NEW k \in {"submit", "retry"}, Submit(t, k) PROVE AckKept'
    BY <1>1 DEF Submit
  <1>2. ASSUME NEW t \in Turns, BeginTurn(t) PROVE AckKept'
    BY <1>2 DEF BeginTurn
  <1>3. ASSUME NEW t \in Turns, BeginFails(t) PROVE AckKept'
    BY <1>3 DEF BeginFails
  <1>4. ASSUME NEW t \in Turns, CancelBegunTurn(t) PROVE AckKept'
    BY <1>4 DEF CancelBegunTurn
  <1>5. ASSUME NEW t \in Turns, ClaimRecovery(t) PROVE AckKept'
    BY <1>5 DEF ClaimRecovery
  <1>6. ASSUME NEW t \in Turns, StartReserved(t) PROVE AckKept'
    BY <1>6 DEF StartReserved
  <1>7. ASSUME NEW t \in Turns, StartFails(t) PROVE AckKept'
    BY <1>7 DEF StartFails
  <1>8. ASSUME NEW t \in Turns, Compensate(t) PROVE AckKept'
    BY <1>8 DEF Compensate
  <1>9. ASSUME NEW t \in Turns, InvokeStarts(t) PROVE AckKept'
    BY <1>9 DEF InvokeStarts
  <1>10. ASSUME NEW t \in Turns, Cancel(t) PROVE AckKept'
    BY <1>10 DEF Cancel
  <1>11. ASSUME NEW t \in Turns, BarrierOpens(t) PROVE AckKept'
    BY <1>11 DEF BarrierOpens
  <1>12. ASSUME NEW t \in Turns, BarrierFails(t) PROVE AckKept'
    BY <1>12 DEF BarrierFails
  <1>13. ASSUME NEW t \in Turns, BarrierCancelled(t) PROVE AckKept'
    BY <1>13 DEF BarrierCancelled
  <1>14. ASSUME NEW t \in Turns, Prepared(t) PROVE AckKept'
    BY <1>14 DEF Prepared
  <1>15. ASSUME NEW t \in Turns, GraphSteps(t) PROVE AckKept'
    BY <1>15 DEF GraphSteps
  <1>16. ASSUME NEW t \in Turns, GraphConcludes(t) PROVE AckKept'
    BY <1>16 DEF GraphConcludes
  <1>17. ASSUME NEW t \in Turns, CommitBegins(t) PROVE AckKept'
    BY <1>17 DEF CommitBegins
  <1>18. ASSUME NEW t \in Turns, PreparationFails(t) PROVE AckKept'
    BY <1>18 DEF PreparationFails
  <1>19. ASSUME NEW t \in Turns, CancelDelivered(t) PROVE AckKept'
    BY <1>19 DEF CancelDelivered
  <1>20. ASSUME NEW t \in Turns, UnwindingFails(t) PROVE AckKept'
    BY <1>20 DEF UnwindingFails
  <1>21. ASSUME NEW t \in Turns, Persist(t) PROVE AckKept'
    BY <1>21 DEF Persist
  <1>22. ASSUME NEW t \in Turns, PersistFails(t) PROVE AckKept'
    BY <1>22 DEF PersistFails
  <1>23. ASSUME NEW t \in Turns, SealChanges(t) PROVE AckKept'
    BY <1>23 DEF SealChanges
  <1>24. ASSUME NEW t \in Turns, DeleteCheckpoint(t) PROVE AckKept'
    BY <1>24 DEF DeleteCheckpoint
  <1>25. ASSUME NEW t \in Turns, Release(t) PROVE AckKept'
    BY <1>25 DEF Release
  <1>26. ASSUME NEW t \in Turns, FailRecovery(t) PROVE AckKept'
    BY <1>26 DEF FailRecovery
  <1>27. ASSUME NEW t \in Turns, FailRecoveryFails(t) PROVE AckKept'
    BY <1>27 DEF FailRecoveryFails
  <1>28. ASSUME NEW t \in Turns, RecoveryCleaned(t) PROVE AckKept'
    BY <1>28 DEF RecoveryCleaned
  <1>29. ASSUME NEW t \in Turns, RecoveryStale(t) PROVE AckKept'
    BY <1>29 DEF RecoveryStale
  <1>30. ASSUME NEW t \in Turns, ReconcileTerminal(t) PROVE AckKept'
    BY <1>30 DEF ReconcileTerminal
  <1>31. ASSUME NEW t \in Turns, ReconcileInProgress(t) PROVE AckKept'
    BY <1>31 DEF ReconcileInProgress, Settle
  <1>32. CASE Crash
    BY <1>32 DEF Crash
  <1>33. CASE Restart
    BY <1>33 DEF Restart
  <1>34. CASE ReconcileFails
    BY <1>34 DEF ReconcileFails, Settle
  <1>35. CASE Activate
    BY <1>35 DEF Activate
  <1>36. CASE UNCHANGED vars
    BY <1>36
  <1>37. ASSUME NEW t \in Turns, Requeue(t) PROVE AckKept'
    BY <1>37 DEF Requeue
  <1>38. ASSUME NEW t \in Turns, Announce(t) PROVE AckKept'
    BY <1>38 DEF Announce
  <1>39. ASSUME NEW t \in Turns, CleanSettled(t) PROVE AckKept'
    BY <1>39 DEF CleanSettled
  <1>40. QED
    BY <1>1, <1>2, <1>3, <1>4, <1>5, <1>6, <1>7, <1>8, <1>9, <1>10, <1>11, <1>12,
      <1>13, <1>14, <1>15, <1>16, <1>17, <1>18, <1>19, <1>20, <1>21, <1>22, <1>23,
      <1>24, <1>25, <1>26, <1>27, <1>28, <1>29, <1>30, <1>31, <1>32, <1>33, <1>34,
      <1>35, <1>36, <1>37, <1>38, <1>39
      DEF Next, RequestNext, FactoryNext, RecoveryNext

THEOREM Inductive == Spec => []IInv
  <1>1. IInv /\ [Next]_vars => IInv'
    BY TypeStep, CustodyStep, OwnedStep, DecidedStep, OneStep, AckStep DEF IInv
  <1>2. QED
    BY InitInv, <1>1, PTL DEF Spec

\* Every reachable state is well typed, for any set of Turns.
THEOREM TypeCorrect == Spec => []TypeOK
  BY Inductive, PTL DEF IInv

\* Only its owner finishes a Turn, whatever crashes and fails.
THEOREM OwnedOpen == Spec => []OwnedTurnIsOpen
  BY Inductive, PTL DEF IInv

\* A Thread never has two unfinished Turns.
THEOREM OneUnfinished == Spec => []OneTurnPerThread
  BY Inductive, PTL DEF IInv

\* Before any crash an acknowledged cancellation is never overtaken.
THEOREM AckHolds == Spec => []AckedNeverCompletes
  <1>1. IInv => AckedNeverCompletes
    BY DEF IInv, AckKept, AckedNeverCompletes
  <1>2. QED
    BY Inductive, <1>1, PTL

\* A checkpoint goes only after its Turn's terminal status is durable.
THEOREM CheckpointsKept == Spec => CheckpointKept
  <1>1. ASSUME IInv, [Next]_vars
        PROVE  \A t \in Turns : checkpoint[t] # "none" /\ checkpoint'[t] = "none"
                                  => status[t] \in Terminal
    <2> USE TurnsAssumption DEF IInv, TypeOK, OwnedTurnIsOpen, Custody, InProgress,
       ThreadFree, Write, Fault, Idle, Take, At, Go, AskNext, Volatile, Looking,
       durable, recovery, work, history, budgets, vars, Terminal, Statuses, Checkpoints,
       Phases, Stages
    <2> DEFINE Kept == \A t \in Turns : checkpoint[t] # "none" /\ checkpoint'[t] = "none"
                                  => status[t] \in Terminal
    <2>1. ASSUME NEW t \in Turns, NEW k \in {"submit", "retry"}, Submit(t, k) PROVE Kept
      BY <2>1 DEF Submit
    <2>2. ASSUME NEW t \in Turns, BeginTurn(t) PROVE Kept
      BY <2>2 DEF BeginTurn
    <2>3. ASSUME NEW t \in Turns, BeginFails(t) PROVE Kept
      BY <2>3 DEF BeginFails
    <2>4. ASSUME NEW t \in Turns, CancelBegunTurn(t) PROVE Kept
      BY <2>4 DEF CancelBegunTurn
    <2>5. ASSUME NEW t \in Turns, ClaimRecovery(t) PROVE Kept
      BY <2>5 DEF ClaimRecovery
    <2>6. ASSUME NEW t \in Turns, StartReserved(t) PROVE Kept
      BY <2>6 DEF StartReserved
    <2>7. ASSUME NEW t \in Turns, StartFails(t) PROVE Kept
      BY <2>7 DEF StartFails
    <2>8. ASSUME NEW t \in Turns, Compensate(t) PROVE Kept
      BY <2>8 DEF Compensate
    <2>9. ASSUME NEW t \in Turns, InvokeStarts(t) PROVE Kept
      BY <2>9 DEF InvokeStarts
    <2>10. ASSUME NEW t \in Turns, Cancel(t) PROVE Kept
      BY <2>10 DEF Cancel
    <2>11. ASSUME NEW t \in Turns, BarrierOpens(t) PROVE Kept
      BY <2>11 DEF BarrierOpens
    <2>12. ASSUME NEW t \in Turns, BarrierFails(t) PROVE Kept
      BY <2>12 DEF BarrierFails
    <2>13. ASSUME NEW t \in Turns, BarrierCancelled(t) PROVE Kept
      BY <2>13 DEF BarrierCancelled
    <2>14. ASSUME NEW t \in Turns, Prepared(t) PROVE Kept
      BY <2>14 DEF Prepared
    <2>15. ASSUME NEW t \in Turns, GraphSteps(t) PROVE Kept
      BY <2>15 DEF GraphSteps
    <2>16. ASSUME NEW t \in Turns, GraphConcludes(t) PROVE Kept
      BY <2>16 DEF GraphConcludes
    <2>17. ASSUME NEW t \in Turns, CommitBegins(t) PROVE Kept
      BY <2>17 DEF CommitBegins
    <2>18. ASSUME NEW t \in Turns, PreparationFails(t) PROVE Kept
      BY <2>18 DEF PreparationFails
    <2>19. ASSUME NEW t \in Turns, CancelDelivered(t) PROVE Kept
      BY <2>19 DEF CancelDelivered
    <2>20. ASSUME NEW t \in Turns, UnwindingFails(t) PROVE Kept
      BY <2>20 DEF UnwindingFails
    <2>21. ASSUME NEW t \in Turns, Persist(t) PROVE Kept
      BY <2>21 DEF Persist
    <2>22. ASSUME NEW t \in Turns, PersistFails(t) PROVE Kept
      BY <2>22 DEF PersistFails
    <2>23. ASSUME NEW t \in Turns, SealChanges(t) PROVE Kept
      BY <2>23 DEF SealChanges
    <2>24. ASSUME NEW t \in Turns, DeleteCheckpoint(t) PROVE Kept
      <3>1. \A u \in Turns \ {t} : checkpoint'[u] = checkpoint[u]
        BY <1>1, <2>24 DEF DeleteCheckpoint
      <3>2. status[t] \in Terminal
        BY <1>1, <2>24 DEF DeleteCheckpoint
      <3>3. QED
        BY <3>1, <3>2
    <2>25. ASSUME NEW t \in Turns, Release(t) PROVE Kept
      BY <2>25 DEF Release
    <2>26. ASSUME NEW t \in Turns, FailRecovery(t) PROVE Kept
      BY <2>26 DEF FailRecovery
    <2>27. ASSUME NEW t \in Turns, FailRecoveryFails(t) PROVE Kept
      BY <2>27 DEF FailRecoveryFails
    <2>28. ASSUME NEW t \in Turns, RecoveryCleaned(t) PROVE Kept
      <3>1. \A u \in Turns \ {t} : checkpoint'[u] = checkpoint[u]
        BY <1>1, <2>28 DEF RecoveryCleaned
      <3>2. status[t] \in Terminal
        BY <1>1, <2>28 DEF RecoveryCleaned
      <3>3. QED
        BY <3>1, <3>2
    <2>29. ASSUME NEW t \in Turns, RecoveryStale(t) PROVE Kept
      BY <2>29 DEF RecoveryStale
    <2>30. ASSUME NEW t \in Turns, ReconcileTerminal(t) PROVE Kept
      <3>1. \A u \in Turns \ {t} : checkpoint'[u] = checkpoint[u]
        BY <1>1, <2>30 DEF ReconcileTerminal
      <3>2. status[t] \in Terminal
        BY <1>1, <2>30 DEF ReconcileTerminal
      <3>3. QED
        BY <3>1, <3>2
    <2>31. ASSUME NEW t \in Turns, ReconcileInProgress(t) PROVE Kept
      BY <2>31 DEF ReconcileInProgress, Settle
    <2>32. CASE Crash
      BY <2>32 DEF Crash
    <2>33. CASE Restart
      BY <2>33 DEF Restart
    <2>34. CASE ReconcileFails
      <3>1. \/ checkpoint' = checkpoint
            \/ \E t \in Turns : /\ status[t] \in Terminal
                                 /\ \A u \in Turns \ {t} : checkpoint'[u] = checkpoint[u]
        BY <1>1, <2>34 DEF ReconcileFails
      <3>2. QED
        BY <3>1
    <2>35. CASE Activate
      BY <2>35 DEF Activate
    <2>36. CASE UNCHANGED vars
      BY <2>36
    <2>37. ASSUME NEW t \in Turns, Requeue(t) PROVE Kept
      BY <2>37 DEF Requeue
    <2>38. ASSUME NEW t \in Turns, Announce(t) PROVE Kept
      BY <2>38 DEF Announce
    <2>39. ASSUME NEW t \in Turns, CleanSettled(t) PROVE Kept
      <3>1. \A u \in Turns \ {t} : checkpoint'[u] = checkpoint[u]
        BY <1>1, <2>39 DEF CleanSettled
      <3>2. status[t] \in Terminal
        BY <1>1, <2>39 DEF CleanSettled
      <3>3. QED
        BY <3>1, <3>2
    <2>40. QED
      BY <1>1, <2>1, <2>2, <2>3, <2>4, <2>5, <2>6, <2>7, <2>8, <2>9, <2>10, <2>11,
        <2>12, <2>13, <2>14, <2>15, <2>16, <2>17, <2>18, <2>19, <2>20, <2>21, <2>22,
        <2>23, <2>24, <2>25, <2>26, <2>27, <2>28, <2>29, <2>30, <2>31, <2>32, <2>33,
        <2>34, <2>35, <2>36, <2>37, <2>38, <2>39
        DEF Next, RequestNext, FactoryNext, RecoveryNext
  <1>2. QED
    BY Inductive, <1>1, PTL DEF Spec, CheckpointKept

\* A Turn is in one hand only, its Thread has no second one, and what was
\* cancelled stays so: for any Turns, crashes and faults.
THEOREM InOneHand == Spec => []TurnsInOneHand
  BY OwnedOpen, OneUnfinished, AckHolds, PTL DEF TurnsInOneHand

-----------------------------------------------------------------------------
(* Nothing is left behind.                                                 *)

\* What a Turn has not done yet: a new one has no checkpoint and no change until
\* its graph runs, one on offer has no open change, and nobody but the dead told
\* of its end.
Untouched ==
    /\ \A t \in Turns : status[t] = "none" => told[t] = "none"
    /\ \A t \in Turns :
          status[t] = "none" \/ compensating[t] \in {"failed", "cancelled"} =>
             checkpoint[t] = "none" /\ changes[t] = "none" /\ told[t] \notin Terminal
    /\ \A t \in Turns : t \in recoverable \/ compensating[t] = "requeue" =>
          changes[t] # "open"
    /\ \A t \in Turns : owner = t =>
          /\ stage # "beginning" => status[t] # "none"
          /\ stage # "aborted" => told[t] \notin Terminal
          /\ stage \in {"begun", "barrier", "preparing", "aborted"} => changes[t] # "open"
          /\ /\ kind # "resume"
             /\ stage \in {"beginning", "begun", "unbegin", "barrier", "preparing", "refused"}
             => checkpoint[t] = "none" /\ changes[t] = "none"
          /\ stage \in {"beginning", "unbegin", "barrier"} => kind # "resume"
          /\ stage = "aborted" => kind = "resume" /\ asking = t

\* After its terminal write, the owner's status is the outcome it will tell, and
\* with every write succeeding the clean-up leaves nothing.
Written ==
    \A t \in Turns : owner = t =>
        /\ stage \in {"seal", "delete"} => status[t] = target
        /\ stage = "publish" /\ (faults = 0 \/ target = "completed") => status[t] = target
        /\ faults = 0 /\ (stage \in {"delete", "publish"} \/ (stage = "persist" /\ ~sealing)) =>
              changes[t] # "open"
        /\ faults = 0 /\ stage = "publish" => checkpoint[t] = "none"

\* What reconcile_startup has already looked at.
Settling ==
    mode = "reconciling" => \A t \in Turns :
        /\ changes[t] # "open"
        /\ t \notin todo => /\ status[t] \in Terminal =>
                                  checkpoint[t] = "none" \/ (t \in settled /\ faults > 0)
                            /\ InProgress(t) => /\ checkpoint[t] \in {"working", "uncertain"}
                                                /\ t \in recoverable

\* RecoveryIsAsked while somebody works: a resumed Turn asks on its way out, or
\* goes back to the queue.
Asked ==
    mode = "up" /\ recoverable # {} =>
        \/ asking # Nobody
        \/ \E t \in Turns : compensating[t] = "requeue" \/ Stranded(t)
        \/ owner # Nobody /\ kind = "resume"

LInv == /\ IInv /\ Untouched /\ Written /\ Settling /\ Asked
        /\ ToldAgrees /\ NoStrandedTurn /\ CleanWhenReleased

LEMMA UntouchedStep == LInv /\ [Next]_vars => Untouched'
  <1> SUFFICES ASSUME LInv, [Next]_vars PROVE Untouched'
    OBVIOUS
  <1> USE TurnsAssumption DEF LInv, IInv, Custody, OwnedTurnIsOpen, Decided, Settling,
     Untouched, TypeOK, InProgress, ThreadFree, Write, Fault, Idle, Take, At, Go,
     AskNext, Volatile, Looking, durable, recovery, work, history, budgets, vars,
     Terminal, Statuses, Checkpoints, Phases, Stages
  <1>1. ASSUME NEW t \in Turns, NEW k \in {"submit", "retry"}, Submit(t, k) PROVE
     Untouched'
    BY <1>1 DEF Submit
  <1>2. ASSUME NEW t \in Turns, BeginTurn(t) PROVE Untouched'
    BY <1>2 DEF BeginTurn
  <1>3. ASSUME NEW t \in Turns, BeginFails(t) PROVE Untouched'
    BY <1>3 DEF BeginFails
  <1>4. ASSUME NEW t \in Turns, CancelBegunTurn(t) PROVE Untouched'
    BY <1>4 DEF CancelBegunTurn
  <1>5. ASSUME NEW t \in Turns, ClaimRecovery(t) PROVE Untouched'
    BY <1>5 DEF ClaimRecovery
  <1>6. ASSUME NEW t \in Turns, StartReserved(t) PROVE Untouched'
    BY <1>6 DEF StartReserved
  <1>7. ASSUME NEW t \in Turns, StartFails(t) PROVE Untouched'
    BY <1>7 DEF StartFails
  <1>8. ASSUME NEW t \in Turns, Compensate(t) PROVE Untouched'
    BY <1>8 DEF Compensate
  <1>9. ASSUME NEW t \in Turns, InvokeStarts(t) PROVE Untouched'
    BY <1>9 DEF InvokeStarts
  <1>10. ASSUME NEW t \in Turns, Cancel(t) PROVE Untouched'
    BY <1>10 DEF Cancel
  <1>11. ASSUME NEW t \in Turns, BarrierOpens(t) PROVE Untouched'
    BY <1>11 DEF BarrierOpens
  <1>12. ASSUME NEW t \in Turns, BarrierFails(t) PROVE Untouched'
    BY <1>12 DEF BarrierFails
  <1>13. ASSUME NEW t \in Turns, BarrierCancelled(t) PROVE Untouched'
    BY <1>13 DEF BarrierCancelled
  <1>14. ASSUME NEW t \in Turns, Prepared(t) PROVE Untouched'
    BY <1>14 DEF Prepared
  <1>15. ASSUME NEW t \in Turns, GraphSteps(t) PROVE Untouched'
    BY <1>15 DEF GraphSteps
  <1>16. ASSUME NEW t \in Turns, GraphConcludes(t) PROVE Untouched'
    BY <1>16 DEF GraphConcludes
  <1>17. ASSUME NEW t \in Turns, CommitBegins(t) PROVE Untouched'
    BY <1>17 DEF CommitBegins
  <1>18. ASSUME NEW t \in Turns, PreparationFails(t) PROVE Untouched'
    BY <1>18 DEF PreparationFails
  <1>19. ASSUME NEW t \in Turns, CancelDelivered(t) PROVE Untouched'
    BY <1>19 DEF CancelDelivered
  <1>20. ASSUME NEW t \in Turns, UnwindingFails(t) PROVE Untouched'
    BY <1>20 DEF UnwindingFails
  <1>21. ASSUME NEW t \in Turns, Persist(t) PROVE Untouched'
    BY <1>21 DEF Persist
  <1>22. ASSUME NEW t \in Turns, PersistFails(t) PROVE Untouched'
    BY <1>22 DEF PersistFails
  <1>23. ASSUME NEW t \in Turns, SealChanges(t) PROVE Untouched'
    BY <1>23 DEF SealChanges
  <1>24. ASSUME NEW t \in Turns, DeleteCheckpoint(t) PROVE Untouched'
    BY <1>24 DEF DeleteCheckpoint
  <1>25. ASSUME NEW t \in Turns, Release(t) PROVE Untouched'
    BY <1>25 DEF Release
  <1>26. ASSUME NEW t \in Turns, FailRecovery(t) PROVE Untouched'
    BY <1>26 DEF FailRecovery
  <1>27. ASSUME NEW t \in Turns, FailRecoveryFails(t) PROVE Untouched'
    BY <1>27 DEF FailRecoveryFails
  <1>28. ASSUME NEW t \in Turns, RecoveryCleaned(t) PROVE Untouched'
    BY <1>28 DEF RecoveryCleaned
  <1>29. ASSUME NEW t \in Turns, RecoveryStale(t) PROVE Untouched'
    BY <1>29 DEF RecoveryStale
  <1>30. ASSUME NEW t \in Turns, ReconcileTerminal(t) PROVE Untouched'
    BY <1>30 DEF ReconcileTerminal
  <1>31. ASSUME NEW t \in Turns, ReconcileInProgress(t) PROVE Untouched'
    BY <1>31 DEF ReconcileInProgress, Settle
  <1>32. CASE Crash
    BY <1>32 DEF Crash
  <1>33. CASE Restart
    BY <1>33 DEF Restart
  <1>34. CASE ReconcileFails
    BY <1>34 DEF ReconcileFails, Settle
  <1>35. CASE Activate
    BY <1>35 DEF Activate
  <1>36. CASE UNCHANGED vars
    BY <1>36
  <1>37. ASSUME NEW t \in Turns, Requeue(t) PROVE Untouched'
    BY <1>37 DEF Requeue
  <1>38. ASSUME NEW t \in Turns, Announce(t) PROVE Untouched'
    BY <1>38 DEF Announce
  <1>39. ASSUME NEW t \in Turns, CleanSettled(t) PROVE Untouched'
    BY <1>39 DEF CleanSettled
  <1>40. QED
    BY <1>1, <1>2, <1>3, <1>4, <1>5, <1>6, <1>7, <1>8, <1>9, <1>10, <1>11, <1>12,
      <1>13, <1>14, <1>15, <1>16, <1>17, <1>18, <1>19, <1>20, <1>21, <1>22, <1>23,
      <1>24, <1>25, <1>26, <1>27, <1>28, <1>29, <1>30, <1>31, <1>32, <1>33, <1>34,
      <1>35, <1>36, <1>37, <1>38, <1>39
      DEF Next, RequestNext, FactoryNext, RecoveryNext

LEMMA WrittenStep == LInv /\ [Next]_vars => Written'
  <1> SUFFICES ASSUME LInv, [Next]_vars PROVE Written'
    OBVIOUS
  <1> USE TurnsAssumption DEF LInv, IInv, Custody, OwnedTurnIsOpen, Decided, Untouched,
     Written, TypeOK, InProgress, ThreadFree, Write, Fault, Idle, Take, At, Go, AskNext,
     Volatile, Looking, durable, recovery, work, history, budgets, vars, Terminal,
     Statuses, Checkpoints, Phases, Stages
  <1>1. ASSUME NEW t \in Turns, NEW k \in {"submit", "retry"}, Submit(t, k) PROVE
     Written'
    BY <1>1 DEF Submit
  <1>2. ASSUME NEW t \in Turns, BeginTurn(t) PROVE Written'
    BY <1>2 DEF BeginTurn
  <1>3. ASSUME NEW t \in Turns, BeginFails(t) PROVE Written'
    BY <1>3 DEF BeginFails
  <1>4. ASSUME NEW t \in Turns, CancelBegunTurn(t) PROVE Written'
    BY <1>4 DEF CancelBegunTurn
  <1>5. ASSUME NEW t \in Turns, ClaimRecovery(t) PROVE Written'
    BY <1>5 DEF ClaimRecovery
  <1>6. ASSUME NEW t \in Turns, StartReserved(t) PROVE Written'
    BY <1>6 DEF StartReserved
  <1>7. ASSUME NEW t \in Turns, StartFails(t) PROVE Written'
    BY <1>7 DEF StartFails
  <1>8. ASSUME NEW t \in Turns, Compensate(t) PROVE Written'
    BY <1>8 DEF Compensate
  <1>9. ASSUME NEW t \in Turns, InvokeStarts(t) PROVE Written'
    BY <1>9 DEF InvokeStarts
  <1>10. ASSUME NEW t \in Turns, Cancel(t) PROVE Written'
    BY <1>10 DEF Cancel
  <1>11. ASSUME NEW t \in Turns, BarrierOpens(t) PROVE Written'
    BY <1>11 DEF BarrierOpens
  <1>12. ASSUME NEW t \in Turns, BarrierFails(t) PROVE Written'
    BY <1>12 DEF BarrierFails
  <1>13. ASSUME NEW t \in Turns, BarrierCancelled(t) PROVE Written'
    BY <1>13 DEF BarrierCancelled
  <1>14. ASSUME NEW t \in Turns, Prepared(t) PROVE Written'
    BY <1>14 DEF Prepared
  <1>15. ASSUME NEW t \in Turns, GraphSteps(t) PROVE Written'
    BY <1>15 DEF GraphSteps
  <1>16. ASSUME NEW t \in Turns, GraphConcludes(t) PROVE Written'
    BY <1>16 DEF GraphConcludes
  <1>17. ASSUME NEW t \in Turns, CommitBegins(t) PROVE Written'
    BY <1>17 DEF CommitBegins
  <1>18. ASSUME NEW t \in Turns, PreparationFails(t) PROVE Written'
    BY <1>18 DEF PreparationFails
  <1>19. ASSUME NEW t \in Turns, CancelDelivered(t) PROVE Written'
    BY <1>19 DEF CancelDelivered
  <1>20. ASSUME NEW t \in Turns, UnwindingFails(t) PROVE Written'
    BY <1>20 DEF UnwindingFails
  <1>21. ASSUME NEW t \in Turns, Persist(t) PROVE Written'
    BY <1>21 DEF Persist
  <1>22. ASSUME NEW t \in Turns, PersistFails(t) PROVE Written'
    BY <1>22 DEF PersistFails
  <1>23. ASSUME NEW t \in Turns, SealChanges(t) PROVE Written'
    BY <1>23 DEF SealChanges
  <1>24. ASSUME NEW t \in Turns, DeleteCheckpoint(t) PROVE Written'
    BY <1>24 DEF DeleteCheckpoint
  <1>25. ASSUME NEW t \in Turns, Release(t) PROVE Written'
    BY <1>25 DEF Release
  <1>26. ASSUME NEW t \in Turns, FailRecovery(t) PROVE Written'
    BY <1>26 DEF FailRecovery
  <1>27. ASSUME NEW t \in Turns, FailRecoveryFails(t) PROVE Written'
    BY <1>27 DEF FailRecoveryFails
  <1>28. ASSUME NEW t \in Turns, RecoveryCleaned(t) PROVE Written'
    BY <1>28 DEF RecoveryCleaned
  <1>29. ASSUME NEW t \in Turns, RecoveryStale(t) PROVE Written'
    BY <1>29 DEF RecoveryStale
  <1>30. ASSUME NEW t \in Turns, ReconcileTerminal(t) PROVE Written'
    BY <1>30 DEF ReconcileTerminal
  <1>31. ASSUME NEW t \in Turns, ReconcileInProgress(t) PROVE Written'
    BY <1>31 DEF ReconcileInProgress, Settle
  <1>32. CASE Crash
    BY <1>32 DEF Crash
  <1>33. CASE Restart
    BY <1>33 DEF Restart
  <1>34. CASE ReconcileFails
    BY <1>34 DEF ReconcileFails, Settle
  <1>35. CASE Activate
    BY <1>35 DEF Activate
  <1>36. CASE UNCHANGED vars
    BY <1>36
  <1>37. ASSUME NEW t \in Turns, Requeue(t) PROVE Written'
    BY <1>37 DEF Requeue
  <1>38. ASSUME NEW t \in Turns, Announce(t) PROVE Written'
    BY <1>38 DEF Announce
  <1>39. ASSUME NEW t \in Turns, CleanSettled(t) PROVE Written'
    BY <1>39 DEF CleanSettled
  <1>40. QED
    BY <1>1, <1>2, <1>3, <1>4, <1>5, <1>6, <1>7, <1>8, <1>9, <1>10, <1>11, <1>12,
      <1>13, <1>14, <1>15, <1>16, <1>17, <1>18, <1>19, <1>20, <1>21, <1>22, <1>23,
      <1>24, <1>25, <1>26, <1>27, <1>28, <1>29, <1>30, <1>31, <1>32, <1>33, <1>34,
      <1>35, <1>36, <1>37, <1>38, <1>39
      DEF Next, RequestNext, FactoryNext, RecoveryNext

LEMMA SettlingStep == LInv /\ [Next]_vars => Settling'
  <1> SUFFICES ASSUME LInv, [Next]_vars PROVE Settling'
    OBVIOUS
  <1> USE TurnsAssumption DEF LInv, IInv, Custody, Settling, TypeOK, InProgress,
     ThreadFree, Write, Fault, Idle, Take, At, Go, AskNext, Volatile, Looking, durable,
     recovery, work, history, budgets, vars, Terminal, Statuses, Checkpoints, Phases,
     Stages
  <1>1. ASSUME NEW t \in Turns, NEW k \in {"submit", "retry"}, Submit(t, k) PROVE
     Settling'
    BY <1>1 DEF Submit
  <1>2. ASSUME NEW t \in Turns, BeginTurn(t) PROVE Settling'
    BY <1>2 DEF BeginTurn
  <1>3. ASSUME NEW t \in Turns, BeginFails(t) PROVE Settling'
    BY <1>3 DEF BeginFails
  <1>4. ASSUME NEW t \in Turns, CancelBegunTurn(t) PROVE Settling'
    BY <1>4 DEF CancelBegunTurn
  <1>5. ASSUME NEW t \in Turns, ClaimRecovery(t) PROVE Settling'
    BY <1>5 DEF ClaimRecovery
  <1>6. ASSUME NEW t \in Turns, StartReserved(t) PROVE Settling'
    BY <1>6 DEF StartReserved
  <1>7. ASSUME NEW t \in Turns, StartFails(t) PROVE Settling'
    BY <1>7 DEF StartFails
  <1>8. ASSUME NEW t \in Turns, Compensate(t) PROVE Settling'
    BY <1>8 DEF Compensate
  <1>9. ASSUME NEW t \in Turns, InvokeStarts(t) PROVE Settling'
    BY <1>9 DEF InvokeStarts
  <1>10. ASSUME NEW t \in Turns, Cancel(t) PROVE Settling'
    BY <1>10 DEF Cancel
  <1>11. ASSUME NEW t \in Turns, BarrierOpens(t) PROVE Settling'
    BY <1>11 DEF BarrierOpens
  <1>12. ASSUME NEW t \in Turns, BarrierFails(t) PROVE Settling'
    BY <1>12 DEF BarrierFails
  <1>13. ASSUME NEW t \in Turns, BarrierCancelled(t) PROVE Settling'
    BY <1>13 DEF BarrierCancelled
  <1>14. ASSUME NEW t \in Turns, Prepared(t) PROVE Settling'
    BY <1>14 DEF Prepared
  <1>15. ASSUME NEW t \in Turns, GraphSteps(t) PROVE Settling'
    BY <1>15 DEF GraphSteps
  <1>16. ASSUME NEW t \in Turns, GraphConcludes(t) PROVE Settling'
    BY <1>16 DEF GraphConcludes
  <1>17. ASSUME NEW t \in Turns, CommitBegins(t) PROVE Settling'
    BY <1>17 DEF CommitBegins
  <1>18. ASSUME NEW t \in Turns, PreparationFails(t) PROVE Settling'
    BY <1>18 DEF PreparationFails
  <1>19. ASSUME NEW t \in Turns, CancelDelivered(t) PROVE Settling'
    BY <1>19 DEF CancelDelivered
  <1>20. ASSUME NEW t \in Turns, UnwindingFails(t) PROVE Settling'
    BY <1>20 DEF UnwindingFails
  <1>21. ASSUME NEW t \in Turns, Persist(t) PROVE Settling'
    BY <1>21 DEF Persist
  <1>22. ASSUME NEW t \in Turns, PersistFails(t) PROVE Settling'
    BY <1>22 DEF PersistFails
  <1>23. ASSUME NEW t \in Turns, SealChanges(t) PROVE Settling'
    BY <1>23 DEF SealChanges
  <1>24. ASSUME NEW t \in Turns, DeleteCheckpoint(t) PROVE Settling'
    BY <1>24 DEF DeleteCheckpoint
  <1>25. ASSUME NEW t \in Turns, Release(t) PROVE Settling'
    BY <1>25 DEF Release
  <1>26. ASSUME NEW t \in Turns, FailRecovery(t) PROVE Settling'
    BY <1>26 DEF FailRecovery
  <1>27. ASSUME NEW t \in Turns, FailRecoveryFails(t) PROVE Settling'
    BY <1>27 DEF FailRecoveryFails
  <1>28. ASSUME NEW t \in Turns, RecoveryCleaned(t) PROVE Settling'
    BY <1>28 DEF RecoveryCleaned
  <1>29. ASSUME NEW t \in Turns, RecoveryStale(t) PROVE Settling'
    BY <1>29 DEF RecoveryStale
  <1>30. ASSUME NEW t \in Turns, ReconcileTerminal(t) PROVE Settling'
    BY <1>30 DEF ReconcileTerminal
  <1>31. ASSUME NEW t \in Turns, ReconcileInProgress(t) PROVE Settling'
    BY <1>31 DEF ReconcileInProgress, Settle
  <1>32. CASE Crash
    BY <1>32 DEF Crash
  <1>33. CASE Restart
    BY <1>33 DEF Restart
  <1>34. CASE ReconcileFails
    BY <1>34 DEF ReconcileFails, Settle
  <1>35. CASE Activate
    BY <1>35 DEF Activate
  <1>36. CASE UNCHANGED vars
    BY <1>36
  <1>37. ASSUME NEW t \in Turns, Requeue(t) PROVE Settling'
    BY <1>37 DEF Requeue
  <1>38. ASSUME NEW t \in Turns, Announce(t) PROVE Settling'
    BY <1>38 DEF Announce
  <1>39. ASSUME NEW t \in Turns, CleanSettled(t) PROVE Settling'
    BY <1>39 DEF CleanSettled
  <1>40. QED
    BY <1>1, <1>2, <1>3, <1>4, <1>5, <1>6, <1>7, <1>8, <1>9, <1>10, <1>11, <1>12,
      <1>13, <1>14, <1>15, <1>16, <1>17, <1>18, <1>19, <1>20, <1>21, <1>22, <1>23,
      <1>24, <1>25, <1>26, <1>27, <1>28, <1>29, <1>30, <1>31, <1>32, <1>33, <1>34,
      <1>35, <1>36, <1>37, <1>38, <1>39
      DEF Next, RequestNext, FactoryNext, RecoveryNext

LEMMA AskedStep == LInv /\ [Next]_vars => Asked'
  <1> SUFFICES ASSUME LInv, [Next]_vars PROVE Asked'
    OBVIOUS
  <1> USE TurnsAssumption DEF LInv, IInv, Custody, OwnedTurnIsOpen, Untouched, Asked, Stranded,
     TypeOK, InProgress, ThreadFree, Write, Fault, Idle, Take, At, Go, AskNext,
     Volatile, Looking, durable, recovery, work, history, budgets, vars, Terminal,
     Statuses, Checkpoints, Phases, Stages
  <1>1. ASSUME NEW t \in Turns, NEW k \in {"submit", "retry"}, Submit(t, k) PROVE Asked'
    BY <1>1 DEF Submit
  <1>2. ASSUME NEW t \in Turns, BeginTurn(t) PROVE Asked'
    BY <1>2 DEF BeginTurn
  <1>3. ASSUME NEW t \in Turns, BeginFails(t) PROVE Asked'
    BY <1>3 DEF BeginFails
  <1>4. ASSUME NEW t \in Turns, CancelBegunTurn(t) PROVE Asked'
    BY <1>4 DEF CancelBegunTurn
  <1>5. ASSUME NEW t \in Turns, ClaimRecovery(t) PROVE Asked'
    BY <1>5 DEF ClaimRecovery
  <1>6. ASSUME NEW t \in Turns, StartReserved(t) PROVE Asked'
    BY <1>6 DEF StartReserved
  <1>7. ASSUME NEW t \in Turns, StartFails(t) PROVE Asked'
    BY <1>7 DEF StartFails
  <1>8. ASSUME NEW t \in Turns, Compensate(t) PROVE Asked'
    BY <1>8 DEF Compensate
  <1>9. ASSUME NEW t \in Turns, InvokeStarts(t) PROVE Asked'
    BY <1>9 DEF InvokeStarts
  <1>10. ASSUME NEW t \in Turns, Cancel(t) PROVE Asked'
    BY <1>10 DEF Cancel
  <1>11. ASSUME NEW t \in Turns, BarrierOpens(t) PROVE Asked'
    BY <1>11 DEF BarrierOpens
  <1>12. ASSUME NEW t \in Turns, BarrierFails(t) PROVE Asked'
    BY <1>12 DEF BarrierFails
  <1>13. ASSUME NEW t \in Turns, BarrierCancelled(t) PROVE Asked'
    BY <1>13 DEF BarrierCancelled
  <1>14. ASSUME NEW t \in Turns, Prepared(t) PROVE Asked'
    BY <1>14 DEF Prepared
  <1>15. ASSUME NEW t \in Turns, GraphSteps(t) PROVE Asked'
    BY <1>15 DEF GraphSteps
  <1>16. ASSUME NEW t \in Turns, GraphConcludes(t) PROVE Asked'
    BY <1>16 DEF GraphConcludes
  <1>17. ASSUME NEW t \in Turns, CommitBegins(t) PROVE Asked'
    BY <1>17 DEF CommitBegins
  <1>18. ASSUME NEW t \in Turns, PreparationFails(t) PROVE Asked'
    BY <1>18 DEF PreparationFails
  <1>19. ASSUME NEW t \in Turns, CancelDelivered(t) PROVE Asked'
    BY <1>19 DEF CancelDelivered
  <1>20. ASSUME NEW t \in Turns, UnwindingFails(t) PROVE Asked'
    BY <1>20 DEF UnwindingFails
  <1>21. ASSUME NEW t \in Turns, Persist(t) PROVE Asked'
    BY <1>21 DEF Persist
  <1>22. ASSUME NEW t \in Turns, PersistFails(t) PROVE Asked'
    BY <1>22 DEF PersistFails
  <1>23. ASSUME NEW t \in Turns, SealChanges(t) PROVE Asked'
    BY <1>23 DEF SealChanges
  <1>24. ASSUME NEW t \in Turns, DeleteCheckpoint(t) PROVE Asked'
    BY <1>24 DEF DeleteCheckpoint
  <1>25. ASSUME NEW t \in Turns, Release(t) PROVE Asked'
    BY <1>25 DEF Release
  <1>26. ASSUME NEW t \in Turns, FailRecovery(t) PROVE Asked'
    BY <1>26 DEF FailRecovery
  <1>27. ASSUME NEW t \in Turns, FailRecoveryFails(t) PROVE Asked'
    BY <1>27 DEF FailRecoveryFails
  <1>28. ASSUME NEW t \in Turns, RecoveryCleaned(t) PROVE Asked'
    BY <1>28 DEF RecoveryCleaned
  <1>29. ASSUME NEW t \in Turns, RecoveryStale(t) PROVE Asked'
    BY <1>29 DEF RecoveryStale
  <1>30. ASSUME NEW t \in Turns, ReconcileTerminal(t) PROVE Asked'
    BY <1>30 DEF ReconcileTerminal
  <1>31. ASSUME NEW t \in Turns, ReconcileInProgress(t) PROVE Asked'
    BY <1>31 DEF ReconcileInProgress, Settle
  <1>32. CASE Crash
    BY <1>32 DEF Crash
  <1>33. CASE Restart
    BY <1>33 DEF Restart
  <1>34. CASE ReconcileFails
    BY <1>34 DEF ReconcileFails, Settle
  <1>35. CASE Activate
    BY <1>35 DEF Activate
  <1>36. CASE UNCHANGED vars
    BY <1>36
  <1>37. ASSUME NEW t \in Turns, Requeue(t) PROVE Asked'
    BY <1>37 DEF Requeue
  <1>38. ASSUME NEW t \in Turns, Announce(t) PROVE Asked'
    BY <1>38 DEF Announce
  <1>39. ASSUME NEW t \in Turns, CleanSettled(t) PROVE Asked'
    BY <1>39 DEF CleanSettled
  <1>40. QED
    BY <1>1, <1>2, <1>3, <1>4, <1>5, <1>6, <1>7, <1>8, <1>9, <1>10, <1>11, <1>12,
      <1>13, <1>14, <1>15, <1>16, <1>17, <1>18, <1>19, <1>20, <1>21, <1>22, <1>23,
      <1>24, <1>25, <1>26, <1>27, <1>28, <1>29, <1>30, <1>31, <1>32, <1>33, <1>34,
      <1>35, <1>36, <1>37, <1>38, <1>39
      DEF Next, RequestNext, FactoryNext, RecoveryNext

LEMMA ToldStep == LInv /\ [Next]_vars => ToldAgrees'
  <1> SUFFICES ASSUME LInv, [Next]_vars PROVE ToldAgrees'
    OBVIOUS
  <1> USE TurnsAssumption DEF LInv, IInv, Custody, OwnedTurnIsOpen, Decided, Untouched,
     Written, ToldAgrees, TypeOK, InProgress, ThreadFree, Write, Fault, Idle, Take, At,
     Go, AskNext, Volatile, Looking, durable, recovery, work, history, budgets, vars,
     Terminal, Statuses, Checkpoints, Phases, Stages
  <1>1. ASSUME NEW t \in Turns, NEW k \in {"submit", "retry"}, Submit(t, k) PROVE
     ToldAgrees'
    BY <1>1 DEF Submit
  <1>2. ASSUME NEW t \in Turns, BeginTurn(t) PROVE ToldAgrees'
    BY <1>2 DEF BeginTurn
  <1>3. ASSUME NEW t \in Turns, BeginFails(t) PROVE ToldAgrees'
    BY <1>3 DEF BeginFails
  <1>4. ASSUME NEW t \in Turns, CancelBegunTurn(t) PROVE ToldAgrees'
    BY <1>4 DEF CancelBegunTurn
  <1>5. ASSUME NEW t \in Turns, ClaimRecovery(t) PROVE ToldAgrees'
    BY <1>5 DEF ClaimRecovery
  <1>6. ASSUME NEW t \in Turns, StartReserved(t) PROVE ToldAgrees'
    BY <1>6 DEF StartReserved
  <1>7. ASSUME NEW t \in Turns, StartFails(t) PROVE ToldAgrees'
    BY <1>7 DEF StartFails
  <1>8. ASSUME NEW t \in Turns, Compensate(t) PROVE ToldAgrees'
    BY <1>8 DEF Compensate
  <1>9. ASSUME NEW t \in Turns, InvokeStarts(t) PROVE ToldAgrees'
    BY <1>9 DEF InvokeStarts
  <1>10. ASSUME NEW t \in Turns, Cancel(t) PROVE ToldAgrees'
    BY <1>10 DEF Cancel
  <1>11. ASSUME NEW t \in Turns, BarrierOpens(t) PROVE ToldAgrees'
    BY <1>11 DEF BarrierOpens
  <1>12. ASSUME NEW t \in Turns, BarrierFails(t) PROVE ToldAgrees'
    BY <1>12 DEF BarrierFails
  <1>13. ASSUME NEW t \in Turns, BarrierCancelled(t) PROVE ToldAgrees'
    BY <1>13 DEF BarrierCancelled
  <1>14. ASSUME NEW t \in Turns, Prepared(t) PROVE ToldAgrees'
    BY <1>14 DEF Prepared
  <1>15. ASSUME NEW t \in Turns, GraphSteps(t) PROVE ToldAgrees'
    BY <1>15 DEF GraphSteps
  <1>16. ASSUME NEW t \in Turns, GraphConcludes(t) PROVE ToldAgrees'
    BY <1>16 DEF GraphConcludes
  <1>17. ASSUME NEW t \in Turns, CommitBegins(t) PROVE ToldAgrees'
    BY <1>17 DEF CommitBegins
  <1>18. ASSUME NEW t \in Turns, PreparationFails(t) PROVE ToldAgrees'
    BY <1>18 DEF PreparationFails
  <1>19. ASSUME NEW t \in Turns, CancelDelivered(t) PROVE ToldAgrees'
    BY <1>19 DEF CancelDelivered
  <1>20. ASSUME NEW t \in Turns, UnwindingFails(t) PROVE ToldAgrees'
    BY <1>20 DEF UnwindingFails
  <1>21. ASSUME NEW t \in Turns, Persist(t) PROVE ToldAgrees'
    BY <1>21 DEF Persist
  <1>22. ASSUME NEW t \in Turns, PersistFails(t) PROVE ToldAgrees'
    BY <1>22 DEF PersistFails
  <1>23. ASSUME NEW t \in Turns, SealChanges(t) PROVE ToldAgrees'
    BY <1>23 DEF SealChanges
  <1>24. ASSUME NEW t \in Turns, DeleteCheckpoint(t) PROVE ToldAgrees'
    BY <1>24 DEF DeleteCheckpoint
  <1>25. ASSUME NEW t \in Turns, Release(t) PROVE ToldAgrees'
    BY <1>25 DEF Release
  <1>26. ASSUME NEW t \in Turns, FailRecovery(t) PROVE ToldAgrees'
    BY <1>26 DEF FailRecovery
  <1>27. ASSUME NEW t \in Turns, FailRecoveryFails(t) PROVE ToldAgrees'
    BY <1>27 DEF FailRecoveryFails
  <1>28. ASSUME NEW t \in Turns, RecoveryCleaned(t) PROVE ToldAgrees'
    BY <1>28 DEF RecoveryCleaned
  <1>29. ASSUME NEW t \in Turns, RecoveryStale(t) PROVE ToldAgrees'
    BY <1>29 DEF RecoveryStale
  <1>30. ASSUME NEW t \in Turns, ReconcileTerminal(t) PROVE ToldAgrees'
    BY <1>30 DEF ReconcileTerminal
  <1>31. ASSUME NEW t \in Turns, ReconcileInProgress(t) PROVE ToldAgrees'
    BY <1>31 DEF ReconcileInProgress, Settle
  <1>32. CASE Crash
    BY <1>32 DEF Crash
  <1>33. CASE Restart
    BY <1>33 DEF Restart
  <1>34. CASE ReconcileFails
    BY <1>34 DEF ReconcileFails, Settle
  <1>35. CASE Activate
    BY <1>35 DEF Activate
  <1>36. CASE UNCHANGED vars
    BY <1>36
  <1>37. ASSUME NEW t \in Turns, Requeue(t) PROVE ToldAgrees'
    BY <1>37 DEF Requeue
  <1>38. ASSUME NEW t \in Turns, Announce(t) PROVE ToldAgrees'
    BY <1>38 DEF Announce
  <1>39. ASSUME NEW t \in Turns, CleanSettled(t) PROVE ToldAgrees'
    BY <1>39 DEF CleanSettled
  <1>40. QED
    BY <1>1, <1>2, <1>3, <1>4, <1>5, <1>6, <1>7, <1>8, <1>9, <1>10, <1>11, <1>12,
      <1>13, <1>14, <1>15, <1>16, <1>17, <1>18, <1>19, <1>20, <1>21, <1>22, <1>23,
      <1>24, <1>25, <1>26, <1>27, <1>28, <1>29, <1>30, <1>31, <1>32, <1>33, <1>34,
      <1>35, <1>36, <1>37, <1>38, <1>39
      DEF Next, RequestNext, FactoryNext, RecoveryNext

LEMMA StrandedStep == LInv /\ [Next]_vars => NoStrandedTurn'
  <1> SUFFICES ASSUME LInv, [Next]_vars PROVE NoStrandedTurn'
    OBVIOUS
  <1> USE TurnsAssumption DEF LInv, IInv, Custody, OwnedTurnIsOpen, Decided, Untouched,
     Written, Settling, NoStrandedTurn, Stranded, TypeOK, InProgress, ThreadFree, Write, Fault,
     Idle, Take, At, Go, AskNext, Volatile, Looking, durable, recovery, work, history,
     budgets, vars, Terminal, Statuses, Checkpoints, Phases, Stages
  <1>1. ASSUME NEW t \in Turns, NEW k \in {"submit", "retry"}, Submit(t, k) PROVE
     NoStrandedTurn'
    BY <1>1 DEF Submit
  <1>2. ASSUME NEW t \in Turns, BeginTurn(t) PROVE NoStrandedTurn'
    BY <1>2 DEF BeginTurn
  <1>3. ASSUME NEW t \in Turns, BeginFails(t) PROVE NoStrandedTurn'
    BY <1>3 DEF BeginFails
  <1>4. ASSUME NEW t \in Turns, CancelBegunTurn(t) PROVE NoStrandedTurn'
    BY <1>4 DEF CancelBegunTurn
  <1>5. ASSUME NEW t \in Turns, ClaimRecovery(t) PROVE NoStrandedTurn'
    BY <1>5 DEF ClaimRecovery
  <1>6. ASSUME NEW t \in Turns, StartReserved(t) PROVE NoStrandedTurn'
    BY <1>6 DEF StartReserved
  <1>7. ASSUME NEW t \in Turns, StartFails(t) PROVE NoStrandedTurn'
    BY <1>7 DEF StartFails
  <1>8. ASSUME NEW t \in Turns, Compensate(t) PROVE NoStrandedTurn'
    BY <1>8 DEF Compensate
  <1>9. ASSUME NEW t \in Turns, InvokeStarts(t) PROVE NoStrandedTurn'
    BY <1>9 DEF InvokeStarts
  <1>10. ASSUME NEW t \in Turns, Cancel(t) PROVE NoStrandedTurn'
    BY <1>10 DEF Cancel
  <1>11. ASSUME NEW t \in Turns, BarrierOpens(t) PROVE NoStrandedTurn'
    BY <1>11 DEF BarrierOpens
  <1>12. ASSUME NEW t \in Turns, BarrierFails(t) PROVE NoStrandedTurn'
    BY <1>12 DEF BarrierFails
  <1>13. ASSUME NEW t \in Turns, BarrierCancelled(t) PROVE NoStrandedTurn'
    BY <1>13 DEF BarrierCancelled
  <1>14. ASSUME NEW t \in Turns, Prepared(t) PROVE NoStrandedTurn'
    BY <1>14 DEF Prepared
  <1>15. ASSUME NEW t \in Turns, GraphSteps(t) PROVE NoStrandedTurn'
    BY <1>15 DEF GraphSteps
  <1>16. ASSUME NEW t \in Turns, GraphConcludes(t) PROVE NoStrandedTurn'
    BY <1>16 DEF GraphConcludes
  <1>17. ASSUME NEW t \in Turns, CommitBegins(t) PROVE NoStrandedTurn'
    BY <1>17 DEF CommitBegins
  <1>18. ASSUME NEW t \in Turns, PreparationFails(t) PROVE NoStrandedTurn'
    BY <1>18 DEF PreparationFails
  <1>19. ASSUME NEW t \in Turns, CancelDelivered(t) PROVE NoStrandedTurn'
    BY <1>19 DEF CancelDelivered
  <1>20. ASSUME NEW t \in Turns, UnwindingFails(t) PROVE NoStrandedTurn'
    BY <1>20 DEF UnwindingFails
  <1>21. ASSUME NEW t \in Turns, Persist(t) PROVE NoStrandedTurn'
    BY <1>21 DEF Persist
  <1>22. ASSUME NEW t \in Turns, PersistFails(t) PROVE NoStrandedTurn'
    BY <1>22 DEF PersistFails
  <1>23. ASSUME NEW t \in Turns, SealChanges(t) PROVE NoStrandedTurn'
    BY <1>23 DEF SealChanges
  <1>24. ASSUME NEW t \in Turns, DeleteCheckpoint(t) PROVE NoStrandedTurn'
    BY <1>24 DEF DeleteCheckpoint
  <1>25. ASSUME NEW t \in Turns, Release(t) PROVE NoStrandedTurn'
    BY <1>25 DEF Release
  <1>26. ASSUME NEW t \in Turns, FailRecovery(t) PROVE NoStrandedTurn'
    BY <1>26 DEF FailRecovery
  <1>27. ASSUME NEW t \in Turns, FailRecoveryFails(t) PROVE NoStrandedTurn'
    BY <1>27 DEF FailRecoveryFails
  <1>28. ASSUME NEW t \in Turns, RecoveryCleaned(t) PROVE NoStrandedTurn'
    BY <1>28 DEF RecoveryCleaned
  <1>29. ASSUME NEW t \in Turns, RecoveryStale(t) PROVE NoStrandedTurn'
    BY <1>29 DEF RecoveryStale
  <1>30. ASSUME NEW t \in Turns, ReconcileTerminal(t) PROVE NoStrandedTurn'
    BY <1>30 DEF ReconcileTerminal
  <1>31. ASSUME NEW t \in Turns, ReconcileInProgress(t) PROVE NoStrandedTurn'
    BY <1>31 DEF ReconcileInProgress, Settle
  <1>32. CASE Crash
    BY <1>32 DEF Crash
  <1>33. CASE Restart
    BY <1>33 DEF Restart
  <1>34. CASE ReconcileFails
    BY <1>34 DEF ReconcileFails, Settle
  <1>35. CASE Activate
    BY <1>35 DEF Activate
  <1>36. CASE UNCHANGED vars
    BY <1>36
  <1>37. ASSUME NEW t \in Turns, Requeue(t) PROVE NoStrandedTurn'
    BY <1>37 DEF Requeue
  <1>38. ASSUME NEW t \in Turns, Announce(t) PROVE NoStrandedTurn'
    BY <1>38 DEF Announce
  <1>39. ASSUME NEW t \in Turns, CleanSettled(t) PROVE NoStrandedTurn'
    BY <1>39 DEF CleanSettled
  <1>40. QED
    BY <1>1, <1>2, <1>3, <1>4, <1>5, <1>6, <1>7, <1>8, <1>9, <1>10, <1>11, <1>12,
      <1>13, <1>14, <1>15, <1>16, <1>17, <1>18, <1>19, <1>20, <1>21, <1>22, <1>23,
      <1>24, <1>25, <1>26, <1>27, <1>28, <1>29, <1>30, <1>31, <1>32, <1>33, <1>34,
      <1>35, <1>36, <1>37, <1>38, <1>39
      DEF Next, RequestNext, FactoryNext, RecoveryNext

LEMMA CleanStep == LInv /\ [Next]_vars => CleanWhenReleased'
  <1> SUFFICES ASSUME LInv, [Next]_vars PROVE CleanWhenReleased'
    OBVIOUS
  <1> USE TurnsAssumption DEF LInv, IInv, Custody, OwnedTurnIsOpen, Decided, Untouched,
     Written, Settling, CleanWhenReleased, TypeOK, InProgress, ThreadFree, Write, Fault,
     Idle, Take, At, Go, AskNext, Volatile, Looking, durable, recovery, work, history,
     budgets, vars, Terminal, Statuses, Checkpoints, Phases, Stages
  <1>1. ASSUME NEW t \in Turns, NEW k \in {"submit", "retry"}, Submit(t, k) PROVE
     CleanWhenReleased'
    BY <1>1 DEF Submit
  <1>2. ASSUME NEW t \in Turns, BeginTurn(t) PROVE CleanWhenReleased'
    BY <1>2 DEF BeginTurn
  <1>3. ASSUME NEW t \in Turns, BeginFails(t) PROVE CleanWhenReleased'
    BY <1>3 DEF BeginFails
  <1>4. ASSUME NEW t \in Turns, CancelBegunTurn(t) PROVE CleanWhenReleased'
    BY <1>4 DEF CancelBegunTurn
  <1>5. ASSUME NEW t \in Turns, ClaimRecovery(t) PROVE CleanWhenReleased'
    BY <1>5 DEF ClaimRecovery
  <1>6. ASSUME NEW t \in Turns, StartReserved(t) PROVE CleanWhenReleased'
    BY <1>6 DEF StartReserved
  <1>7. ASSUME NEW t \in Turns, StartFails(t) PROVE CleanWhenReleased'
    BY <1>7 DEF StartFails
  <1>8. ASSUME NEW t \in Turns, Compensate(t) PROVE CleanWhenReleased'
    BY <1>8 DEF Compensate
  <1>9. ASSUME NEW t \in Turns, InvokeStarts(t) PROVE CleanWhenReleased'
    BY <1>9 DEF InvokeStarts
  <1>10. ASSUME NEW t \in Turns, Cancel(t) PROVE CleanWhenReleased'
    BY <1>10 DEF Cancel
  <1>11. ASSUME NEW t \in Turns, BarrierOpens(t) PROVE CleanWhenReleased'
    BY <1>11 DEF BarrierOpens
  <1>12. ASSUME NEW t \in Turns, BarrierFails(t) PROVE CleanWhenReleased'
    BY <1>12 DEF BarrierFails
  <1>13. ASSUME NEW t \in Turns, BarrierCancelled(t) PROVE CleanWhenReleased'
    BY <1>13 DEF BarrierCancelled
  <1>14. ASSUME NEW t \in Turns, Prepared(t) PROVE CleanWhenReleased'
    BY <1>14 DEF Prepared
  <1>15. ASSUME NEW t \in Turns, GraphSteps(t) PROVE CleanWhenReleased'
    BY <1>15 DEF GraphSteps
  <1>16. ASSUME NEW t \in Turns, GraphConcludes(t) PROVE CleanWhenReleased'
    BY <1>16 DEF GraphConcludes
  <1>17. ASSUME NEW t \in Turns, CommitBegins(t) PROVE CleanWhenReleased'
    BY <1>17 DEF CommitBegins
  <1>18. ASSUME NEW t \in Turns, PreparationFails(t) PROVE CleanWhenReleased'
    BY <1>18 DEF PreparationFails
  <1>19. ASSUME NEW t \in Turns, CancelDelivered(t) PROVE CleanWhenReleased'
    BY <1>19 DEF CancelDelivered
  <1>20. ASSUME NEW t \in Turns, UnwindingFails(t) PROVE CleanWhenReleased'
    BY <1>20 DEF UnwindingFails
  <1>21. ASSUME NEW t \in Turns, Persist(t) PROVE CleanWhenReleased'
    BY <1>21 DEF Persist
  <1>22. ASSUME NEW t \in Turns, PersistFails(t) PROVE CleanWhenReleased'
    BY <1>22 DEF PersistFails
  <1>23. ASSUME NEW t \in Turns, SealChanges(t) PROVE CleanWhenReleased'
    BY <1>23 DEF SealChanges
  <1>24. ASSUME NEW t \in Turns, DeleteCheckpoint(t) PROVE CleanWhenReleased'
    BY <1>24 DEF DeleteCheckpoint
  <1>25. ASSUME NEW t \in Turns, Release(t) PROVE CleanWhenReleased'
    BY <1>25 DEF Release
  <1>26. ASSUME NEW t \in Turns, FailRecovery(t) PROVE CleanWhenReleased'
    BY <1>26 DEF FailRecovery
  <1>27. ASSUME NEW t \in Turns, FailRecoveryFails(t) PROVE CleanWhenReleased'
    BY <1>27 DEF FailRecoveryFails
  <1>28. ASSUME NEW t \in Turns, RecoveryCleaned(t) PROVE CleanWhenReleased'
    BY <1>28 DEF RecoveryCleaned
  <1>29. ASSUME NEW t \in Turns, RecoveryStale(t) PROVE CleanWhenReleased'
    BY <1>29 DEF RecoveryStale
  <1>30. ASSUME NEW t \in Turns, ReconcileTerminal(t) PROVE CleanWhenReleased'
    BY <1>30 DEF ReconcileTerminal
  <1>31. ASSUME NEW t \in Turns, ReconcileInProgress(t) PROVE CleanWhenReleased'
    BY <1>31 DEF ReconcileInProgress, Settle
  <1>32. CASE Crash
    BY <1>32 DEF Crash
  <1>33. CASE Restart
    BY <1>33 DEF Restart
  <1>34. CASE ReconcileFails
    BY <1>34 DEF ReconcileFails, Settle
  <1>35. CASE Activate
    BY <1>35 DEF Activate
  <1>36. CASE UNCHANGED vars
    BY <1>36
  <1>37. ASSUME NEW t \in Turns, Requeue(t) PROVE CleanWhenReleased'
    BY <1>37 DEF Requeue
  <1>38. ASSUME NEW t \in Turns, Announce(t) PROVE CleanWhenReleased'
    BY <1>38 DEF Announce
  <1>39. ASSUME NEW t \in Turns, CleanSettled(t) PROVE CleanWhenReleased'
    BY <1>39 DEF CleanSettled
  <1>40. QED
    BY <1>1, <1>2, <1>3, <1>4, <1>5, <1>6, <1>7, <1>8, <1>9, <1>10, <1>11, <1>12,
      <1>13, <1>14, <1>15, <1>16, <1>17, <1>18, <1>19, <1>20, <1>21, <1>22, <1>23,
      <1>24, <1>25, <1>26, <1>27, <1>28, <1>29, <1>30, <1>31, <1>32, <1>33, <1>34,
      <1>35, <1>36, <1>37, <1>38, <1>39
      DEF Next, RequestNext, FactoryNext, RecoveryNext

LEMMA InitLInv == Init => LInv
  <1> SUFFICES ASSUME Init PROVE LInv
    OBVIOUS
  <1>1. IInv
    BY InitInv
  <1>2. Untouched /\ Written /\ Settling /\ Asked
    BY TurnsAssumption DEF Init, Untouched, Written, Settling, Asked, Terminal
  <1>3. ToldAgrees /\ NoStrandedTurn /\ CleanWhenReleased
    BY TurnsAssumption DEF Init, ToldAgrees, NoStrandedTurn, Stranded, CleanWhenReleased,
       Terminal, InProgress
  <1>4. QED
    BY <1>1, <1>2, <1>3 DEF LInv

THEOREM LeavesInductive == Spec => []LInv
  <1>1. IInv /\ [Next]_vars => IInv'
    BY TypeStep, CustodyStep, OwnedStep, DecidedStep, OneStep, AckStep DEF IInv
  <1>2. LInv => IInv
    BY DEF LInv
  <1>3. LInv /\ [Next]_vars => LInv'
    BY <1>1, <1>2, UntouchedStep, WrittenStep, SettlingStep, AskedStep, ToldStep,
       StrandedStep, CleanStep DEF LInv
  <1>4. QED
    BY InitLInv, <1>3, PTL DEF Spec

\* While every write succeeds a running process leaves no Turn without a hand, no
\* recovery without its question, no terminal event beside another status, no
\* change unsealed and no checkpoint of a finished Turn.
THEOREM NothingLeft == Spec => []NothingLeftBehind
  <1>1. LInv => NothingLeftBehind
    <2>1. LInv => RecoveryIsAsked
      BY DEF LInv, IInv, Custody, Asked, RecoveryIsAsked, Stranded
    <2>2. QED
      BY <2>1 DEF LInv, NothingLeftBehind
  <1>2. QED
    BY LeavesInductive, <1>1, PTL

\* A startup that activates the workspace has settled every Turn it found.
THEOREM StartupsSettle == Spec => StartupSettles
  <1> DEFINE Settled == mode = "reconciling" /\ mode' = "up" => \A t \in Turns :
          /\ status[t] \in Terminal =>
                checkpoint[t] = "none" \/ (t \in settled /\ faults > 0)
          /\ InProgress(t) => /\ checkpoint[t] \in {"working", "uncertain"}
                              /\ t \in recoverable'
          /\ changes[t] # "open"
  <1>1. ASSUME LInv, [Next]_vars PROVE Settled
    <2> SUFFICES ASSUME mode = "reconciling", mode' = "up" PROVE Settled
      OBVIOUS
    <2>1. todo = {} /\ recoverable' = recoverable
      <3> USE TurnsAssumption DEF IInv, Custody, Take, At, Looking, Volatile,
              durable, recovery, work, history, budgets, vars
      <3>1. ~(\E t \in Turns : RequestNext(t))
        BY DEF RequestNext, Submit, BeginTurn, BeginFails, CancelBegunTurn,
           ClaimRecovery, StartReserved, StartFails, Requeue, Compensate, InvokeStarts,
           Announce
      <3>2. ~(\E t \in Turns : FactoryNext(t))
        BY DEF FactoryNext, Cancel, BarrierOpens, BarrierFails, BarrierCancelled,
           Prepared, GraphSteps, GraphConcludes, CommitBegins, PreparationFails,
           CancelDelivered, UnwindingFails, Persist, PersistFails, SealChanges,
           DeleteCheckpoint, Release
      <3>3. ~(\E t \in Turns : RecoveryNext(t))
        BY DEF RecoveryNext, FailRecovery, FailRecoveryFails, RecoveryCleaned,
           RecoveryStale, ReconcileTerminal, ReconcileInProgress, CleanSettled
      <3>4. ~Crash /\ ~Restart /\ ~ReconcileFails /\ ~UNCHANGED vars
        BY DEF Crash, Restart, ReconcileFails
      <3>5. QED
        BY <1>1, <3>1, <3>2, <3>3, <3>4 DEF Next, Activate
    <2>2. QED
      BY <1>1, <2>1 DEF LInv, Settling, InProgress
  <1>2. QED
    BY LeavesInductive, <1>1, PTL DEF Spec, StartupSettles

\* A crash costs no checkpoint with work left, and nothing the next startup has
\* not settled.
THEOREM CrashesAreSettled == Spec => CrashesSettle
  BY CheckpointsKept, StartupsSettle DEF CrashesSettle

-----------------------------------------------------------------------------
(* Threads, Entries and Turns (Conversations).                              *)
(*                                                                          *)
(* The invariant says that the rows of a Thread are sound: Entries are      *)
(* numbered by their places, Turns own their Entries, and a Turn ends       *)
(* before the next one begins.  What a call has read was sound as well, and *)
(* a commit only lets a Thread grow, so the Turn a call works on is still   *)
(* there, and a plan that was built from a view is a prefix of it.          *)

\* The types of the rows.
EntryType == [sequence : Nat \ {0}, kind : Kinds, text : Answers]
TurnType == [user : Nat \ {0}, status : TurnStatuses, assistant : Nat,
             answer : {0} \cup Answers, manifest : Manifests]
Sources == [kind : {"fork", "retry"}, thread : Threads, turn : Nat \ {0}]
RowType == [present : BOOLEAN, title : {"new", "suggested", "named", "copy"},
            manual : BOOLEAN, model : {0, 1}, entries : Seq(EntryType),
            turns : SUBSET TurnType, summary : Nat,
            activities : SUBSET [call : Answers, sequence : Nat],
            source : Sources \cup {None}]

\* Entries are numbered by their places.
Gapless(row) == \A i \in DOMAIN row.entries : row.entries[i].sequence = i

\* A Turn has its question and, once completed, its answer.
Owning(row) ==
    \A u \in row.turns :
        /\ u.user \in DOMAIN row.entries /\ row.entries[u.user].kind = "user"
        /\ u.status = "completed" <=> u.assistant # 0
        /\ u.assistant # 0 =>
              /\ u.assistant \in DOMAIN row.entries /\ u.assistant > u.user
              /\ row.entries[u.assistant].kind = "assistant"
              /\ row.entries[u.assistant].text = u.answer

\* A question and an answer have their Turn.
Owned(row) ==
    \A i \in DOMAIN row.entries :
        /\ row.entries[i].kind = "user" => \E u \in row.turns : u.user = i
        /\ row.entries[i].kind = "assistant" => \E u \in row.turns : u.assistant = i

\* A Turn ends before the next one begins.
Sequential(row) ==
    \A u, v \in row.turns :
        /\ u.user = v.user => u = v
        /\ u.user < v.user => u.status # "in_progress" /\ u.assistant < v.user

Tallied(row) ==
    LET ids == {a.call : a \in row.activities} IN
    /\ IsFiniteSet(row.activities) /\ IsFiniteSet(ids)
    /\ Cardinality(row.activities) = Cardinality(ids)
    /\ {a.sequence : a \in row.activities} = 1..Cardinality(ids)

Named(row) == row.title = "named" => row.manual
Short(row) == Len(row.entries) <= MaxEntries

Sound(row) ==
    /\ row \in RowType /\ Gapless(row) /\ Owning(row) /\ Owned(row) /\ Sequential(row)
    /\ Tallied(row) /\ Named(row) /\ Short(row)

\* What no commit takes back.
Grows(row, new) ==
    /\ row.present => new.present
    /\ Len(row.entries) <= Len(new.entries)
    /\ \A i \in DOMAIN row.entries : new.entries[i] = row.entries[i]
    /\ TerminalTurns(row) \subseteq new.turns
    /\ \A u \in row.turns : \E v \in new.turns : v.user = u.user
    /\ row.manual => new.manual
    /\ row.title = "named" => new.title = "named"

Targeted == {"complete", "fail", "cancel", "manifest", "fork", "retry"}
CallType == [what : Choices, thread : Threads, view : RowType,
             turn : TurnType \cup {None}, value : Answers]

\* What a call has read was sound, and its Turns are still there.
Reading(k, rows) ==
    /\ k \in CallType /\ Sound(k.view) /\ rows[k.thread].present
    /\ k.what \in Targeted => k.turn \in k.view.turns
    /\ \A u \in k.view.turns : \E v \in rows[k.thread].turns : v.user = u.user

\* A client that pages has the end of what there was when it began.
Paged ==
    IF reader.thread = None THEN reader = NoReader
    ELSE /\ reader.thread \in Threads /\ db[reader.thread].present
         /\ reader.upto \in 0..Len(db[reader.thread].entries)
         /\ reader.got \in Seq(EntryType) /\ reader.before \in Nat \ {0}
         /\ reader.before = reader.upto - Len(reader.got) + 1
         /\ \A i \in DOMAIN reader.got :
               reader.got[i] = db[reader.thread].entries[reader.upto - Len(reader.got) + i]
         /\ reader.more <=> reader.before > 1

ConversationInv ==
    /\ db \in [Threads -> RowType] /\ \A t \in Threads : Sound(db[t])
    /\ DOMAIN call = Callers
    /\ \A c \in Callers : call[c] # None => Reading(call[c], db)
    /\ Paged
    /\ calls \in 0..MaxCalls

-----------------------------------------------------------------------------

LEMMA Sets == /\ Kinds = {"user", "assistant", "direct"}
              /\ TurnStatuses = {"in_progress", "completed", "failed", "cancelled"}
              /\ Answers = {1, 2} /\ Manifests = {0, 1, 2}
  BY DEF Kinds, TurnStatuses, Answers, Manifests

LEMMA RowFields ==
    ASSUME NEW row \in RowType
    PROVE  /\ row.entries \in Seq(EntryType) /\ Len(row.entries) \in Nat
           /\ DOMAIN row.entries = 1..Len(row.entries)
           /\ \A i \in DOMAIN row.entries : row.entries[i] \in EntryType
           /\ \A u \in row.turns : u \in TurnType
           /\ row.present \in BOOLEAN /\ row.manual \in BOOLEAN
  BY DEF RowType

LEMMA TurnFields ==
    ASSUME NEW u \in TurnType
    PROVE  /\ u.user \in Nat \ {0} /\ u.assistant \in Nat /\ u.status \in TurnStatuses
           /\ u.manifest \in Manifests /\ u.answer \in {0} \cup Answers
  BY DEF TurnType

\* The highest number of a gapless transcript is its length.
LEMMA HighestNumber ==
    ASSUME NEW row \in RowType, Gapless(row)
    PROVE  MaxSequence(row) = Len(row.entries)
  <1> DEFINE n == Len(row.entries)
             S == {row.entries[i].sequence : i \in DOMAIN row.entries}
  <1>1. n \in Nat /\ DOMAIN row.entries = 1..n
    BY RowFields
  <1>2. S = 1..n
    BY <1>1 DEF Gapless
  <1> HIDE DEF n, S
  <1>3. CASE n = 0
    BY <1>2, <1>3 DEF MaxSequence, S, n
  <1>4. CASE n > 0
    <2>1. n \in S /\ \A r \in S : r <= n
      BY <1>1, <1>2, <1>4
    <2>2. S # {}
      BY <2>1
    <2>3. \A s \in S : (\A r \in S : r <= s) => s = n
      BY <1>1, <1>2, <1>4
    <2> DEFINE m == CHOOSE s \in S : \A r \in S : r <= s
    <2>4. m \in S /\ \A r \in S : r <= m
      BY <2>1
    <2>5. m = n
      BY <2>3, <2>4
    <2>6. MaxSequence(row) = m
      BY <2>2 DEF MaxSequence, S
    <2>7. QED
      BY <2>5, <2>6 DEF n
  <1>5. QED
    BY <1>1, <1>3, <1>4

LEMMA NextNumber ==
    ASSUME NEW t \in Threads, Sound(db[t]), NEW view, Appends(t, view)
    PROVE  NextSequence(view) = Len(db[t].entries) + 1
  BY HighestNumber DEF Appends, Sound

-----------------------------------------------------------------------------
(* What a commit makes of a row.                                            *)

LEMMA UserAppended ==
    ASSUME NEW row, NEW new \in RowType, Sound(row), ~Busy(row), NEW x \in Answers,
           Len(row.entries) + 1 <= MaxEntries,
           new.entries = Append(row.entries, Entry(Len(row.entries) + 1, "user", x)),
           new.turns = row.turns \cup {Turn(Len(row.entries) + 1)},
           new.activities = row.activities, new.present = row.present,
           new.manual = row.manual, row.title = "named" => new.title = "named", Named(new)
    PROVE  Sound(new) /\ Grows(row, new)
  <1> DEFINE n == Len(row.entries)
             e == Entry(n + 1, "user", x)
             w == Turn(n + 1)
  <1>1. /\ n \in Nat /\ DOMAIN row.entries = 1..n /\ row.entries \in Seq(EntryType)
        /\ \A u \in row.turns : u \in TurnType
    BY RowFields DEF Sound
  <1>2. /\ e.sequence = n + 1 /\ e.kind = "user"
        /\ w.user = n + 1 /\ w.status = "in_progress" /\ w.assistant = 0
    BY DEF Entry, Turn
  <1>3. /\ Len(new.entries) = n + 1 /\ DOMAIN new.entries = 1..(n + 1)
        /\ new.entries[n + 1] = e
        /\ \A i \in 1..n : new.entries[i] = row.entries[i]
    BY <1>1
  <1> HIDE DEF n, e, w
  <1>4. \A u \in row.turns : /\ u.user \in 1..n /\ u.assistant \in 0..n
                             /\ u.status # "in_progress"
    BY <1>1, TurnFields DEF Sound, Owning, Busy
  <1>5. Gapless(new)
    BY <1>1, <1>2, <1>3 DEF Gapless, Sound
  <1>6. Owning(new)
    <2>1. ASSUME NEW u \in row.turns
          PROVE  /\ u.user \in DOMAIN new.entries /\ new.entries[u.user].kind = "user"
                 /\ u.status = "completed" <=> u.assistant # 0
                 /\ u.assistant # 0 =>
                       /\ u.assistant \in DOMAIN new.entries /\ u.assistant > u.user
                       /\ new.entries[u.assistant].kind = "assistant"
                       /\ new.entries[u.assistant].text = u.answer
      BY <1>1, <1>3, <1>4 DEF Sound, Owning
    <2>2. QED
      BY <2>1, <1>1, <1>2, <1>3 DEF Owning, w, n
  <1>7. Owned(new)
    BY <1>1, <1>2, <1>3 DEF Owned, Sound, w, n
  <1>8. Sequential(new)
    BY <1>1, <1>2, <1>4 DEF Sequential, Sound, w, n
  <1>9. Tallied(new) /\ Short(new)
    BY <1>3 DEF Tallied, Sound, Short, n
  <1>10. Grows(row, new)
    BY <1>1, <1>3 DEF Grows, TerminalTurns
  <1>11. QED
    BY <1>5, <1>6, <1>7, <1>8, <1>9, <1>10 DEF Sound

LEMMA DirectAppended ==
    ASSUME NEW row, NEW new \in RowType, Sound(row), NEW x \in Answers,
           Len(row.entries) + 1 <= MaxEntries,
           new.entries = Append(row.entries, Entry(Len(row.entries) + 1, "direct", x)),
           new.turns = row.turns,
           new.activities = row.activities, new.present = row.present,
           new.manual = row.manual, new.title = row.title
    PROVE  Sound(new) /\ Grows(row, new)
  <1> DEFINE n == Len(row.entries)
             e == Entry(n + 1, "direct", x)
  <1>1. /\ n \in Nat /\ DOMAIN row.entries = 1..n /\ row.entries \in Seq(EntryType)
        /\ \A u \in row.turns : u \in TurnType
    BY RowFields DEF Sound
  <1>2. e.sequence = n + 1 /\ e.kind = "direct"
    BY DEF Entry
  <1>3. /\ Len(new.entries) = n + 1 /\ DOMAIN new.entries = 1..(n + 1)
        /\ new.entries[n + 1] = e
        /\ \A i \in 1..n : new.entries[i] = row.entries[i]
    BY <1>1
  <1> HIDE DEF n, e
  <1>5. Gapless(new)
    BY <1>1, <1>2, <1>3 DEF Gapless, Sound
  <1>6. Owning(new)
    BY <1>1, <1>3, TurnFields DEF Sound, Owning
  <1>7. Owned(new)
    BY <1>1, <1>2, <1>3 DEF Owned, Sound
  <1>8. Sequential(new) /\ Tallied(new) /\ Named(new) /\ Short(new)
    BY <1>3 DEF Sequential, Sound, Tallied, Named, Short, n
  <1>10. Grows(row, new)
    BY <1>1, <1>3 DEF Grows, TerminalTurns
  <1>11. QED
    BY <1>5, <1>6, <1>7, <1>8, <1>10 DEF Sound

\* A Turn is completed: it is the last one, and its answer the last Entry.
LEMMA AnswerAppended ==
    ASSUME NEW row, NEW new \in RowType, Sound(row), NEW x \in Answers,
           NEW old \in row.turns, old.status = "in_progress", NEW done \in TurnType,
           done.user = old.user, done.status = "completed",
           done.assistant = Len(row.entries) + 1, done.answer = x,
           Len(row.entries) + 1 <= MaxEntries,
           new.entries = Append(row.entries, Entry(Len(row.entries) + 1, "assistant", x)),
           new.turns = (row.turns \ {old}) \cup {done},
           new.activities = row.activities, new.present = row.present,
           new.manual = row.manual, new.title = row.title
    PROVE  Sound(new) /\ Grows(row, new)
  <1> DEFINE n == Len(row.entries)
             e == Entry(n + 1, "assistant", x)
  <1>1. /\ n \in Nat /\ DOMAIN row.entries = 1..n /\ row.entries \in Seq(EntryType)
        /\ \A u \in row.turns : u \in TurnType
    BY RowFields DEF Sound
  <1>2. e.sequence = n + 1 /\ e.kind = "assistant" /\ e.text = x
    BY DEF Entry
  <1>3. /\ Len(new.entries) = n + 1 /\ DOMAIN new.entries = 1..(n + 1)
        /\ new.entries[n + 1] = e
        /\ \A i \in 1..n : new.entries[i] = row.entries[i]
    BY <1>1
  <1>a. done.assistant = n + 1
    OBVIOUS
  <1> HIDE DEF n, e
  <1>4. \A u \in row.turns : /\ u.user \in 1..n /\ u.assistant \in 0..n
                             /\ u # old => u.user < old.user
    <2> SUFFICES ASSUME NEW u \in row.turns
                 PROVE  u.user \in 1..n /\ u.assistant \in 0..n /\ (u # old => u.user < old.user)
      OBVIOUS
    <2>1. u.user \in 1..n /\ u.assistant \in 0..n
      BY <1>1, TurnFields DEF Sound, Owning
    <2>2. u # old => u.user # old.user /\ ~(old.user < u.user)
      BY DEF Sound, Sequential
    <2>3. old.user \in Nat
      BY <1>1, TurnFields
    <2>4. QED
      BY <2>1, <2>2, <2>3, <1>1
  <1>b. old.assistant = 0
    BY <1>1 DEF Sound, Owning
  <1>5. Gapless(new)
    BY <1>1, <1>2, <1>3 DEF Gapless, Sound
  <1>6. Owning(new)
    <2>1. ASSUME NEW u \in row.turns
          PROVE  /\ u.user \in DOMAIN new.entries /\ new.entries[u.user].kind = "user"
                 /\ u.status = "completed" <=> u.assistant # 0
                 /\ u.assistant # 0 =>
                       /\ u.assistant \in DOMAIN new.entries /\ u.assistant > u.user
                       /\ new.entries[u.assistant].kind = "assistant"
                       /\ new.entries[u.assistant].text = u.answer
      BY <1>1, <1>3, <1>4 DEF Sound, Owning
    <2>2. /\ done.user \in DOMAIN new.entries /\ new.entries[done.user].kind = "user"
          /\ done.assistant # 0
          /\ done.assistant \in DOMAIN new.entries /\ done.assistant > done.user
          /\ new.entries[done.assistant].kind = "assistant"
          /\ new.entries[done.assistant].text = done.answer
      BY <2>1, <1>1, <1>2, <1>3, <1>4, <1>a
    <2>3. QED
      BY <2>1, <2>2 DEF Owning
  <1>7. Owned(new)
    <2> SUFFICES ASSUME NEW i \in DOMAIN new.entries
                 PROVE  /\ new.entries[i].kind = "user" => \E u \in new.turns : u.user = i
                        /\ new.entries[i].kind = "assistant" => \E u \in new.turns : u.assistant = i
      BY DEF Owned
    <2>1. CASE i = n + 1
      BY <2>1, <1>2, <1>3, <1>a
    <2>2. CASE i \in 1..n
      <3>1. /\ row.entries[i].kind = "user" => \E u \in row.turns : u.user = i
            /\ row.entries[i].kind = "assistant" => \E u \in row.turns : u.assistant = i
        BY <2>2, <1>1 DEF Sound, Owned
      <3>2. \A u \in row.turns : u = old \/ u \in new.turns
        OBVIOUS
      <3>3. QED
        BY <3>1, <3>2, <2>2, <1>3, <1>b, done \in new.turns
    <2>3. QED
      BY <2>1, <2>2, <1>1, <1>3
  <1>8. Sequential(new)
    <2>1. \A u, v \in row.turns : /\ u.user = v.user => u = v
                                  /\ u.user < v.user => u.status # "in_progress" /\ u.assistant < v.user
      BY DEF Sound, Sequential
    <2>2. \A u \in new.turns : u = done \/ (u \in row.turns /\ u # old)
      OBVIOUS
    <2>3. \A u \in row.turns : u # old => u.user < done.user /\ u.status # "in_progress" /\ u.assistant < done.user
      BY <2>1, <1>4
    <2>4. done.user \in Nat /\ \A u \in row.turns : u.user \in Nat
      BY <1>1, <1>4, TurnFields
    <2>5. QED
      BY <2>1, <2>2, <2>3, <2>4 DEF Sequential
  <1>9. Tallied(new) /\ Named(new) /\ Short(new)
    BY <1>3 DEF Sound, Tallied, Named, Short, n
  <1>10. Grows(row, new)
    BY <1>1, <1>3 DEF Grows, TerminalTurns
  <1>11. QED
    BY <1>5, <1>6, <1>7, <1>8, <1>9, <1>10 DEF Sound

\* A Turn that is not completed is written alone.
LEMMA TurnWritten ==
    ASSUME NEW row, NEW new \in RowType, Sound(row),
           NEW old \in row.turns, old.status = "in_progress", NEW done \in TurnType,
           done.user = old.user, done.status # "completed", done.assistant = 0,
           new.entries = row.entries, new.turns = (row.turns \ {old}) \cup {done},
           new.activities = row.activities, new.present = row.present,
           new.manual = row.manual, new.title = row.title
    PROVE  Sound(new) /\ Grows(row, new)
  <1>1. /\ DOMAIN row.entries = 1..Len(row.entries) /\ Len(row.entries) \in Nat
        /\ \A u \in row.turns : u.user \in Nat
    BY RowFields, TurnFields DEF Sound
  <1>2. old.assistant = 0
    BY DEF Sound, Owning
  <1>3. \A u \in new.turns : u = done \/ (u \in row.turns /\ u # old)
    OBVIOUS
  <1>4. \A u \in row.turns : u = old \/ u \in new.turns
    OBVIOUS
  <1>5. done \in new.turns
    OBVIOUS
  <1>6. Owning(new)
    BY <1>3 DEF Sound, Owning
  <1>7. Owned(new)
    <2> SUFFICES ASSUME NEW i \in DOMAIN new.entries
                 PROVE  /\ new.entries[i].kind = "user" => \E u \in new.turns : u.user = i
                        /\ new.entries[i].kind = "assistant" => \E u \in new.turns : u.assistant = i
      BY DEF Owned
    <2>1. /\ row.entries[i].kind = "user" => \E u \in row.turns : u.user = i
          /\ row.entries[i].kind = "assistant" => \E u \in row.turns : u.assistant = i
      BY DEF Sound, Owned
    <2>2. i # 0
      BY <1>1
    <2>3. QED
      BY <2>1, <2>2, <1>2, <1>4, <1>5
  <1>8. Sequential(new)
    <2>1. \A u, v \in row.turns : /\ u.user = v.user => u = v
                                  /\ u.user < v.user => u.status # "in_progress" /\ u.assistant < v.user
      BY DEF Sound, Sequential
    <2>2. \A u \in row.turns : u # old => u.user < done.user /\ u.status # "in_progress" /\ u.assistant < done.user
      BY <2>1, <1>1
    <2>3. QED
      BY <2>1, <2>2, <1>1, <1>3 DEF Sequential
  <1>9. Gapless(new) /\ Tallied(new) /\ Named(new) /\ Short(new)
    BY DEF Sound, Gapless, Tallied, Named, Short
  <1>10. Grows(row, new)
    BY <1>1, <1>4, <1>5 DEF Grows, TerminalTurns
  <1>11. QED
    BY <1>6, <1>7, <1>8, <1>9, <1>10 DEF Sound

\* The settings and the summary are no part of the transcript.
LEMMA SettingsWritten ==
    ASSUME NEW row, NEW new \in RowType, Sound(row),
           new.entries = row.entries, new.turns = row.turns,
           new.activities = row.activities, new.present = row.present,
           row.manual => new.manual, row.title = "named" => new.title = "named", Named(new)
    PROVE  Sound(new) /\ Grows(row, new)
  <1>1. Len(row.entries) \in Nat
    BY RowFields DEF Sound
  <1>2. QED
    BY <1>1 DEF Sound, Gapless, Owning, Owned, Sequential, Tallied, Short, Grows, TerminalTurns

\* A tool call is recorded once, under the next number.
LEMMA ActivityWritten ==
    ASSUME NEW row, NEW new \in RowType, Sound(row), NEW id \in Answers,
           new.activities = IF \E a \in row.activities : a.call = id THEN row.activities
                            ELSE row.activities \cup
                                 {[call |-> id, sequence |-> Cardinality(row.activities) + 1]},
           new.entries = row.entries, new.turns = row.turns, new.present = row.present,
           new.manual = row.manual, new.title = row.title
    PROVE  Sound(new) /\ Grows(row, new)
  <1>1. Len(row.entries) \in Nat
    BY RowFields DEF Sound
  <1>2. Tallied(new)
    <2>1. CASE \E a \in row.activities : a.call = id
      BY <2>1 DEF Sound, Tallied
    <2>2. CASE ~\E a \in row.activities : a.call = id
      <3> DEFINE A == row.activities
                 ids == {a.call : a \in A}
                 k == Cardinality(A)
                 b == [call |-> id, sequence |-> k + 1]
      <3>1. /\ IsFiniteSet(A) /\ IsFiniteSet(ids) /\ k = Cardinality(ids)
            /\ {a.sequence : a \in A} = 1..k
        BY DEF Sound, Tallied
      <3>2. k \in Nat
        BY <3>1, FS_CardinalityType
      <3>3. b \notin A /\ id \notin ids
        BY <2>2
      <3>4. new.activities = A \cup {b} /\ b.call = id /\ b.sequence = k + 1
        BY <2>2
      <3> HIDE DEF b, k
      <3>a. {a.call : a \in A \cup {b}} = ids \cup {id}
        BY <3>4
      <3> HIDE DEF A, ids
      <3>b. {a.sequence : a \in A \cup {b}} = {a.sequence : a \in A} \cup {k + 1}
        BY <3>4
      <3>5. /\ IsFiniteSet(A \cup {b}) /\ IsFiniteSet(ids \cup {id})
            /\ Cardinality(A \cup {b}) = k + 1 /\ Cardinality(ids \cup {id}) = k + 1
        BY <3>1, <3>3, FS_AddElement DEF k
      <3>6. 1..(k + 1) = (1..k) \cup {k + 1}
        BY <3>2
      <3>7. QED
        BY <3>1, <3>4, <3>a, <3>b, <3>5, <3>6 DEF Tallied
    <2>3. QED
      BY <2>1, <2>2
  <1>3. QED
    BY <1>1, <1>2 DEF Sound, Gapless, Owning, Owned, Sequential, Named, Short, Grows, TerminalTurns

-----------------------------------------------------------------------------
(* Forks and retries: what goes along is a prefix.                          *)

LEMMA IntervalCount ==
    ASSUME NEW n \in Nat
    PROVE  IsFiniteSet(1..n) /\ Cardinality(1..n) = n
  BY FS_Interval

\* Where the copy of a view ends.
End(wanted, form) == IF form = "fork" THEN Boundary(wanted) ELSE wanted.user - 1

LEMMA EndBounds ==
    ASSUME NEW view, Sound(view), NEW wanted \in view.turns,
           NEW form \in {"fork", "retry"}
    PROVE  /\ End(wanted, form) \in 0..Len(view.entries)
           /\ form = "fork" => End(wanted, form) >= wanted.user
           /\ wanted.user \in 1..Len(view.entries)
  BY RowFields, TurnFields DEF Sound, Owning, End, Boundary

LEMMA IncludedIsPrefix ==
    ASSUME NEW view, Sound(view), NEW wanted \in view.turns, TerminalTarget(wanted),
           NEW form \in {"fork", "retry"}, ~Crosses(view, wanted, form)
    PROVE  Included(view, wanted, form) = 1..End(wanted, form)
  <1> DEFINE m == End(wanted, form)
             turns == Prefix(view, wanted, form)
  <1>1. /\ DOMAIN view.entries = 1..Len(view.entries) /\ Len(view.entries) \in Nat
        /\ \A i \in DOMAIN view.entries : view.entries[i] \in EntryType
        /\ \A u \in view.turns : u \in TurnType
    BY RowFields DEF Sound
  <1>2. /\ m \in 0..Len(view.entries) /\ wanted.user \in 1..Len(view.entries)
        /\ form = "fork" => m >= wanted.user
    BY EndBounds
  <1>3. \A i \in DOMAIN view.entries : view.entries[i].sequence = i
    BY DEF Sound, Gapless
  <1>4. \A u, v \in view.turns : /\ u.user = v.user => u = v
                                 /\ u.user < v.user => u.status # "in_progress" /\ u.assistant < v.user
    BY DEF Sound, Sequential
  <1>5. \A u \in view.turns : u.user \in Nat \ {0} /\ u.assistant \in Nat
    BY <1>1, TurnFields
  <1>6. ASSUME NEW u \in turns
        PROVE  u \in view.turns /\ u.user \in 1..m /\ Boundary(u) \in 1..m
    <2>1. u \in view.turns /\ u.status # "in_progress"
      BY DEF Prefix, TerminalTurns
    <2>2. Boundary(u) >= u.user /\ Boundary(u) \in Nat /\ u.user \in Nat \ {0}
      BY <2>1, <1>5 DEF Sound, Owning, Boundary
    <2>3. CASE form = "fork"
      BY <2>1, <2>2, <2>3, <1>2, <1>5 DEF Crosses, End, Prefix
    <2>4. CASE form = "retry"
      BY <2>1, <2>2, <2>4, <1>2, <1>5 DEF Crosses, End, Prefix
    <2>5. QED
      BY <2>1, <2>3, <2>4
  <1>7. ASSUME NEW u \in view.turns,
               u.user <= m \/ (u.assistant # 0 /\ u.assistant <= m)
        PROVE  u \in turns
    <2>1. u.user \in Nat /\ u.assistant \in Nat /\ wanted.user \in Nat /\ wanted.assistant \in Nat
      BY <1>5
    <2>2. u.assistant # 0 => u.assistant > u.user
      BY DEF Sound, Owning
    <2>3. u.user <= m
      BY <2>1, <2>2, <1>2, <1>7
    <2>4. CASE form = "retry"
      <3>1. u.user < wanted.user
        BY <2>1, <2>3, <2>4, <1>2 DEF End
      <3>2. u.status # "in_progress"
        BY <3>1, <1>4
      <3>3. QED
        BY <3>1, <3>2, <2>4 DEF Prefix, TerminalTurns
    <2>5. CASE form = "fork"
      <3>1. ~(wanted.user < u.user)
        <4>1. CASE wanted.status = "completed"
          BY <4>1, <2>1, <2>3, <2>5, <1>4 DEF End, Boundary
        <4>2. CASE wanted.status # "completed"
          BY <4>2, <2>1, <2>3, <2>5 DEF End, Boundary
        <4>3. QED
          BY <4>1, <4>2
      <3>2. u.status # "in_progress"
        BY <3>1, <2>1, <1>4 DEF TerminalTarget
      <3>3. QED
        BY <3>1, <3>2, <2>1, <2>5 DEF Prefix, TerminalTurns
    <2>6. QED
      BY <2>4, <2>5
  <1> DEFINE Kept(i) ==
               LET e == view.entries[i] IN
               \/ \E u \in turns : e.sequence \in {u.user, Boundary(u)}
               \/ e.kind = "direct" /\ e.sequence <= m
  <1>8. Included(view, wanted, form) = {i \in DOMAIN view.entries : Kept(i)}
    BY DEF Included, End
  <1>9. ASSUME NEW i \in DOMAIN view.entries, Kept(i) PROVE i \in 1..m
    BY <1>9, <1>6, <1>3, <1>1
  <1>10. ASSUME NEW i \in 1..m PROVE i \in DOMAIN view.entries /\ Kept(i)
    <2>1. i \in DOMAIN view.entries
      BY <1>1, <1>2
    <2>2. /\ view.entries[i].kind = "user" => \E u \in view.turns : u.user = i
          /\ view.entries[i].kind = "assistant" => \E u \in view.turns : u.assistant = i
      BY <2>1 DEF Sound, Owned
    <2>3. view.entries[i].kind \in {"user", "assistant", "direct"}
      BY <2>1, <1>1, Sets DEF EntryType
    <2>4. CASE view.entries[i].kind = "user"
      <3>1. PICK u \in view.turns : u.user = i
        BY <2>2, <2>4
      <3>2. u \in turns
        BY <3>1, <1>2, <1>7
      <3>3. QED
        BY <3>1, <3>2, <2>1, <1>3
    <2>5. CASE view.entries[i].kind = "assistant"
      <3>1. PICK u \in view.turns : u.assistant = i
        BY <2>2, <2>5
      <3>2. u \in turns
        BY <3>1, <1>2, <1>7
      <3>3. Boundary(u) = i
        BY <3>1 DEF Boundary, Sound, Owning
      <3>4. QED
        BY <3>2, <3>3, <2>1, <1>3
    <2>6. CASE view.entries[i].kind = "direct"
      BY <2>6, <2>1, <1>2, <1>3
    <2>7. QED
      BY <2>1, <2>3, <2>4, <2>5, <2>6
  <1>11. QED
    BY <1>8, <1>9, <1>10

LEMMA CopyNumbers ==
    ASSUME NEW view, Sound(view), NEW m \in 0..Len(view.entries)
    PROVE  /\ \A i \in 1..m : Nth(1..m, i) = i
           /\ \A s \in 0..m : Renumbered(view, 1..m, s) = s
           /\ Cardinality(1..m) = m
  <1>1. /\ DOMAIN view.entries = 1..Len(view.entries) /\ Len(view.entries) \in Nat
        /\ m \in Nat /\ \A i \in 1..m : view.entries[i].sequence = i
    BY RowFields DEF Sound, Gapless
  <1>2. \A i \in 0..m : Cardinality(1..i) = i
    BY <1>1, IntervalCount
  <1>3. ASSUME NEW i \in 1..m PROVE Nth(1..m, i) = i
    <2>1. \A k \in 1..m : {j \in 1..m : j <= k} = 1..k
      BY <1>1
    <2>2. ASSUME NEW k \in 1..m PROVE Cardinality({j \in 1..m : j <= k}) = k
      <3>1. k \in 0..m /\ {j \in 1..m : j <= k} = 1..k
        BY <2>1, <1>1
      <3>2. QED
        BY <3>1, <1>2
    <2>3. QED
      BY <2>2 DEF Nth
  <1>4. ASSUME NEW s \in 0..m PROVE Renumbered(view, 1..m, s) = s
    <2>1. {i \in 1..m : view.entries[i].sequence <= s} = 1..s
      BY <1>1
    <2>2. QED
      BY <2>1, <1>2 DEF Renumbered
  <1>5. QED
    BY <1>1, <1>2, <1>3, <1>4

Copies(view, wanted, form) == {[u EXCEPT !.manifest = 0] : u \in Prefix(view, wanted, form)}

CopyOf(view, wanted, form, t, row) ==
    LET m == End(wanted, form) IN
    /\ row \in RowType /\ row.activities = {} /\ row.title = "copy" /\ row.present
    /\ row.model = view.model
    /\ row.source = [kind |-> form, thread |-> t, turn |-> wanted.user]
    /\ Len(row.entries) = IF form = "fork" THEN m ELSE m + 1
    /\ \A i \in 1..m : row.entries[i] = view.entries[i]
    /\ form = "retry" => row.entries[m + 1] =
                           Entry(m + 1, "user", view.entries[wanted.user].text)
    /\ row.turns = Copies(view, wanted, form) \cup
                   (IF form = "retry" THEN {Turn(m + 1)} ELSE {})

\* What a fork or a retry builds: the Entries up to the end of its Turn or
\* before it, the Turns they belong to, and for a retry the question again.
LEMMA MaterializedRow ==
    ASSUME NEW view, Sound(view), NEW wanted \in view.turns, TerminalTarget(wanted),
           NEW form \in {"fork", "retry"}, ~Crosses(view, wanted, form), NEW t \in Threads
    PROVE  CopyOf(view, wanted, form, t, Materialized(t, view, wanted, form))
  <1> DEFINE m == End(wanted, form)
             places == Included(view, wanted, form)
             n == Cardinality(places)
             copied == [i \in 1..n |-> [view.entries[Nth(places, i)] EXCEPT !.sequence = i]]
             turns == {[u EXCEPT !.user = Renumbered(view, places, u.user),
                                 !.assistant = Renumbered(view, places, u.assistant),
                                 !.manifest = 0] : u \in Prefix(view, wanted, form)}
             asked == CHOOSE e \in {view.entries[i] : i \in DOMAIN view.entries} :
                         e.sequence = wanted.user
  <1>1. /\ DOMAIN view.entries = 1..Len(view.entries) /\ Len(view.entries) \in Nat
        /\ \A i \in DOMAIN view.entries : view.entries[i] \in EntryType
        /\ \A u \in view.turns : u \in TurnType
    BY RowFields DEF Sound
  <1>2. /\ m \in 0..Len(view.entries) /\ wanted.user \in 1..Len(view.entries)
        /\ form = "retry" => m = wanted.user - 1
    BY EndBounds DEF End
  <1>3. places = 1..m
    BY IncludedIsPrefix
  <1>4. /\ n = m /\ \A i \in 1..m : Nth(places, i) = i
        /\ \A s \in 0..m : Renumbered(view, places, s) = s
    BY <1>2, <1>3, CopyNumbers
  <1>5. \A i \in DOMAIN view.entries : view.entries[i].sequence = i
    BY DEF Sound, Gapless
  <1>6. copied = [i \in 1..m |-> view.entries[i]]
    <2>1. \A i \in 1..m : [view.entries[i] EXCEPT !.sequence = i] = view.entries[i]
      BY <1>1, <1>2, <1>5 DEF EntryType
    <2>2. QED
      BY <2>1, <1>4
  <1>7. asked = view.entries[wanted.user]
    <2>1. view.entries[wanted.user] \in {view.entries[i] : i \in DOMAIN view.entries}
      BY <1>1, <1>2
    <2>2. \A e \in {view.entries[i] : i \in DOMAIN view.entries} :
             e.sequence = wanted.user <=> e = view.entries[wanted.user]
      BY <1>1, <1>2, <1>5
    <2>3. QED
      BY <2>1, <2>2
  <1>8. ASSUME NEW u \in Prefix(view, wanted, form)
        PROVE  /\ u \in view.turns /\ u \in TurnType
               /\ u.user \in 0..m /\ u.assistant \in 0..m
    <2>1. u \in view.turns /\ u.status # "in_progress"
      BY DEF Prefix, TerminalTurns
    <2>2. /\ u \in TurnType /\ u.user \in Nat \ {0} /\ u.assistant \in Nat
          /\ u.assistant # 0 => u.assistant > u.user
          /\ u.status = "completed" <=> u.assistant # 0
      BY <2>1, <1>1, TurnFields DEF Sound, Owning
    <2>3. wanted.user \in Nat \ {0} /\ wanted.assistant \in Nat
      BY <1>1, TurnFields
    <2>4. CASE form = "fork"
      BY <2>1, <2>2, <2>3, <2>4, <1>2 DEF Crosses, End, Prefix, Boundary
    <2>5. CASE form = "retry"
      BY <2>1, <2>2, <2>3, <2>5, <1>2 DEF Crosses, End, Prefix, Boundary
    <2>6. QED
      BY <2>1, <2>2, <2>4, <2>5
  <1>9. turns = Copies(view, wanted, form)
    <2>1. \A u \in Prefix(view, wanted, form) :
             [u EXCEPT !.user = Renumbered(view, places, u.user),
                       !.assistant = Renumbered(view, places, u.assistant),
                       !.manifest = 0] = [u EXCEPT !.manifest = 0]
      BY <1>4, <1>8 DEF TurnType
    <2>2. QED
      BY <2>1 DEF Copies
  <1>10. copied \in Seq(EntryType) /\ Len(copied) = m
    <2> DEFINE f == [i \in 1..m |-> view.entries[i]]
    <2>1. \A i \in 1..m : view.entries[i] \in EntryType
      BY <1>1, <1>2
    <2>2. m \in Nat
      BY <1>1, <1>2
    <2> HIDE DEF m, copied
    <2>3. f \in Seq(EntryType) /\ Len(f) = m
      BY <2>1, <2>2
    <2>4. QED
      BY <2>3, <1>6
  <1>11. Copies(view, wanted, form) \in SUBSET TurnType
    BY <1>8, Sets DEF Copies, TurnType
  <1>12. Turn(m + 1) \in TurnType
    BY <1>2, Sets DEF Turn, TurnType
  <1>13. Entry(m + 1, "user", asked.text) \in EntryType
    <2>1. view.entries[wanted.user].text \in Answers
      BY <1>1, <1>2 DEF EntryType
    <2>2. m + 1 \in Nat \ {0} /\ "user" \in Kinds
      BY <1>1, <1>2, Sets
    <2> HIDE DEF m, asked
    <2>3. QED
      BY <2>1, <2>2, <1>7 DEF Entry, EntryType
  <1> DEFINE entries == IF form = "fork" THEN copied ELSE Append(copied, Entry(n + 1, "user", asked.text))
             all == IF form = "fork" THEN turns ELSE turns \cup {Turn(n + 1)}
             source == [kind |-> form, thread |-> t, turn |-> wanted.user]
             row == Materialized(t, view, wanted, form)
  <1>14. entries \in Seq(EntryType) /\ all \in SUBSET TurnType
    <2> HIDE DEF m, n, copied, asked, turns
    <2>1. Append(copied, Entry(n + 1, "user", asked.text)) \in Seq(EntryType)
      BY <1>4, <1>10, <1>13
    <2>2. QED
      BY <2>1, <1>4, <1>9, <1>10, <1>11, <1>12
  <1>15. source \in Sources /\ view.model \in {0, 1}
    BY <1>2 DEF Sources, Sound, RowType
  <1>16. row = [present |-> TRUE, title |-> "copy", manual |-> TRUE, model |-> view.model,
                entries |-> entries, turns |-> all, summary |-> 0, activities |-> {},
                source |-> source]
    BY Zenon DEF Materialized
  <1>17. row \in RowType
    <2> HIDE DEF entries, all, source, row
    <2>1. QED
      BY <1>14, <1>15, <1>16 DEF RowType
  <1>18. /\ row.entries = entries /\ row.turns = all /\ row.activities = {}
         /\ row.title = "copy" /\ row.present /\ row.model = view.model /\ row.source = source
    <2> HIDE DEF row, entries, all, source
    <2>1. QED
      BY <1>16
  <1>19. /\ Len(entries) = IF form = "fork" THEN m ELSE m + 1
         /\ \A i \in 1..m : entries[i] = view.entries[i]
         /\ form = "retry" => entries[m + 1] = Entry(m + 1, "user", asked.text)
    <2> HIDE DEF copied, asked, turns
    <2>1. QED
      BY <1>10, <1>6, <1>2, <1>4
  <1>20. all = Copies(view, wanted, form) \cup (IF form = "retry" THEN {Turn(m + 1)} ELSE {})
    BY <1>4, <1>9
  <1> HIDE DEF row, entries, all, source, asked
  <1>21. QED
    BY <1>7, <1>17, <1>18, <1>19, <1>20 DEF CopyOf, row, source

LEMMA MaterializedSound ==
    ASSUME NEW view, Sound(view), NEW wanted \in view.turns, TerminalTarget(wanted),
           NEW form \in {"fork", "retry"}, ~Crosses(view, wanted, form), NEW t \in Threads
    PROVE  Sound(Materialized(t, view, wanted, form))
  <1> DEFINE m == End(wanted, form)
             row == Materialized(t, view, wanted, form)
             w == Turn(m + 1)
             copies == Copies(view, wanted, form)
  <1>1. /\ DOMAIN view.entries = 1..Len(view.entries) /\ Len(view.entries) \in Nat
        /\ \A i \in DOMAIN view.entries : view.entries[i] \in EntryType
        /\ \A u \in view.turns : u \in TurnType
    BY RowFields DEF Sound
  <1>2. m \in 0..Len(view.entries)
    BY EndBounds
  <1>3. /\ row \in RowType /\ row.activities = {} /\ row.title = "copy"
        /\ Len(row.entries) = IF form = "fork" THEN m ELSE m + 1
        /\ \A i \in 1..m : row.entries[i] = view.entries[i]
        /\ form = "retry" => row.entries[m + 1] = Entry(m + 1, "user", view.entries[wanted.user].text)
        /\ row.turns = copies \cup (IF form = "retry" THEN {w} ELSE {})
    <2>1. CopyOf(view, wanted, form, t, row)
      BY MaterializedRow
    <2> HIDE DEF row
    <2>2. QED
      BY <2>1 DEF CopyOf
  <1>4. /\ w.user = m + 1 /\ w.status = "in_progress" /\ w.assistant = 0
        /\ Entry(m + 1, "user", view.entries[wanted.user].text).sequence = m + 1
        /\ Entry(m + 1, "user", view.entries[wanted.user].text).kind = "user"
    BY DEF Turn, Entry
  <1>5. ASSUME NEW v \in copies
        PROVE  \E u \in Prefix(view, wanted, form) :
                  /\ v.user = u.user /\ v.status = u.status /\ v.assistant = u.assistant
                  /\ v.answer = u.answer /\ v = [u EXCEPT !.manifest = 0]
    <2>1. PICK u \in Prefix(view, wanted, form) : v = [u EXCEPT !.manifest = 0]
      BY DEF Copies
    <2>2. u \in TurnType
      BY <1>1 DEF Prefix, TerminalTurns
    <2>3. QED
      BY <2>1, <2>2 DEF TurnType
  <1>6. ASSUME NEW u \in Prefix(view, wanted, form)
        PROVE  \E v \in copies : /\ v.user = u.user /\ v.assistant = u.assistant
    <2>1. u \in TurnType
      BY <1>1 DEF Prefix, TerminalTurns
    <2>2. [u EXCEPT !.manifest = 0] \in copies
      BY DEF Copies
    <2>3. QED
      BY <2>1, <2>2 DEF TurnType
  <1>7. 1..m = Included(view, wanted, form)
    BY IncludedIsPrefix
  <1>8. ASSUME NEW u \in Prefix(view, wanted, form)
        PROVE  /\ u \in view.turns /\ u.status # "in_progress"
               /\ u.user \in 1..m /\ u.assistant \in 0..m
    <2>1. u \in view.turns /\ u.status # "in_progress"
      BY DEF Prefix, TerminalTurns
    <2>2. /\ u.user \in DOMAIN view.entries /\ u.assistant \in Nat
          /\ u.status = "completed" <=> u.assistant # 0
          /\ u.assistant # 0 => u.assistant \in DOMAIN view.entries
      BY <2>1, <1>1, TurnFields DEF Sound, Owning
    <2>3. \A i \in DOMAIN view.entries : i \in {u.user, Boundary(u)} => i \in 1..m
      BY <1>7 DEF Included, Sound, Gapless
    <2>4. QED
      BY <2>1, <2>2, <2>3, <1>2 DEF Boundary
  <1>9. \A u, v \in view.turns : /\ u.user = v.user => u = v
                                 /\ u.user < v.user => u.status # "in_progress" /\ u.assistant < v.user
    BY DEF Sound, Sequential
  <1>10. DOMAIN row.entries = 1..Len(row.entries)
    BY <1>3, RowFields
  <1> HIDE DEF m, row, w, copies
  <1>11. Gapless(row)
    BY <1>1, <1>2, <1>3, <1>4, <1>10 DEF Gapless, Sound
  <1>12. Owning(row)
    <2>1. ASSUME NEW v \in copies
          PROVE  /\ v.user \in DOMAIN row.entries /\ row.entries[v.user].kind = "user"
                 /\ v.status = "completed" <=> v.assistant # 0
                 /\ v.assistant # 0 =>
                       /\ v.assistant \in DOMAIN row.entries /\ v.assistant > v.user
                       /\ row.entries[v.assistant].kind = "assistant"
                       /\ row.entries[v.assistant].text = v.answer
      <3>1. PICK u \in Prefix(view, wanted, form) :
               /\ v.user = u.user /\ v.status = u.status /\ v.assistant = u.assistant
               /\ v.answer = u.answer
        BY <1>5
      <3>2. /\ u \in view.turns /\ u.user \in 1..m /\ u.assistant \in 0..m
        BY <1>8
      <3>3. /\ view.entries[u.user].kind = "user"
            /\ u.status = "completed" <=> u.assistant # 0
            /\ u.assistant # 0 =>
                  /\ u.assistant > u.user
                  /\ view.entries[u.assistant].kind = "assistant"
                  /\ view.entries[u.assistant].text = u.answer
        BY <3>2 DEF Sound, Owning
      <3>4. 1..m \subseteq DOMAIN row.entries
        BY <1>2, <1>3, <1>10
      <3>5. QED
        BY <3>1, <3>2, <3>3, <3>4, <1>2, <1>3
    <2>2. form = "retry" => w.user \in DOMAIN row.entries /\ row.entries[w.user].kind = "user"
      BY <1>2, <1>3, <1>4, <1>10
    <2>3. QED
      BY <2>1, <2>2, <1>3, <1>4 DEF Owning
  <1>13. Owned(row)
    <2> SUFFICES ASSUME NEW i \in DOMAIN row.entries
                 PROVE  /\ row.entries[i].kind = "user" => \E u \in row.turns : u.user = i
                        /\ row.entries[i].kind = "assistant" => \E u \in row.turns : u.assistant = i
      BY DEF Owned
    <2>1. CASE i \in 1..m
      <3>1. i \in DOMAIN view.entries /\ row.entries[i] = view.entries[i]
            /\ view.entries[i].sequence = i
        BY <2>1, <1>1, <1>2, <1>3 DEF Sound, Gapless
      <3>2. \/ \E u \in Prefix(view, wanted, form) : i \in {u.user, Boundary(u)}
            \/ view.entries[i].kind = "direct"
        BY <2>1, <1>7, <3>1 DEF Included
      <3>3. ASSUME NEW u \in Prefix(view, wanted, form), i \in {u.user, Boundary(u)}
            PROVE  /\ row.entries[i].kind = "user" => u.user = i
                   /\ row.entries[i].kind = "assistant" => u.assistant = i
        BY <3>1, <3>3, <1>8 DEF Sound, Owning, Boundary
      <3>4. QED
        BY <3>1, <3>2, <3>3, <1>6, <1>3
    <2>2. CASE form = "retry" /\ i = m + 1
      BY <2>2, <1>3, <1>4
    <2>3. QED
      BY <2>1, <2>2, <1>2, <1>3, <1>10
  <1>14. Sequential(row)
    <2>1. ASSUME NEW a \in copies, NEW b \in copies
          PROVE  /\ a.user = b.user => a = b
                 /\ a.user < b.user => a.status # "in_progress" /\ a.assistant < b.user
      <3>1. PICK u \in Prefix(view, wanted, form) :
               /\ a.user = u.user /\ a.status = u.status /\ a.assistant = u.assistant
               /\ a = [u EXCEPT !.manifest = 0]
        BY <1>5
      <3>2. PICK v \in Prefix(view, wanted, form) :
               /\ b.user = v.user /\ b = [v EXCEPT !.manifest = 0]
        BY <1>5
      <3>3. QED
        BY <3>1, <3>2, <1>8, <1>9
    <2>2. \A a \in copies : a.user < m + 1 /\ a.assistant < m + 1 /\ a.status # "in_progress"
      BY <1>2, <1>5, <1>8
    <2>3. \A a \in copies : a.user \in Nat
      BY <1>2, <1>5, <1>8
    <2>4. QED
      BY <2>1, <2>2, <2>3, <1>2, <1>3, <1>4 DEF Sequential
  <1>15. Tallied(row)
    <2>1. {a.call : a \in {}} = {} /\ {a.sequence : a \in {}} = {}
      OBVIOUS
    <2>2. 1..0 = {}
      OBVIOUS
    <2>3. QED
      BY <1>3, <2>1, <2>2, FS_EmptySet DEF Tallied
  <1>16. Named(row) /\ Short(row)
    <2>1. Len(view.entries) <= MaxEntries
      BY DEF Sound, Short
    <2>2. form = "retry" => m + 1 <= Len(view.entries)
      BY EndBounds DEF m, End
    <2>3. MaxEntries \in Nat
      BY ConversationAssumption
    <2>4. QED
      BY <2>1, <2>2, <2>3, <1>1, <1>2, <1>3 DEF Named, Short
  <1>17. QED
    BY <1>3, <1>11, <1>12, <1>13, <1>14, <1>15, <1>16 DEF Sound, row

-----------------------------------------------------------------------------
(* Every step commits one row at most, which stays sound.                   *)

Kept(row, new) == Sound(new) /\ Grows(row, new)

LEMMA Unchanged == ASSUME NEW row, Sound(row) PROVE Kept(row, row)
  <1>1. Len(row.entries) \in Nat
    BY RowFields DEF Sound
  <1>2. QED
    BY <1>1 DEF Kept, Grows, TerminalTurns

\* db' is what Store makes of it.
LEMMA StoredRow ==
    ASSUME db \in [Threads -> RowType], \A s \in Threads : Sound(db[s]),
           NEW t \in Threads, NEW row, Sound(row), db[t].present => Grows(db[t], row),
           db' = [db EXCEPT ![t] = row]
    PROVE  /\ db' \in [Threads -> RowType] /\ db'[t] = row
           /\ \A s \in Threads : s # t => db'[s] = db[s]
           /\ \A s \in Threads : Sound(db'[s])
           /\ \A s \in Threads : db[s].present => Grows(db[s], db'[s])
  <1>1. row \in RowType
    BY DEF Sound
  <1>2. \A s \in Threads : Grows(db[s], db[s])
    BY Unchanged DEF Kept
  <1>3. QED
    BY <1>1, <1>2

\* The Turn a call works on, as it is now.
LEMMA CurrentTurn ==
    ASSUME ConversationInv, NEW c \in Callers, call[c] # None, call[c].what \in Targeted
    PROVE  /\ call[c].turn \in TurnType /\ Current(c) \in db[call[c].thread].turns
           /\ Current(c).user = call[c].turn.user
           /\ call[c].turn \in call[c].view.turns
  <1>1. Reading(call[c], db)
    BY DEF ConversationInv
  <1>2. call[c].turn \in call[c].view.turns /\ call[c].turn \in TurnType
    BY <1>1, RowFields DEF Reading, Sound
  <1>3. \E u \in db[call[c].thread].turns : u.user = call[c].turn.user
    BY <1>1, <1>2 DEF Reading
  <1>4. QED
    BY <1>2, <1>3 DEF Current

RowsKept ==
    /\ db' \in [Threads -> RowType]
    /\ \A t \in Threads : Sound(db'[t]) /\ (db[t].present => Grows(db[t], db'[t]))

LEMMA NothingStored == ASSUME ConversationInv, db' = db PROVE RowsKept
  BY Unchanged DEF ConversationInv, RowsKept, Kept

LEMMA RowStored ==
    ASSUME ConversationInv, NEW t \in Threads, NEW row,
           Sound(row), db[t].present => Grows(db[t], row), Store(t, row)
    PROVE  RowsKept
  <1>1. db \in [Threads -> RowType] /\ \A s \in Threads : Sound(db[s])
    BY DEF ConversationInv
  <1>2. db' = [db EXCEPT ![t] = row]
    BY DEF Store
  <1>3. /\ db' \in [Threads -> RowType]
        /\ \A s \in Threads : Sound(db'[s])
        /\ \A s \in Threads : db[s].present => Grows(db[s], db'[s])
    BY <1>1, <1>2, StoredRow
  <1>4. QED
    BY <1>3 DEF RowsKept

LEMMA EntryTyped ==
    ASSUME NEW row \in RowType, NEW form \in Kinds, NEW x \in Answers
    PROVE  Append(row.entries, Entry(Len(row.entries) + 1, form, x)) \in Seq(EntryType)
  <1>1. Entry(Len(row.entries) + 1, form, x) \in EntryType
    BY RowFields DEF Entry, EntryType
  <1>2. QED
    BY <1>1, RowFields

LEMMA TurnTyped == ASSUME NEW n \in Nat PROVE Turn(n + 1) \in TurnType
  BY Sets DEF Turn, TurnType

LEMMA CallFields ==
    ASSUME ConversationInv, NEW c \in Callers, call[c] # None
    PROVE  /\ call[c].thread \in Threads /\ call[c].value \in Answers
           /\ Sound(call[c].view) /\ db[call[c].thread] \in RowType
           /\ Sound(db[call[c].thread]) /\ db[call[c].thread].present
           /\ Len(db[call[c].thread].entries) \in Nat
  <1>1. Reading(call[c], db) /\ \A t \in Threads : Sound(db[t])
    BY DEF ConversationInv
  <1>2. call[c].thread \in Threads /\ call[c].value \in Answers
    BY <1>1 DEF Reading, CallType
  <1>3. QED
    BY <1>1, <1>2, RowFields DEF Reading, Sound

LEMMA BeginStep ==
    ASSUME ConversationInv, NEW c \in Callers, OpenTurn(c)
    PROVE  RowsKept
  <1> DEFINE t == call[c].thread
             row == db[t]
             n == Len(row.entries)
             x == call[c].value
             s == NextSequence(call[c].view)
             title == IF Titled(call[c].view, row) THEN "suggested" ELSE row.title
  <1>0. call[c] # None
    BY DEF OpenTurn, Doing
  <1>1. /\ t \in Threads /\ x \in Answers /\ row \in RowType /\ Sound(row) /\ n \in Nat
        /\ row.present
    BY <1>0, CallFields
  <1>2. CASE db' = db
    BY <1>2, NothingStored
  <1>3. CASE /\ ~Busy(row) /\ Appends(t, call[c].view) /\ ~(s > MaxEntries)
             /\ Store(t, [row EXCEPT !.entries = Append(@, Entry(s, "user", x)),
                                     !.turns = @ \cup {Turn(s)}, !.title = title])
    <2> DEFINE e == Append(row.entries, Entry(n + 1, "user", x))
               w == row.turns \cup {Turn(n + 1)}
               new == [row EXCEPT !.entries = e, !.turns = w, !.title = title]
    <2>1. s = n + 1
      BY <1>1, <1>3, NextNumber
    <2>2. e \in Seq(EntryType) /\ w \in SUBSET TurnType
      BY <1>1, EntryTyped, TurnTyped, RowFields, Sets
    <2>3. title \in {"new", "suggested", "named", "copy"}
      BY <1>1 DEF RowType
    <2>4. row.title = "named" => title = "named"
      BY <1>1 DEF Titled, Sound, Named
    <2>5. Store(t, new)
      BY <1>3, <2>1
    <2> HIDE DEF title, e, w
    <2>6. /\ new \in RowType /\ new.entries = e /\ new.turns = w /\ new.title = title
          /\ new.activities = row.activities /\ new.present = row.present
          /\ new.manual = row.manual
      <3> HIDE DEF row
      <3>1. QED
        BY <1>1, <2>2, <2>3 DEF RowType
    <2>7. Named(new)
      BY <1>1, <2>6 DEF Named, Sound, title
    <2> HIDE DEF new
    <2>8. Sound(new) /\ Grows(row, new)
      <3>1. n + 1 <= MaxEntries
        BY <1>1, <1>3, <2>1, ConversationAssumption
      <3> HIDE DEF row
      <3>2. QED
        BY <3>1, <1>1, <1>3, <2>4, <2>6, <2>7, UserAppended DEF e, w
    <2>9. QED
      BY <1>1, <2>5, <2>8, RowStored
  <1>4. QED
    BY Zenon, <1>2, <1>3 DEF OpenTurn, Refuse

LEMMA CompleteStep ==
    ASSUME ConversationInv, NEW c \in Callers, NEW given \in {0, 1}, CompleteTurn(c, given)
    PROVE  RowsKept
  <1> DEFINE t == call[c].thread
             row == db[t]
             n == Len(row.entries)
             x == call[c].value
             s == NextSequence(call[c].view)
             seen == call[c].turn
             manifest == Recorded(c, given)
             done == [user |-> seen.user, status |-> "completed", assistant |-> s,
                      answer |-> x, manifest |-> manifest]
  <1>0. call[c] # None /\ call[c].what \in Targeted
    BY DEF CompleteTurn, Doing, Targeted
  <1>1. /\ t \in Threads /\ x \in Answers /\ row \in RowType /\ Sound(row) /\ n \in Nat
        /\ row.present
    BY <1>0, CallFields
  <1>2. CASE db' = db
    BY <1>2, NothingStored
  <1>3. CASE /\ Current(c).status = "in_progress"
             /\ Appends(t, call[c].view) /\ ~(s > MaxEntries)
             /\ Store(t, WithTurn([row EXCEPT !.entries = Append(@, Entry(s, "assistant", x))],
                                  Current(c), done))
    <2> DEFINE e == Append(row.entries, Entry(n + 1, "assistant", x))
               old == Current(c)
               new == WithTurn([row EXCEPT !.entries = e], old, done)
    <2>1. s = n + 1
      BY <1>1, <1>3, NextNumber
    <2>2. e \in Seq(EntryType)
      BY <1>1, EntryTyped, Sets
    <2>3. seen \in TurnType /\ old \in row.turns /\ old.user = seen.user
      BY <1>0, CurrentTurn
    <2>4. manifest \in Manifests
      BY <2>3, Sets, TurnFields DEF Recorded
    <2>5. /\ done \in TurnType /\ done.user = old.user /\ done.status = "completed"
          /\ done.assistant = n + 1 /\ done.answer = x
      <3>1. n + 1 \in Nat /\ "completed" \in TurnStatuses /\ seen.user \in Nat \ {0}
        BY <1>1, <2>3, Sets, TurnFields
      <3> HIDE DEF seen, manifest, x, n, s
      <3>2. QED
        BY <1>1, <2>1, <2>3, <2>4, <3>1 DEF TurnType
    <2>6. Store(t, new)
      BY <1>3, <2>1
    <2> HIDE DEF e, old, done
    <2>7. /\ new \in RowType /\ new.entries = e /\ new.turns = (row.turns \ {old}) \cup {done}
          /\ new.title = row.title /\ new.activities = row.activities
          /\ new.present = row.present /\ new.manual = row.manual
      <3> HIDE DEF row
      <3>1. QED
        BY <1>1, <2>2, <2>5 DEF RowType, WithTurn
    <2> HIDE DEF new
    <2>8. Sound(new) /\ Grows(row, new)
      <3>1. n + 1 <= MaxEntries
        BY <1>1, <1>3, <2>1, ConversationAssumption
      <3>2. old.status = "in_progress"
        BY <1>3 DEF old
      <3> HIDE DEF row
      <3>3. QED
        BY <3>1, <3>2, <1>1, <2>3, <2>5, <2>7, AnswerAppended DEF e
    <2>9. QED
      BY <1>1, <2>6, <2>8, RowStored
  <1>4. QED
    BY Zenon, <1>2, <1>3 DEF CompleteTurn, Refuse

LEMMA TurnStep ==
    ASSUME ConversationInv, NEW c \in Callers, call[c] # None, call[c].what \in Targeted,
           Current(c).status = "in_progress", NEW done \in TurnType,
           done.user = call[c].turn.user, done.status # "completed", done.assistant = 0,
           Store(call[c].thread, WithTurn(db[call[c].thread], Current(c), done))
    PROVE  RowsKept
  <1> DEFINE t == call[c].thread
             row == db[t]
             old == Current(c)
             new == WithTurn(row, old, done)
  <1>1. t \in Threads /\ row \in RowType /\ Sound(row) /\ row.present
    BY CallFields
  <1>2. old \in row.turns /\ old.user = done.user
    BY CurrentTurn
  <1>3. old.status = "in_progress" /\ Store(t, new)
    OBVIOUS
  <1> HIDE DEF old
  <1>4. /\ new \in RowType /\ new.turns = (row.turns \ {old}) \cup {done}
        /\ new.entries = row.entries
        /\ new.title = row.title /\ new.activities = row.activities
        /\ new.present = row.present /\ new.manual = row.manual
    <2> HIDE DEF row
    <2>1. QED
      BY <1>1 DEF RowType, WithTurn
  <1> HIDE DEF new
  <1>5. Sound(new) /\ Grows(row, new)
    <2> HIDE DEF row
    <2>1. QED
      BY <1>1, <1>2, <1>3, <1>4, TurnWritten
  <1>6. QED
    BY <1>1, <1>3, <1>5, RowStored

LEMMA EndStep ==
    ASSUME ConversationInv, NEW c \in Callers, NEW given \in {0, 1},
           NEW what \in {"fail", "cancel"}, NEW outcome \in {"failed", "cancelled"},
           EndTurn(c, what, outcome, given)
    PROVE  RowsKept
  <1> DEFINE t == call[c].thread
             seen == call[c].turn
             manifest == Recorded(c, given)
             done == [seen EXCEPT !.status = outcome, !.manifest = manifest]
  <1>0. call[c] # None /\ call[c].what \in Targeted
    BY DEF EndTurn, Doing, Targeted
  <1>1. CASE db' = db
    BY <1>1, NothingStored
  <1>2. CASE /\ Current(c).status = "in_progress" /\ seen.status = "in_progress"
             /\ Store(t, WithTurn(db[t], Current(c), done))
    <2>1. seen \in TurnType /\ seen \in call[c].view.turns
      BY <1>0, CurrentTurn
    <2>2. seen.assistant = 0
      BY <1>0, <1>2, <2>1, CallFields DEF Sound, Owning
    <2>3. manifest \in Manifests
      BY <2>1, Sets, TurnFields DEF Recorded
    <2>4. /\ done \in TurnType /\ done.user = seen.user /\ done.status # "completed"
          /\ done.assistant = 0
      <3> HIDE DEF seen, manifest
      <3>1. QED
        BY <2>1, <2>2, <2>3, Sets DEF TurnType
    <2> HIDE DEF done
    <2>5. QED
      BY <1>0, <1>2, <2>4, TurnStep
  <1>3. QED
    BY Zenon, <1>1, <1>2 DEF EndTurn, Refuse

LEMMA ManifestStep ==
    ASSUME ConversationInv, NEW c \in Callers, StoreManifest(c)
    PROVE  RowsKept
  <1> DEFINE t == call[c].thread
             seen == call[c].turn
             done == [seen EXCEPT !.manifest = call[c].value]
  <1>0. call[c] # None /\ call[c].what \in Targeted
    BY DEF StoreManifest, Doing, Targeted
  <1>1. CASE db' = db
    BY <1>1, NothingStored
  <1>2. CASE /\ Current(c) = seen /\ seen.status = "in_progress"
             /\ db' = [db EXCEPT ![t] = WithTurn(@, seen, done)]
    <2>1. seen \in TurnType /\ seen \in call[c].view.turns
      BY <1>0, CurrentTurn
    <2>2. seen.assistant = 0
      BY <1>0, <1>2, <2>1, CallFields DEF Sound, Owning
    <2>3. /\ done \in TurnType /\ done.user = seen.user /\ done.status # "completed"
          /\ done.assistant = 0
      <3>1. call[c].value \in Answers
        BY <1>0, CallFields
      <3> HIDE DEF seen
      <3>2. QED
        BY <3>1, <1>2, <2>1, <2>2, Sets DEF TurnType
    <2> HIDE DEF done
    <2>4. Store(t, WithTurn(db[t], Current(c), done))
      BY <1>2 DEF Store
    <2>5. QED
      BY <1>0, <1>2, <2>3, <2>4, TurnStep
  <1>3. QED
    BY Zenon, <1>1, <1>2 DEF StoreManifest, Refuse

LEMMA DirectStep ==
    ASSUME ConversationInv, NEW c \in Callers, AppendDirect(c)
    PROVE  RowsKept
  <1> DEFINE t == call[c].thread
             row == db[t]
             n == Len(row.entries)
             x == call[c].value
             s == NextSequence(call[c].view)
  <1>0. call[c] # None
    BY DEF AppendDirect, Doing
  <1>1. /\ t \in Threads /\ x \in Answers /\ row \in RowType /\ Sound(row) /\ n \in Nat
        /\ row.present
    BY <1>0, CallFields
  <1>2. CASE db' = db
    BY <1>2, NothingStored
  <1>3. CASE /\ Appends(t, call[c].view) /\ ~(s > MaxEntries)
             /\ Store(t, [row EXCEPT !.entries = Append(@, Entry(s, "direct", x))])
    <2> DEFINE e == Append(row.entries, Entry(n + 1, "direct", x))
               new == [row EXCEPT !.entries = e]
    <2>1. s = n + 1
      BY <1>1, <1>3, NextNumber
    <2>2. e \in Seq(EntryType)
      BY <1>1, EntryTyped, Sets
    <2>3. Store(t, new)
      BY <1>3, <2>1
    <2> HIDE DEF e
    <2>4. /\ new \in RowType /\ new.entries = e /\ new.turns = row.turns
          /\ new.title = row.title /\ new.activities = row.activities
          /\ new.present = row.present /\ new.manual = row.manual
      <3> HIDE DEF row
      <3>1. QED
        BY <1>1, <2>2 DEF RowType
    <2> HIDE DEF new
    <2>5. Sound(new) /\ Grows(row, new)
      <3>1. n + 1 <= MaxEntries
        BY <1>1, <1>3, <2>1, ConversationAssumption
      <3> HIDE DEF row
      <3>2. QED
        BY <3>1, <1>1, <2>4, DirectAppended DEF e
    <2>6. QED
      BY <1>1, <2>3, <2>5, RowStored
  <1>4. QED
    BY Zenon, <1>2, <1>3 DEF AppendDirect, Refuse

LEMMA SummaryStep ==
    ASSUME ConversationInv, NEW c \in Callers, SwapSummary(c)
    PROVE  RowsKept
  <1> DEFINE t == call[c].thread
             row == db[t]
             new == [row EXCEPT !.summary = @ + call[c].value]
  <1>0. call[c] # None
    BY DEF SwapSummary, Doing
  <1>1. t \in Threads /\ call[c].value \in Nat /\ row \in RowType /\ Sound(row)
    BY <1>0, CallFields, Sets
  <1>2. CASE db' = db
    BY <1>2, NothingStored
  <1>3. CASE db' = [db EXCEPT ![t].summary = @ + call[c].value]
    <2>1. Store(t, new)
      BY <1>3 DEF Store
    <2>2. /\ new \in RowType /\ new.entries = row.entries /\ new.turns = row.turns
          /\ new.title = row.title /\ new.activities = row.activities
          /\ new.present = row.present /\ new.manual = row.manual
      <3> HIDE DEF row
      <3>1. QED
        BY <1>1 DEF RowType
    <2> HIDE DEF new
    <2>3. Sound(new) /\ Grows(row, new)
      <3>1. Named(new)
        BY <1>1, <2>2 DEF Named, Sound
      <3> HIDE DEF row
      <3>2. QED
        BY <3>1, <1>1, <2>2, SettingsWritten
    <2>4. QED
      BY <1>1, <2>1, <2>3, RowStored
  <1>4. QED
    BY <1>2, <1>3 DEF SwapSummary, Refuse

LEMMA PatchStep ==
    ASSUME ConversationInv, NEW t \in Threads, Patch(t)
    PROVE  RowsKept
  <1> DEFINE row == db[t]
             named == [row EXCEPT !.title = "named", !.manual = TRUE]
             moved == [row EXCEPT !.model = 1 - @]
  <1>1. row \in RowType /\ Sound(row)
    BY DEF ConversationInv
  <1>2. Store(t, named) \/ Store(t, moved)
    BY DEF Patch
  <1>3. /\ named \in RowType /\ named.entries = row.entries /\ named.turns = row.turns
        /\ named.title = "named" /\ named.activities = row.activities
        /\ named.present = row.present /\ named.manual
    <2> HIDE DEF row
    <2>1. QED
      BY <1>1 DEF RowType
  <1>4. /\ moved \in RowType /\ moved.entries = row.entries /\ moved.turns = row.turns
        /\ moved.title = row.title /\ moved.activities = row.activities
        /\ moved.present = row.present /\ moved.manual = row.manual
    <2> HIDE DEF row
    <2>1. QED
      BY <1>1 DEF RowType
  <1> HIDE DEF named, moved
  <1>5. Sound(named) /\ Grows(row, named)
    <2>1. Named(named)
      BY <1>3 DEF Named
    <2> HIDE DEF row
    <2>2. QED
      BY <2>1, <1>1, <1>3, SettingsWritten
  <1>6. Sound(moved) /\ Grows(row, moved)
    <2>1. Named(moved)
      BY <1>1, <1>4 DEF Named, Sound
    <2> HIDE DEF row
    <2>2. QED
      BY <2>1, <1>1, <1>4, SettingsWritten
  <1>7. QED
    BY <1>2, <1>5, <1>6, RowStored

LEMMA ActivityStep ==
    ASSUME ConversationInv, NEW t \in Threads, NEW id \in Answers, FinalizeActivity(t, id)
    PROVE  RowsKept
  <1> DEFINE row == db[t]
             all == IF \E a \in row.activities : a.call = id THEN row.activities
                    ELSE row.activities \cup
                         {[call |-> id, sequence |-> Cardinality(row.activities) + 1]}
             new == [row EXCEPT !.activities = all]
  <1>1. row \in RowType /\ Sound(row)
    BY DEF ConversationInv
  <1>2. Store(t, new)
    BY DEF FinalizeActivity, Store
  <1>3. all \in SUBSET [call : Answers, sequence : Nat]
    <2>1. Cardinality(row.activities) \in Nat
      BY <1>1, FS_CardinalityType DEF Sound, Tallied
    <2>2. QED
      BY <1>1, <2>1 DEF RowType
  <1>4. /\ new \in RowType /\ new.entries = row.entries /\ new.turns = row.turns
        /\ new.title = row.title /\ new.activities = all
        /\ new.present = row.present /\ new.manual = row.manual
    <2> HIDE DEF row, all
    <2>1. QED
      BY <1>1, <1>3 DEF RowType
  <1> HIDE DEF new
  <1>5. Sound(new) /\ Grows(row, new)
    <2> HIDE DEF row
    <2>1. QED
      BY <1>1, <1>4, ActivityWritten
  <1>6. QED
    BY <1>1, <1>2, <1>5, RowStored

LEMMA EmptySound ==
    ASSUME NEW present \in BOOLEAN
    PROVE  EmptyThread(present) \in RowType /\ Sound(EmptyThread(present))
  <1> DEFINE new == EmptyThread(present)
  <1>1. /\ new.title = "new" /\ new.entries = <<>> /\ new.turns = {} /\ new.activities = {}
    BY DEF EmptyThread
  <1>2. new \in RowType
    <2>1. <<>> \in Seq(EntryType) /\ None \in Sources \cup {None}
      OBVIOUS
    <2> HIDE DEF new
    <2>2. QED
      BY <2>1 DEF new, EmptyThread, RowType
  <1> HIDE DEF new
  <1>3. Tallied(new)
    <2>1. {a.call : a \in {}} = {} /\ {a.sequence : a \in {}} = {}
      OBVIOUS
    <2>2. 1..0 = {}
      OBVIOUS
    <2>3. QED
      BY <1>1, <2>1, <2>2, FS_EmptySet DEF Tallied
  <1>4. Sound(new)
    BY <1>1, <1>2, <1>3, ConversationAssumption
       DEF Sound, Gapless, Owning, Owned, Sequential, Named, Short
  <1>5. QED
    BY <1>2, <1>4 DEF new

LEMMA CreateStep ==
    ASSUME ConversationInv, NEW t \in Threads, NEW c \in Callers, CreateThread(c, t)
    PROVE  RowsKept
  <1>1. Store(t, EmptyThread(TRUE)) /\ ~db[t].present
    BY DEF CreateThread
  <1>2. QED
    BY <1>1, EmptySound, RowStored

LEMMA MaterializeStep ==
    ASSUME ConversationInv, NEW c \in Callers, NEW form \in {"fork", "retry"},
           NEW new \in Threads, Materialize(c, form, new)
    PROVE  RowsKept
  <1> DEFINE t == call[c].thread
             view == call[c].view
             wanted == call[c].turn
             row == Materialized(t, view, wanted, form)
  <1>1. call[c] # None /\ call[c].what \in Targeted
    BY DEF Materialize, Doing, Targeted
  <1>2. CASE db' = db
    BY <1>2, NothingStored
  <1>3. CASE /\ TerminalTarget(wanted) /\ ~Crosses(view, wanted, form)
             /\ Store(new, row)
    <2>1. Sound(view) /\ t \in Threads /\ wanted \in view.turns
      BY <1>1, CallFields, CurrentTurn
    <2> HIDE DEF t, view, wanted
    <2>2. Sound(row)
      BY <2>1, <1>3, MaterializedSound
    <2> HIDE DEF row
    <2>3. QED
      BY <2>2, <1>3, RowStored DEF Materialize
  <1>4. QED
    BY Zenon, <1>2, <1>3 DEF Materialize, CommitMaterialized, Refuse

LEMMA RowsStep == ConversationInv /\ [TranscriptNext]_transcriptVars => RowsKept
  <1> SUFFICES ASSUME ConversationInv, [TranscriptNext]_transcriptVars PROVE RowsKept
    OBVIOUS
  <1>1. ASSUME NEW c \in Callers, NEW t \in Threads, CreateThread(c, t) PROVE RowsKept
    BY <1>1, CreateStep
  <1>2. ASSUME NEW c \in Callers, NEW t \in Threads, NEW what \in Choices, Read(c, what, t)
        PROVE  RowsKept
    BY <1>2, NothingStored DEF Read
  <1>3. ASSUME NEW c \in Callers, Commit(c) PROVE RowsKept
    BY <1>3, BeginStep, CompleteStep, EndStep, ManifestStep, DirectStep, SummaryStep,
       MaterializeStep DEF Commit
  <1>4. ASSUME NEW t \in Threads, ReadPage(t) PROVE RowsKept
    BY <1>4, NothingStored DEF ReadPage
  <1>5. ASSUME NEW t \in Threads, Patch(t) PROVE RowsKept
    BY <1>5, PatchStep
  <1>6. ASSUME NEW t \in Threads, NEW id \in Answers, FinalizeActivity(t, id) PROVE RowsKept
    BY <1>6, ActivityStep
  <1>7. CASE UNCHANGED transcriptVars
    BY <1>7, NothingStored DEF transcriptVars
  <1>8. QED
    BY <1>1, <1>2, <1>3, <1>4, <1>5, <1>6, <1>7 DEF TranscriptNext

-----------------------------------------------------------------------------
(* Calls and readers.                                                       *)

\* Whatever is committed, what a call has read stays a part of its Thread.
LEMMA StillReading ==
    ASSUME RowsKept, NEW k, Reading(k, db)
    PROVE  Reading(k, db')
  <1>1. k.thread \in Threads
    BY DEF Reading, CallType
  <1>2. QED
    BY <1>1 DEF Reading, RowsKept, Grows

LEMMA ReadStep ==
    ASSUME ConversationInv, NEW c \in Callers, NEW t \in Threads, NEW what \in Choices,
           Read(c, what, t)
    PROVE  /\ db' = db /\ reader' = reader /\ calls' \in 0..MaxCalls
           /\ \E k : Reading(k, db) /\ call' = [call EXCEPT ![c] = k]
  <1>1. db' = db /\ reader' = reader /\ calls' \in 0..MaxCalls
    BY ConversationAssumption DEF Read, ConversationInv
  <1>2. PICK u \in db[t].turns \cup {None}, v \in Answers :
           /\ (u = None) = (what \notin Targeted)
           /\ call' = [call EXCEPT ![c] =
                  [what |-> what, thread |-> t, view |-> db[t], turn |-> u, value |-> v]]
    BY DEF Read, Targeted
  <1> DEFINE k == [what |-> what, thread |-> t, view |-> db[t], turn |-> u, value |-> v]
  <1>3. Sound(db[t]) /\ db[t] \in RowType /\ db[t].present
    BY DEF Read, ConversationInv
  <1>4. u \in TurnType \cup {None}
    BY <1>2, <1>3, RowFields
  <1>5. k \in CallType
    BY <1>2, <1>3, <1>4 DEF CallType
  <1>6. what \in Targeted => u \in db[t].turns
    BY <1>2
  <1>7. Reading(k, db)
    <2>1. /\ k.what = what /\ k.thread = t /\ k.view = db[t] /\ k.turn = u
      OBVIOUS
    <2> HIDE DEF k
    <2>2. QED
      BY <2>1, <1>3, <1>5, <1>6 DEF Reading
  <1>8. QED
    BY <1>1, <1>2, <1>7

\* All but reading leaves the other calls and the reader as they are.
Quiet == /\ reader' = reader /\ calls' \in 0..MaxCalls
         /\ call' = call \/ \E c \in Callers : call' = [call EXCEPT ![c] = None]

LEMMA CommitQuiet ==
    ASSUME ConversationInv, NEW c \in Callers, Commit(c)
    PROVE  Quiet
  <1>1. Done(c) => Quiet
    BY DEF Done, Quiet, ConversationInv
  <1>2. OpenTurn(c) => Done(c)
    BY DEF OpenTurn, Refuse
  <1>3. ASSUME NEW m \in {0, 1} PROVE CompleteTurn(c, m) => Done(c)
    BY DEF CompleteTurn, Refuse
  <1>4. ASSUME NEW m \in {0, 1}, NEW what, NEW outcome PROVE EndTurn(c, what, outcome, m) => Done(c)
    BY DEF EndTurn, Refuse
  <1>5. StoreManifest(c) \/ AppendDirect(c) \/ SwapSummary(c) => Done(c)
    BY DEF StoreManifest, AppendDirect, SwapSummary, Refuse
  <1>6. ASSUME NEW form \in {"fork", "retry"}, NEW new \in Threads
        PROVE  Materialize(c, form, new) => Done(c)
    BY DEF Materialize, CommitMaterialized, Refuse
  <1>7. QED
    BY <1>1, <1>2, <1>3, <1>4, <1>5, <1>6 DEF Commit

LEMMA NextQuiet ==
    ASSUME ConversationInv, [TranscriptNext]_transcriptVars
    PROVE  \/ Quiet
           \/ \E c \in Callers, t \in Threads, what \in Choices : Read(c, what, t)
           \/ \E t \in Threads : ReadPage(t)
  <1>1. ASSUME NEW c \in Callers, NEW t \in Threads, CreateThread(c, t) PROVE Quiet
    BY <1>1, ConversationAssumption DEF CreateThread, Quiet, ConversationInv
  <1>2. ASSUME NEW t \in Threads, Patch(t) PROVE Quiet
    BY <1>2, ConversationAssumption DEF Patch, Quiet, ConversationInv
  <1>3. ASSUME NEW t \in Threads, NEW id \in Answers, FinalizeActivity(t, id) PROVE Quiet
    BY <1>3, ConversationAssumption DEF FinalizeActivity, Quiet, ConversationInv
  <1>4. CASE UNCHANGED transcriptVars
    BY <1>4 DEF transcriptVars, Quiet, ConversationInv
  <1>5. QED
    BY <1>1, <1>2, <1>3, <1>4, CommitQuiet DEF TranscriptNext

\* The rows before a number, in a gapless transcript.
LEMMA OlderRows ==
    ASSUME NEW row \in RowType, Sound(row), NEW before \in 1..(Len(row.entries) + 1)
    PROVE  Older(row, before) = SubSeq(row.entries, 1, before - 1)
  <1>1. DOMAIN row.entries = 1..Len(row.entries) /\ Len(row.entries) \in Nat
    BY RowFields
  <1>2. {i \in DOMAIN row.entries : row.entries[i].sequence < before} = 1..(before - 1)
    BY <1>1 DEF Sound, Gapless
  <1>3. Cardinality(1..(before - 1)) = before - 1
    BY <1>1, IntervalCount
  <1>4. QED
    BY <1>2, <1>3 DEF Older

LEMMA Rest ==
    ASSUME NEW S, NEW s \in Seq(S), NEW a \in 1..(Len(s) + 1)
    PROVE  /\ SubSeq(s, a, Len(s)) \in Seq(S) /\ Len(SubSeq(s, a, Len(s))) = Len(s) - a + 1
           /\ \A i \in 1..(Len(s) - a + 1) : SubSeq(s, a, Len(s))[i] = s[a + i - 1]
  <1>1. Len(s) \in Nat /\ DOMAIN s = 1..Len(s)
    OBVIOUS
  <1>2. \A i \in a..Len(s) : s[i] \in S
    BY <1>1
  <1>3. Len(SubSeq(s, a, Len(s))) = Len(s) - a + 1
    BY <1>1
  <1>4. SubSeq(s, a, Len(s)) \in Seq(S)
    BY <1>1, <1>2
  <1>5. QED
    BY <1>1, <1>3, <1>4

LEMMA Joined ==
    ASSUME NEW S, NEW s \in Seq(S), NEW r \in Seq(S)
    PROVE  /\ s \o r \in Seq(S) /\ Len(s \o r) = Len(s) + Len(r)
           /\ \A i \in 1..Len(s) : (s \o r)[i] = s[i]
           /\ \A i \in 1..Len(r) : (s \o r)[Len(s) + i] = r[i]
  OBVIOUS

LEMMA PageStep ==
    ASSUME ConversationInv, NEW t \in Threads, ReadPage(t)
    PROVE  Paged'
  <1> DEFINE row == db[t]
             n == Len(row.entries)
             first == reader.thread # t
             before == IF first THEN MaxSequence(row) + 1 ELSE reader.before
             older == Older(row, before)
             from == IF Len(older) > PageLimit THEN Len(older) - PageLimit + 1 ELSE 1
             page == SubSeq(older, from, Len(older))
             upto == IF first THEN MaxSequence(row) ELSE reader.upto
             got == reader.got
  <1>1. /\ row \in RowType /\ Sound(row) /\ row.present
        /\ row.entries \in Seq(EntryType) /\ n \in Nat /\ DOMAIN row.entries = 1..n
        /\ MaxSequence(row) = n
        /\ \A i \in 1..n : row.entries[i].sequence = i
    BY RowFields, HighestNumber DEF ReadPage, ConversationInv, Sound, Gapless
  <1>2. IF first THEN reader.thread = None ELSE reader.more
    BY DEF ReadPage
  <1>3. page # <<>>
    BY DEF ReadPage
  <1>4. reader' = [thread |-> t, before |-> page[1].sequence, got |-> page \o got,
                   upto |-> upto, more |-> Len(older) > PageLimit]
    BY DEF ReadPage
  <1>5. db' = db
    BY DEF ReadPage
  <1>6. t # None
    BY <1>2 DEF ConversationInv, Paged, NoReader
  <1>7. /\ upto \in 0..n /\ got \in Seq(EntryType) /\ before \in 1..(n + 1)
        /\ before = upto - Len(got) + 1
        /\ \A i \in DOMAIN got : got[i] = row.entries[upto - Len(got) + i]
    <2>1. CASE first
      <3>1. got = <<>>
        BY <2>1, <1>2 DEF ConversationInv, Paged, NoReader
      <3>2. QED
        BY <2>1, <3>1, <1>1
    <2>2. CASE ~first
      <3>1. /\ reader.upto \in 0..n /\ got \in Seq(EntryType) /\ reader.before \in Nat \ {0}
            /\ reader.before = reader.upto - Len(got) + 1
            /\ \A i \in DOMAIN got : got[i] = row.entries[reader.upto - Len(got) + i]
        BY <2>2, <1>6 DEF ConversationInv, Paged
      <3>2. QED
        BY <2>2, <3>1, <1>1
    <2>3. QED
      BY <2>1, <2>2
  <1> HIDE DEF upto, got, before
  <1>8. older = SubSeq(row.entries, 1, before - 1)
    BY <1>1, <1>7, OlderRows
  <1> HIDE DEF older
  <1>9. /\ older \in Seq(EntryType) /\ Len(older) = before - 1
        /\ \A i \in 1..(before - 1) : older[i] = row.entries[i]
    BY <1>1, <1>7, <1>8
  <1>10. from \in 1..before /\ (Len(older) > PageLimit <=> from > 1)
    BY <1>7, <1>9, ConversationAssumption
  <1> HIDE DEF from
  <1>11. /\ page \in Seq(EntryType) /\ Len(page) = before - from
         /\ \A i \in 1..(before - from) : page[i] = row.entries[from + i - 1]
    <2>1. from \in 1..(Len(older) + 1) /\ Len(older) - from + 1 = before - from
      BY <1>7, <1>9, <1>10
    <2>2. /\ page \in Seq(EntryType) /\ Len(page) = before - from
          /\ \A i \in 1..(before - from) : page[i] = older[from + i - 1]
      BY <1>9, <2>1, Rest
    <2>3. \A i \in 1..(before - from) : from + i - 1 \in 1..(before - 1)
      BY <1>7, <1>10
    <2> HIDE DEF page
    <2>4. QED
      BY <1>9, <2>2, <2>3
  <1> HIDE DEF page
  <1>12. from < before
    BY <1>3, <1>7, <1>10, <1>11
  <1>13. page[1].sequence = from
    <2>1. page[1] = row.entries[from] /\ from \in 1..n
      BY <1>7, <1>10, <1>11, <1>12
    <2>2. QED
      BY <2>1, <1>1
  <1> DEFINE all == page \o got
  <1>14. /\ all \in Seq(EntryType) /\ Len(all) = before - from + Len(got)
         /\ \A i \in 1..(before - from) : all[i] = page[i]
         /\ \A i \in 1..Len(got) : all[before - from + i] = got[i]
    <2>1. /\ all \in Seq(EntryType) /\ Len(all) = Len(page) + Len(got)
          /\ \A i \in 1..Len(page) : all[i] = page[i]
          /\ \A i \in 1..Len(got) : all[Len(page) + i] = got[i]
      <3>1. page \in Seq(EntryType) /\ got \in Seq(EntryType)
        BY <1>7, <1>11
      <3> HIDE DEF all
      <3>2. /\ page \o got \in Seq(EntryType) /\ Len(page \o got) = Len(page) + Len(got)
            /\ \A i \in 1..Len(page) : (page \o got)[i] = page[i]
            /\ \A i \in 1..Len(got) : (page \o got)[Len(page) + i] = got[i]
        BY <3>1, Joined
      <3> USE DEF all
      <3>3. QED
        BY Zenon, <3>2
    <2> HIDE DEF all
    <2>2. QED
      BY <2>1, <1>11
  <1> HIDE DEF all
  <1>15. ASSUME NEW i \in DOMAIN all PROVE all[i] = row.entries[upto - Len(all) + i]
    <2>1. upto - Len(all) = from - 1 /\ Len(got) \in Nat /\ i \in 1..(before - from + Len(got))
      BY <1>7, <1>10, <1>14
    <2>2. CASE i <= before - from
      <3>1. i \in 1..(before - from) /\ from + i - 1 = upto - Len(all) + i
        <4>1. /\ i \in Nat \ {0} /\ from \in Nat /\ before \in Nat /\ upto \in Nat
              /\ Len(all) \in Nat
          BY <2>1, <1>1, <1>7, <1>10, <1>14
        <4>2. i \in 1..(before - from)
          BY <4>1, <2>2
        <4> DEFINE k == Len(all)
        <4>3. k \in Nat /\ upto - k = from - 1
          BY <4>1, <2>1
        <4> HIDE DEF k, n, row
        <4>4. from + i - 1 = upto - k + i
          BY <4>1, <4>3
        <4>5. QED
          BY <4>2, <4>4 DEF k
      <3>2. all[i] = row.entries[from + i - 1]
        BY <3>1, <1>11, <1>14
      <3>3. QED
        BY <3>1, <3>2
    <2>3. CASE i > before - from
      <3> DEFINE j == i - (before - from)
      <3>1. j \in 1..Len(got) /\ i = before - from + j
        BY <2>1, <2>3, <1>7, <1>10
      <3> HIDE DEF j
      <3>2. got[j] = row.entries[upto - Len(got) + j]
        BY <3>1, <1>7
      <3>3. upto - Len(got) + j = upto - Len(all) + i
        BY <3>1, <2>1, <1>7, <1>10
      <3>4. QED
        BY <3>1, <3>2, <3>3, <1>14
    <2>4. QED
      BY <2>1, <2>2, <2>3, <1>7, <1>10
  <1>16. from = upto - Len(all) + 1 /\ from \in Nat \ {0}
    BY <1>7, <1>10, <1>14
  <1>17. /\ reader'.thread = t /\ reader'.before = from /\ reader'.got = all
         /\ reader'.upto = upto /\ (reader'.more <=> from > 1)
    BY <1>4, <1>10, <1>13 DEF all
  <1> HIDE DEF row, n
  <1>18. QED
    BY <1>1, <1>5, <1>6, <1>7, <1>14, <1>15, <1>16, <1>17 DEF Paged, row, n

LEMMA StillPaged ==
    ASSUME ConversationInv, RowsKept, reader' = reader
    PROVE  Paged'
  <1>1. CASE reader.thread = None
    BY <1>1 DEF ConversationInv, Paged
  <1>2. CASE reader.thread # None
    <2> DEFINE t == reader.thread
               got == reader.got
    <2>1. /\ t \in Threads /\ db[t].present
          /\ reader.upto \in 0..Len(db[t].entries)
          /\ got \in Seq(EntryType) /\ reader.before \in Nat \ {0}
          /\ reader.before = reader.upto - Len(got) + 1
          /\ \A i \in DOMAIN got : got[i] = db[t].entries[reader.upto - Len(got) + i]
          /\ reader.more <=> reader.before > 1
      BY <1>2 DEF ConversationInv, Paged
    <2>2. Grows(db[t], db'[t]) /\ db[t] \in RowType /\ db'[t] \in RowType
      BY <2>1 DEF RowsKept, ConversationInv
    <2>3. /\ DOMAIN db[t].entries = 1..Len(db[t].entries) /\ Len(db[t].entries) \in Nat
          /\ Len(db'[t].entries) \in Nat
      BY <2>2, RowFields
    <2>4. \A i \in DOMAIN got : reader.upto - Len(got) + i \in DOMAIN db[t].entries
      <3>1. Len(got) \in Nat /\ DOMAIN got = 1..Len(got)
        BY <2>1
      <3>2. /\ reader.upto \in Nat /\ Len(got) <= reader.upto
            /\ reader.upto <= Len(db[t].entries)
        BY <2>1, <2>3, <3>1
      <3> HIDE DEF got, t
      <3>3. QED
        BY <2>3, <3>1, <3>2
    <2>5. /\ db'[t].present /\ Len(db[t].entries) <= Len(db'[t].entries)
          /\ \A i \in DOMAIN db[t].entries : db'[t].entries[i] = db[t].entries[i]
      BY <2>1, <2>2 DEF Grows
    <2>6. reader.upto \in 0..Len(db'[t].entries)
      BY <2>1, <2>3, <2>5
    <2>7. \A i \in DOMAIN got : got[i] = db'[t].entries[reader.upto - Len(got) + i]
      BY <2>1, <2>4, <2>5
    <2>8. QED
      BY <1>2, <2>1, <2>5, <2>6, <2>7 DEF Paged
  <1>3. QED
    BY <1>1, <1>2

LEMMA ConversationStep == ConversationInv /\ [TranscriptNext]_transcriptVars => ConversationInv'
  <1> SUFFICES ASSUME ConversationInv, [TranscriptNext]_transcriptVars PROVE ConversationInv'
    OBVIOUS
  <1>1. RowsKept
    BY RowsStep
  <1>2. /\ db' \in [Threads -> RowType] /\ \A t \in Threads : Sound(db'[t])
    BY <1>1 DEF RowsKept
  <1>3. /\ DOMAIN call = Callers
        /\ \A c \in Callers : call[c] # None => Reading(call[c], db)
        /\ Paged /\ calls \in 0..MaxCalls
    BY DEF ConversationInv
  <1>4. \A c \in Callers : call[c] # None => Reading(call[c], db')
    BY <1>1, <1>3, StillReading
  <1>5. CASE Quiet
    <2>1. DOMAIN call' = Callers /\ \A c \in Callers : call'[c] # None => Reading(call'[c], db')
      BY <1>3, <1>4, <1>5 DEF Quiet
    <2>2. Paged' /\ calls' \in 0..MaxCalls
      BY <1>1, <1>5, StillPaged DEF Quiet
    <2>3. QED
      BY <1>2, <2>1, <2>2 DEF ConversationInv
  <1>6. ASSUME NEW c \in Callers, NEW t \in Threads, NEW what \in Choices, Read(c, what, t)
        PROVE  ConversationInv'
    <2>1. PICK k : Reading(k, db) /\ call' = [call EXCEPT ![c] = k]
      BY <1>6, ReadStep
    <2>2. reader' = reader /\ calls' \in 0..MaxCalls
      BY <1>6, ReadStep
    <2>3. Reading(k, db')
      BY <1>1, <2>1, StillReading
    <2>4. DOMAIN call' = Callers /\ \A b \in Callers : call'[b] # None => Reading(call'[b], db')
      BY <1>3, <1>4, <2>1, <2>3
    <2>5. Paged'
      BY <1>1, <2>2, StillPaged
    <2>6. QED
      BY <1>2, <2>2, <2>4, <2>5 DEF ConversationInv
  <1>7. ASSUME NEW t \in Threads, ReadPage(t) PROVE ConversationInv'
    <2>1. call' = call /\ calls' = calls
      BY <1>7 DEF ReadPage
    <2>2. Paged'
      BY <1>7, PageStep
    <2>3. QED
      BY <1>2, <1>3, <1>4, <2>1, <2>2 DEF ConversationInv
  <1>8. QED
    BY <1>5, <1>6, <1>7, NextQuiet

LEMMA ConversationInit == TranscriptInit => ConversationInv
  <1> SUFFICES ASSUME TranscriptInit PROVE ConversationInv
    OBVIOUS
  <1>1. NoThread \in RowType /\ Sound(NoThread)
    BY EmptySound DEF NoThread
  <1>2. db \in [Threads -> RowType] /\ \A t \in Threads : Sound(db[t])
    BY <1>1 DEF TranscriptInit
  <1>3. DOMAIN call = Callers /\ \A c \in Callers : call[c] = None
    BY DEF TranscriptInit
  <1>4. Paged
    BY DEF TranscriptInit, Paged, NoReader
  <1>5. calls \in 0..MaxCalls
    BY ConversationAssumption DEF TranscriptInit
  <1>6. QED
    BY <1>2, <1>3, <1>4, <1>5 DEF ConversationInv

-----------------------------------------------------------------------------
(* Theorems.                                                                *)

\* In every reachable state the rows of every Thread are well formed, whatever
\* was committed between a caller's read and its own commit, and every pending
\* call holds a view whose Turns are still in the database.
THEOREM ConversationInvariant == TranscriptSpec => []ConversationInv
  BY ConversationInit, ConversationStep, PTL DEF TranscriptSpec

LEMMA WellFormed ==
    ASSUME NEW row, Sound(row)
    PROVE  /\ \A i \in DOMAIN row.entries :
                 /\ KindAt(row, i) = "user" => Cardinality({u \in row.turns : u.user = i}) = 1
                 /\ KindAt(row, i) = "assistant" =>
                        Cardinality({u \in row.turns : u.assistant = i}) = 1
           /\ Cardinality({u \in row.turns : u.status = "in_progress"}) <= 1
  <1>1. \A u \in row.turns : u.user \in Nat \ {0} /\ u.assistant \in Nat
    BY RowFields, TurnFields DEF Sound
  <1>2. \A u, v \in row.turns : /\ u.user = v.user => u = v
                                /\ u.user < v.user => u.status # "in_progress" /\ u.assistant < v.user
    BY DEF Sound, Sequential
  <1>3. \A u \in row.turns : u.assistant # 0 => u.assistant > u.user
    BY DEF Sound, Owning
  <1>4. ASSUME NEW u \in row.turns, NEW v \in row.turns, u.assistant # 0, u.assistant = v.assistant
        PROVE  u = v
    BY <1>1, <1>2, <1>3, <1>4
  <1>5. ASSUME NEW i \in DOMAIN row.entries, KindAt(row, i) = "user"
        PROVE  Cardinality({u \in row.turns : u.user = i}) = 1
    <2>1. PICK u \in row.turns : u.user = i
      BY <1>5 DEF Sound, Owned, KindAt
    <2>2. {v \in row.turns : v.user = i} = {u}
      BY <2>1, <1>2
    <2>3. QED
      BY <2>2, FS_Singleton
  <1>6. ASSUME NEW i \in DOMAIN row.entries, KindAt(row, i) = "assistant"
        PROVE  Cardinality({u \in row.turns : u.assistant = i}) = 1
    <2>1. PICK u \in row.turns : u.assistant = i
      BY <1>6 DEF Sound, Owned, KindAt
    <2>2. i # 0
      BY RowFields DEF Sound
    <2>3. {v \in row.turns : v.assistant = i} = {u}
      BY <2>1, <2>2, <1>4
    <2>4. QED
      BY <2>3, FS_Singleton
  <1>7. Cardinality({u \in row.turns : u.status = "in_progress"}) <= 1
    <2> DEFINE running == {u \in row.turns : u.status = "in_progress"}
    <2>1. \A u, v \in running : u = v
      BY <1>1, <1>2
    <2>2. CASE running = {}
      BY <2>2, FS_EmptySet
    <2>3. CASE running # {}
      <3>1. PICK u \in running : TRUE
        BY <2>3
      <3>2. running = {u}
        BY <3>1, <2>1
      <3>3. QED
        BY <3>2, FS_Singleton
    <2>4. QED
      BY <2>2, <2>3
  <1>8. QED
    BY <1>5, <1>6, <1>7

LEMMA TranscriptsHold == ConversationInv => TranscriptWellFormed
  <1> SUFFICES ASSUME ConversationInv, NEW t \in Threads
      PROVE  LET row == db[t] IN
             /\ \A i \in DOMAIN row.entries : row.entries[i].sequence = i
             /\ \A u \in row.turns :
                   /\ u.user \in DOMAIN row.entries /\ KindAt(row, u.user) = "user"
                   /\ (u.status = "completed") = (u.assistant # 0)
                   /\ u.assistant # 0 => /\ u.assistant > u.user
                                         /\ u.assistant \in DOMAIN row.entries
                                         /\ KindAt(row, u.assistant) = "assistant"
                                         /\ row.entries[u.assistant].text = u.answer
             /\ \A i \in DOMAIN row.entries :
                   /\ KindAt(row, i) = "user" => Cardinality({u \in row.turns : u.user = i}) = 1
                   /\ KindAt(row, i) = "assistant" =>
                          Cardinality({u \in row.turns : u.assistant = i}) = 1
             /\ Cardinality({u \in row.turns : u.status = "in_progress"}) <= 1
             /\ {a.sequence : a \in row.activities} = 1..Cardinality({a.call : a \in row.activities})
    BY Zenon DEF TranscriptWellFormed
  <1>1. Sound(db[t])
    BY DEF ConversationInv
  <1>2. /\ \A i \in DOMAIN db[t].entries :
              /\ KindAt(db[t], i) = "user" => Cardinality({u \in db[t].turns : u.user = i}) = 1
              /\ KindAt(db[t], i) = "assistant" =>
                     Cardinality({u \in db[t].turns : u.assistant = i}) = 1
        /\ Cardinality({u \in db[t].turns : u.status = "in_progress"}) <= 1
    BY <1>1, WellFormed
  <1>3. Gapless(db[t]) /\ Owning(db[t]) /\ Tallied(db[t])
    BY <1>1 DEF Sound
  <1>4. \A i \in DOMAIN db[t].entries : db[t].entries[i].sequence = i
    BY <1>3 DEF Gapless
  <1>5. \A u \in db[t].turns :
           /\ u.user \in DOMAIN db[t].entries /\ KindAt(db[t], u.user) = "user"
           /\ (u.status = "completed") = (u.assistant # 0)
           /\ u.assistant # 0 => /\ u.assistant > u.user
                                 /\ u.assistant \in DOMAIN db[t].entries
                                 /\ KindAt(db[t], u.assistant) = "assistant"
                                 /\ db[t].entries[u.assistant].text = u.answer
    BY <1>3 DEF Owning, KindAt
  <1>6. {a.sequence : a \in db[t].activities} = 1..Cardinality({a.call : a \in db[t].activities})
    BY <1>3 DEF Tallied
  <1>7. QED
    BY Zenon, <1>2, <1>4, <1>5, <1>6

\* A transcript has no gap, a Turn owns its question and its answer alone, at
\* most one Turn is unfinished, and tool calls are numbered once each.
THEOREM Transcripts == TranscriptSpec => []TranscriptWellFormed
  BY ConversationInvariant, TranscriptsHold, PTL

LEMMA PagesHold == ConversationInv => PagesComplete
  <1> SUFFICES ASSUME ConversationInv, reader.thread # None
      PROVE  /\ Len(reader.got) <= reader.upto
             /\ \A i \in DOMAIN reader.got :
                   reader.got[i] = db[reader.thread].entries[reader.upto - Len(reader.got) + i]
             /\ ~reader.more => Len(reader.got) = reader.upto
    BY DEF PagesComplete
  <1>1. /\ reader.thread \in Threads /\ Len(db[reader.thread].entries) \in Nat
        /\ reader.upto \in 0..Len(db[reader.thread].entries)
        /\ reader.got \in Seq(EntryType) /\ reader.before \in Nat \ {0}
        /\ reader.before = reader.upto - Len(reader.got) + 1
        /\ \A i \in DOMAIN reader.got :
              reader.got[i] = db[reader.thread].entries[reader.upto - Len(reader.got) + i]
        /\ reader.more <=> reader.before > 1
    BY RowFields DEF ConversationInv, Paged, Sound
  <1>2. Len(reader.got) \in Nat /\ reader.upto \in Nat
    BY <1>1
  <1>3. QED
    BY <1>1, <1>2

\* A client that pages backwards has, at every moment, exactly the end of what
\* the transcript was when it began, and at the last page all of it.
THEOREM Pages == TranscriptSpec => []PagesComplete
  BY ConversationInvariant, PagesHold, PTL

LEMMA DecisionStep ==
    ASSUME ConversationInv, RowsKept, NEW t \in Threads, db[t].present
    PROVE  /\ SubSeq(db'[t].entries, 1, Len(db[t].entries)) = db[t].entries
           /\ TerminalTurns(db[t]) \subseteq db'[t].turns
           /\ db[t].manual => db'[t].manual
           /\ db[t].title = "named" => db'[t].title = "named"
  <1>1. Grows(db[t], db'[t]) /\ db[t] \in RowType /\ db'[t] \in RowType
    BY DEF RowsKept, ConversationInv
  <1> DEFINE old == db[t].entries
             new == db'[t].entries
  <1>2. /\ old \in Seq(EntryType) /\ new \in Seq(EntryType)
        /\ Len(old) \in Nat /\ DOMAIN old = 1..Len(old) /\ DOMAIN new = 1..Len(new)
    BY <1>1, RowFields
  <1>3. Len(old) <= Len(new) /\ \A i \in DOMAIN old : new[i] = old[i]
    BY <1>1 DEF Grows
  <1>4. SubSeq(new, 1, Len(old)) = old
    <2> HIDE DEF old, new
    <2>1. SubSeq(new, 1, Len(old)) = [i \in 1..Len(old) |-> new[i]]
      BY <1>2, <1>3
    <2>2. old = [i \in 1..Len(old) |-> old[i]]
      BY <1>2
    <2>3. QED
      BY <2>1, <2>2, <1>2, <1>3
  <1>5. QED
    BY <1>1, <1>4 DEF Grows

\* No commit takes back what was decided before it: an Entry, a terminal Turn
\* or a title the user gave.
THEOREM Decisions == TranscriptSpec => DecisionsKept
  <1>1. ConversationInv /\ [TranscriptNext]_transcriptVars =>
            [\A t \in Threads : db[t].present =>
                /\ SubSeq(db[t]'.entries, 1, Len(db[t].entries)) = db[t].entries
                /\ TerminalTurns(db[t]) \subseteq db[t]'.turns
                /\ db[t].manual => db[t]'.manual
                /\ db[t].title = "named" => db[t]'.title = "named"]_transcriptVars
    BY RowsStep, DecisionStep
  <1>2. QED
    BY <1>1, ConversationInvariant, PTL DEF TranscriptSpec, DecisionsKept

\* Every reachable row has its type and its bound.
THEOREM TranscriptTypes == TranscriptSpec => []TranscriptTypeOK
  <1>1. ConversationInv => TranscriptTypeOK
    <2> SUFFICES ASSUME ConversationInv, NEW t \in Threads
        PROVE  /\ Len(db[t].entries) <= MaxEntries
               /\ \A i \in DOMAIN db[t].entries : db[t].entries[i].kind \in Kinds
               /\ \A u \in db[t].turns : u.status \in TurnStatuses /\ u.manifest \in Manifests
      BY DEF TranscriptTypeOK, ConversationInv
    <2>1. Sound(db[t])
      BY DEF ConversationInv
    <2>2. QED
      BY <2>1, RowFields, TurnFields DEF Sound, Short, EntryType
  <1>2. QED
    BY <1>1, ConversationInvariant, PTL

-----------------------------------------------------------------------------
(* What a fork or a retry says.                                             *)

\* A row that is not there is not put there by a commit to a row that is.
LEMMA Elsewhere ==
    ASSUME ConversationInv, NEW n \in Threads, ~db[n].present,
           NEW t \in Threads, db[t].present, NEW row, Store(t, row)
    PROVE  ~db'[n].present
  BY DEF Store, ConversationInv

LEMMA CommitElsewhere ==
    ASSUME ConversationInv, NEW n \in Threads, ~db[n].present, NEW c \in Callers,
           \/ OpenTurn(c) \/ StoreManifest(c) \/ AppendDirect(c) \/ SwapSummary(c)
           \/ \E m \in {0, 1} : \/ CompleteTurn(c, m)
                                \/ EndTurn(c, "fail", "failed", m)
                                \/ EndTurn(c, "cancel", "cancelled", m)
    PROVE  ~db'[n].present
  <1> DEFINE t == call[c].thread
  <1>1. call[c] # None
    BY DEF OpenTurn, StoreManifest, AppendDirect, SwapSummary, CompleteTurn, EndTurn, Doing
  <1>2. t \in Threads /\ db[t].present
    BY <1>1, CallFields
  <1>3. db' = db \/ \E row : db' = [db EXCEPT ![t] = row]
    <2>1. OpenTurn(c) => db' = db \/ \E row : Store(t, row)
      BY DEF OpenTurn, Refuse
    <2>2. ASSUME NEW m, CompleteTurn(c, m) PROVE db' = db \/ \E row : Store(t, row)
      BY <2>2 DEF CompleteTurn, Refuse
    <2>3. ASSUME NEW m, NEW what, NEW outcome, EndTurn(c, what, outcome, m)
          PROVE  db' = db \/ \E row : Store(t, row)
      BY <2>3 DEF EndTurn, Refuse
    <2>4. AppendDirect(c) => db' = db \/ \E row : Store(t, row)
      BY DEF AppendDirect, Refuse
    <2>5. StoreManifest(c) => db' = db \/ \E row : db' = [db EXCEPT ![t] = row]
      BY DEF StoreManifest, Refuse
    <2>6. SwapSummary(c) => db' = db \/ \E row : db' = [db EXCEPT ![t] = row]
      BY DEF SwapSummary, Refuse
    <2>7. (\E row : Store(t, row)) => \E row : db' = [db EXCEPT ![t] = row]
      BY DEF Store
    <2>8. QED
      BY <2>1, <2>2, <2>3, <2>4, <2>5, <2>6, <2>7
  <1>4. QED
    BY <1>2, <1>3, Elsewhere DEF Store

\* A Thread with a source appears by one commit, of a plan that was built from
\* what the source still is.
LEMMA Published ==
    ASSUME ConversationInv, [TranscriptNext]_transcriptVars, NEW n \in Threads,
           ~db[n].present, db'[n].present, db'[n].source # None
    PROVE  \E c \in Callers, form \in {"fork", "retry"} :
              LET t == call[c].thread
                  view == call[c].view
                  wanted == call[c].turn
              IN  /\ call[c] # None /\ call[c].what \in Targeted
                  /\ TerminalTarget(wanted) /\ ~Crosses(view, wanted, form)
                  /\ Fingerprint(db[t]) = Fingerprint(view)
                  /\ Store(n, Materialized(t, view, wanted, form))
  <1> DEFINE Planned ==
        \E c \in Callers, form \in {"fork", "retry"} :
              LET t == call[c].thread
                  view == call[c].view
                  wanted == call[c].turn
              IN  /\ call[c] # None /\ call[c].what \in Targeted
                  /\ TerminalTarget(wanted) /\ ~Crosses(view, wanted, form)
                  /\ Fingerprint(db[t]) = Fingerprint(view)
                  /\ Store(n, Materialized(t, view, wanted, form))
  <1> SUFFICES Planned
    OBVIOUS
  <1>0. db' # db
    OBVIOUS
  <1>1. ASSUME NEW c \in Callers, NEW t \in Threads, CreateThread(c, t) PROVE FALSE
    <2>1. db' = [db EXCEPT ![t] = EmptyThread(TRUE)]
      BY <1>1 DEF CreateThread, Store
    <2>2. db'[n] = db[n] \/ db'[n] = EmptyThread(TRUE)
      BY <2>1 DEF ConversationInv
    <2>3. EmptyThread(TRUE).source = None
      BY DEF EmptyThread
    <2>4. QED
      BY <2>2, <2>3
  <1>2. ASSUME NEW c \in Callers, NEW t \in Threads, NEW what \in Choices, Read(c, what, t)
        PROVE  FALSE
    BY <1>0, <1>2 DEF Read
  <1>3. ASSUME NEW c \in Callers, NEW form \in {"fork", "retry"}, NEW new \in Threads,
               Materialize(c, form, new)
        PROVE  Planned
    <2> DEFINE t == call[c].thread
               view == call[c].view
               wanted == call[c].turn
               row == Materialized(t, view, wanted, form)
    <2>1. /\ call[c] # None /\ call[c].what \in Targeted
      BY <1>3 DEF Materialize, Doing, Targeted
    <2>2. /\ TerminalTarget(wanted) /\ ~Crosses(view, wanted, form)
          /\ Fingerprint(db[t]) = Fingerprint(view) /\ Store(new, row)
      BY Zenon, <1>0, <1>3 DEF Materialize, CommitMaterialized, Refuse
    <2> HIDE DEF row
    <2>3. new = n
      BY <2>2 DEF Store, ConversationInv
    <2>4. QED
      BY Zenon, <2>1, <2>2, <2>3 DEF row
  <1>4. ASSUME NEW c \in Callers, Commit(c) PROVE Planned
    BY <1>3, <1>4, CommitElsewhere DEF Commit
  <1>5. ASSUME NEW t \in Threads, ReadPage(t) PROVE FALSE
    BY <1>0, <1>5 DEF ReadPage
  <1>6. ASSUME NEW t \in Threads, Patch(t) PROVE FALSE
    BY <1>6, Elsewhere DEF Patch
  <1>7. ASSUME NEW t \in Threads, NEW id \in Answers, FinalizeActivity(t, id) PROVE FALSE
    <2> DEFINE x == IF \E a \in db[t].activities : a.call = id THEN db[t].activities
                    ELSE db[t].activities \cup
                         {[call |-> id, sequence |-> Cardinality(db[t].activities) + 1]}
    <2>1. db' = [db EXCEPT ![t].activities = x]
      BY <1>7 DEF FinalizeActivity
    <2> HIDE DEF x
    <2>2. db'[n].present = db[n].present
      BY <2>1 DEF ConversationInv, RowType
    <2>3. QED
      BY <2>2
  <1>8. CASE UNCHANGED transcriptVars
    BY <1>0, <1>8 DEF transcriptVars
  <1> HIDE DEF Planned
  <1>9. QED
    BY <1>1, <1>2, <1>4, <1>5, <1>6, <1>7, <1>8 DEF TranscriptNext

LEMMA Said ==
    ASSUME NEW row \in RowType, NEW s \in 0..Len(row.entries)
    PROVE  SaidUpTo(row, s) = [i \in 1..s |-> <<row.entries[i].kind, row.entries[i].text>>]
  <1> DEFINE n == Len(row.entries)
             texts == [i \in DOMAIN row.entries |-> <<row.entries[i].kind, row.entries[i].text>>]
  <1>1. DOMAIN row.entries = 1..n /\ n \in Nat
    BY RowFields
  <1>2. \A i \in 1..n : <<row.entries[i].kind, row.entries[i].text>> \in Kinds \X Answers
    BY <1>1, RowFields DEF EntryType
  <1>3. texts \in Seq(Kinds \X Answers) /\ Len(texts) = n
    BY <1>1, <1>2
  <1> HIDE DEF n
  <1>4. SubSeq(texts, 1, s) = [i \in 1..s |-> texts[i]]
    <2> HIDE DEF texts
    <2>1. QED
      BY <1>1, <1>3 DEF n
  <1>5. \A i \in 1..s : texts[i] = <<row.entries[i].kind, row.entries[i].text>>
    BY <1>1 DEF n
  <1> HIDE DEF texts
  <1>6. QED
    BY <1>4, <1>5 DEF SaidUpTo, texts

LEMMA SameSource ==
    ASSUME NEW row \in RowType, NEW view \in RowType, Fingerprint(row) = Fingerprint(view)
    PROVE  row.entries = view.entries /\ row.turns = view.turns /\ row.model = view.model
  <1>1. /\ Fingerprint(row).entries = row.entries /\ Fingerprint(row).turns = row.turns
        /\ Fingerprint(row).model = row.model
    BY DEF Fingerprint, RowType
  <1>2. /\ Fingerprint(view).entries = view.entries /\ Fingerprint(view).turns = view.turns
        /\ Fingerprint(view).model = view.model
    BY DEF Fingerprint, RowType
  <1>3. QED
    BY <1>1, <1>2

LEMMA CopySays ==
    ASSUME NEW view, Sound(view), NEW wanted \in view.turns, NEW form \in {"fork", "retry"},
           NEW t, NEW row, CopyOf(view, wanted, form, t, row)
    PROVE  SaidUpTo(row, Len(row.entries)) =
               SaidUpTo(view, IF form = "fork" THEN Boundary(wanted) ELSE wanted.user)
  <1> DEFINE m == End(wanted, form)
             end == IF form = "fork" THEN Boundary(wanted) ELSE wanted.user
  <1>1. /\ row \in RowType /\ view \in RowType
        /\ Len(row.entries) = IF form = "fork" THEN m ELSE m + 1
        /\ \A i \in 1..m : row.entries[i] = view.entries[i]
        /\ form = "retry" => row.entries[m + 1] = Entry(m + 1, "user", view.entries[wanted.user].text)
    BY DEF CopyOf, Sound
  <1>2. /\ m \in 0..Len(view.entries) /\ wanted.user \in 1..Len(view.entries)
        /\ Len(view.entries) \in Nat
    BY <1>1, EndBounds, RowFields
  <1>3. form = "retry" => m = wanted.user - 1
    BY DEF End
  <1>4. form = "fork" => m = end
    BY DEF End
  <1>5. view.entries[wanted.user].kind = "user"
    BY DEF Sound, Owning
  <1> HIDE DEF m, end
  <1>6. end = Len(row.entries) /\ end \in 0..Len(view.entries)
    BY <1>1, <1>2, <1>3, <1>4 DEF end
  <1>7. \A i \in 1..end : /\ row.entries[i].kind = view.entries[i].kind
                          /\ row.entries[i].text = view.entries[i].text
    <2>1. CASE form = "fork"
      BY <2>1, <1>1, <1>4
    <2>2. CASE form = "retry"
      <3>1. end = m + 1 /\ m \in Nat
        BY <2>2, <1>2, <1>3 DEF end
      <3>2. ASSUME NEW i \in 1..end
            PROVE  /\ row.entries[i].kind = view.entries[i].kind
                   /\ row.entries[i].text = view.entries[i].text
        <4>1. CASE i \in 1..m
          BY <4>1, <1>1
        <4>2. CASE i = m + 1
          BY <4>2, <2>2, <1>1, <1>2, <1>3, <1>5 DEF Entry
        <4>3. QED
          BY <4>1, <4>2, <3>1
      <3>3. QED
        BY <3>2
    <2>3. QED
      BY <2>1, <2>2
  <1>8. /\ SaidUpTo(row, end) = [i \in 1..end |-> <<row.entries[i].kind, row.entries[i].text>>]
        /\ SaidUpTo(view, end) = [i \in 1..end |-> <<view.entries[i].kind, view.entries[i].text>>]
    <2>1. end \in 0..Len(row.entries)
      BY <1>2, <1>6
    <2>2. QED
      BY <2>1, <1>1, <1>6, Said
  <1>9. SaidUpTo(row, end) = SaidUpTo(view, end)
    BY <1>7, <1>8
  <1>10. QED
    BY <1>6, <1>9 DEF end

LEMMA CopyStep ==
    ASSUME ConversationInv, [TranscriptNext]_transcriptVars, NEW n \in Threads,
           ~db[n].present, db'[n].present, db'[n].source # None
    PROVE  LET src == db'[n].source
               u == CHOOSE x \in db[src.thread].turns : x.user = src.turn
               end == IF src.kind = "fork" THEN Boundary(u) ELSE u.user
           IN  /\ SaidUpTo(db'[n], Len(db'[n].entries)) = SaidUpTo(db[src.thread], end)
               /\ db'[src.thread] = db[src.thread]
               /\ db'[n].model = db[src.thread].model
  <1>1. PICK c \in Callers, form \in {"fork", "retry"} :
           /\ call[c] # None /\ call[c].what \in Targeted
           /\ TerminalTarget(call[c].turn) /\ ~Crosses(call[c].view, call[c].turn, form)
           /\ Fingerprint(db[call[c].thread]) = Fingerprint(call[c].view)
           /\ Store(n, Materialized(call[c].thread, call[c].view, call[c].turn, form))
    BY Published
  <1> DEFINE t == call[c].thread
             view == call[c].view
             wanted == call[c].turn
             row == Materialized(t, view, wanted, form)
             src == db'[n].source
             u == CHOOSE x \in db[src.thread].turns : x.user = src.turn
  <1>2. /\ Sound(view) /\ t \in Threads /\ wanted \in view.turns /\ view \in RowType
        /\ db[t] \in RowType /\ db[t].present /\ Sound(db[t])
    BY <1>1, CallFields, CurrentTurn DEF Sound
  <1> HIDE DEF row
  <1>3. db'[n] = row /\ db'[t] = db[t]
    BY <1>1, <1>2 DEF Store, ConversationInv, row
  <1> HIDE DEF t, view, wanted
  <1>4. CopyOf(view, wanted, form, t, row)
    BY <1>1, <1>2, MaterializedRow DEF row, t, view, wanted
  <1>5. /\ db[t].entries = view.entries /\ db[t].turns = view.turns /\ db[t].model = view.model
    BY <1>1, <1>2, SameSource DEF t, view
  <1>6. /\ src = [kind |-> form, thread |-> t, turn |-> wanted.user]
        /\ row.model = view.model
    BY <1>3, <1>4 DEF CopyOf
  <1> HIDE DEF src
  <1>7. src.kind = form /\ src.thread = t /\ src.turn = wanted.user
    BY <1>6
  <1>8. u = wanted
    <2>1. \A x \in db[t].turns : x.user = wanted.user <=> x = wanted
      BY <1>2, <1>5 DEF Sound, Sequential
    <2>2. QED
      BY <2>1, <1>2, <1>5, <1>7
  <1> HIDE DEF u
  <1>9. SaidUpTo(db[t], IF form = "fork" THEN Boundary(wanted) ELSE wanted.user)
            = SaidUpTo(view, IF form = "fork" THEN Boundary(wanted) ELSE wanted.user)
    BY <1>5 DEF SaidUpTo
  <1>10. SaidUpTo(row, Len(row.entries)) =
            SaidUpTo(view, IF form = "fork" THEN Boundary(wanted) ELSE wanted.user)
    BY <1>2, <1>4, CopySays
  <1>11. /\ SaidUpTo(db'[n], Len(db'[n].entries)) =
               SaidUpTo(db[src.thread], IF src.kind = "fork" THEN Boundary(u) ELSE u.user)
         /\ db'[src.thread] = db[src.thread]
         /\ db'[n].model = db[src.thread].model
    BY <1>3, <1>5, <1>6, <1>7, <1>8, <1>9, <1>10
  <1>12. QED
    BY Zenon, <1>11 DEF src, u

\* A fork says what its source says at the commit, up to the end of its Turn,
\* a retry up to the question, asked once more; the source is left alone.
THEOREM Copied == TranscriptSpec => MaterializedIsPrefix
  <1>1. ConversationInv /\ [TranscriptNext]_transcriptVars =>
            [\A n \in Threads :
                (~db[n].present /\ db'[n].present /\ db'[n].source # None) =>
                    LET src == db'[n].source
                        u == CHOOSE x \in db[src.thread].turns : x.user = src.turn
                        end == IF src.kind = "fork" THEN Boundary(u) ELSE u.user
                    IN  /\ SaidUpTo(db[n]', Len(db[n]'.entries)) = SaidUpTo(db[src.thread], end)
                        /\ db'[src.thread] = db[src.thread]
                        /\ db'[n].model = db[src.thread].model]_transcriptVars
    BY Zenon, CopyStep
  <1>2. QED
    BY <1>1, ConversationInvariant, PTL DEF TranscriptSpec, MaterializedIsPrefix

=============================================================================
