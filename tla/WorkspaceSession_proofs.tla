----------------------- MODULE WorkspaceSession_proofs ------------------------
(***************************************************************************)
(* The inductive invariant of WorkspaceSession and what follows from it,   *)
(* for any number of Threads, unfinished Turns and concurrent requests.    *)
(* Shaped, Alone and Driven are about the requests and the foreground,     *)
(* Admission about the Operation, Asked about the pending question, Rights *)
(* about the permission session, Queued and Series about recovery.         *)
(***************************************************************************)
EXTENDS WorkspaceSession, FiniteSetTheorems, TLAPS

\* The types of the state
Named == Threads \cup {NoThread}
RequestType ==
  [kind: StartKinds \cup CommandKinds \cup {"none", "respond", "initialize"},
   stage: {"none", "checked", "reserved", "starting", "publishing", "unowned", "held",
           "asking", "building", "acknowledged", "aborting", "aborted", "resuming",
           "starting_recovery", "requeueing", "resumed", "flushing"},
   rt: 0 .. MaxRuntime, thread: Named, id: Nat,
   decision: Decisions \cup Modes \cup {"none"}, turn: Unfinished \cup {NoTurn}]
OperationType ==
  [stage: {"none", "reserved", "starting", "dying", "barrier", "running", "asking",
           "tool", "finishing"},
   thread: Named, rt: 0 .. MaxRuntime, turn: Unfinished \cup {NoTurn},
   needs: KnownCapabilities \cup {"none"}, question: Nat,
   heard: Decisions \cup Modes \cup {"none"}, seen: Named, published: BOOLEAN]
QuestionType ==
  [id: Nat, kind: {"none", "tool_approval", "full_access_confirmation", "recovery_decision"},
   thread: Named, turn: Unfinished \cup {NoTurn},
   decision: Decisions \cup Modes \cup {"none"}]
PermissionType ==
  [mode: Decisions \cup Modes \cup {"none", "full_access"}, writes: BOOLEAN,
   network: SUBSET Named, owner: Named, asked: Nat]

TypeOK ==
  /\ runtime \in 0 .. MaxRuntime
  /\ selected \in [0 .. MaxRuntime -> Named]
  /\ permission \in PermissionType
  /\ pending \in QuestionType
  /\ operation \in OperationType
  /\ request \in [Slots -> RequestType]
  /\ queue \in Seq(Unfinished)
  /\ status \in [Unfinished -> {"in_progress", "settled", "stranded"}]
  /\ undelivered \in BOOLEAN /\ deferred \in BOOLEAN /\ orphaned \in BOOLEAN

\* What the kind of a request says of its thread, and its stage of its kind.
Shaped ==
  \A s \in Slots :
    /\ request[s].kind \in StartKinds => request[s].thread \in Threads
    /\ request[s].kind = "select" => request[s].thread \in Threads
    /\ request[s].stage \in {"publishing", "unowned"} => request[s].kind = "retry"
    /\ request[s].kind \in CommandKinds => request[s].stage \in {"held", "building", "asking"}
    /\ request[s].stage = "building" => request[s].kind = "publish"
    /\ request[s].kind \in CommandKinds => request[s].rt = runtime
    /\ request[s].kind = "publish" => runtime < MaxRuntime
    /\ request[s].kind = "mode" => request[s].decision \in Modes

\* The requests that move the foreground Operation, those that hold the
\* foreground or drive it, and those under the bootstrap lock
Drives(s) ==
  request[s].stage \in {"reserved", "starting", "publishing", "resuming",
                        "starting_recovery"}
Busy(s) == HoldsExclusive(s) \/ Drives(s)
Deciding(s) ==
  request[s].stage \in {"aborting", "aborted", "resuming", "starting_recovery",
                        "requeueing", "resumed", "flushing"}

\* One request at a time holds the foreground, and one the bootstrap lock.
Alone ==
  /\ \A r, s \in Slots : Busy(r) /\ Busy(s) => r = s
  /\ \A r, s \in Slots : Deciding(r) /\ Deciding(s) => r = s

\* A request that drives the Operation is where the Operation is.
Driven ==
  \A s \in Slots :
    /\ HoldsExclusive(s) => operation.stage = "none"
    /\ request[s].stage = "reserved" =>
         operation.stage = "reserved" /\ operation.turn = NoTurn
    /\ request[s].stage = "starting" =>
         operation.stage \in {"starting", "dying"} /\ operation.turn = NoTurn
    /\ request[s].stage = "publishing" =>
         operation.stage \in {"barrier", "dying"} /\ operation.turn = NoTurn
    /\ request[s].stage = "resuming" =>
         operation.stage = "reserved" /\ operation.turn # NoTurn /\ ~operation.published
    /\ request[s].stage = "starting_recovery" =>
         /\ operation.stage \in {"starting", "dying"}
         /\ operation.turn # NoTurn /\ ~operation.published
    /\ request[s].stage = "requeueing" => operation.turn = NoTurn

\* What the stage of the Operation says of the rest of it
Admission ==
  /\ operation.stage = "none" => operation = NoOperation
  /\ operation.stage # "none" => operation.thread \in Threads
  /\ operation.stage = "asking" <=> operation.question # 0
  /\ operation.heard # "none" => operation.stage = "asking"
  /\ operation.stage = "barrier" => operation.turn = NoTurn

\* The pending question is about what it asks for: the call that waits for it,
\* the Thread selected when full access was asked, the Thread of a Turn.
Asked ==
  /\ pending.id = 0 => pending = NoQuestion
  /\ pending.kind = "none" => pending = NoQuestion
  /\ pending.kind = "tool_approval" =>
       /\ operation.stage = "asking" /\ operation.question = pending.id
       /\ pending.thread = operation.thread /\ pending.decision = operation.heard
  /\ pending.decision # "none" => pending.kind = "tool_approval"
  /\ pending.kind = "full_access_confirmation" =>
       /\ operation.stage = "none"
       /\ \A s \in Slots : HoldsExclusive(s) => request[s].kind = "full"
       /\ pending.thread \in Threads /\ selected[runtime] # NoThread
       /\ ~orphaned => pending.thread = selected[runtime]
  /\ pending.kind = "recovery_decision" =>
       pending.turn \in Unfinished /\ pending.thread = Home[pending.turn]
  /\ pending.id # 0 /\ pending.id = operation.question => pending.kind = "tool_approval"
  /\ \A s \in Slots :
       request[s].stage = "asking" /\ request[s].id = pending.id =>
         pending.kind \in {"none", "full_access_confirmation"}

\* Some authority was given, and it is the selected Thread's; the requests and
\* the decision that may still give some are about that Thread as well.
Given == permission.mode # "request_approval" \/ permission.writes \/ permission.network # {}
Rights ==
  /\ Given => permission.owner \in Threads /\ (~orphaned => permission.owner = selected[runtime])
  /\ ~orphaned => permission.network \subseteq {selected[runtime]}
  /\ operation.heard # "none" /\ ~orphaned =>
       operation.thread = selected[runtime] /\ operation.seen = operation.thread
  /\ \A s \in Slots :
       /\ request[s].kind = "retry" /\ request[s].stage \in {"starting", "publishing"} => ~Given
       /\ request[s].stage = "building" /\ ~orphaned => request[s].thread = selected[runtime]
       /\ request[s].stage = "acknowledged" =>
            /\ request[s].thread \in Threads
            /\ ~orphaned => request[s].thread = selected[runtime]
       /\ /\ request[s].kind = "respond" /\ request[s].stage = "checked"
          /\ request[s].id = pending.id
          /\ pending.kind \in {"tool_approval", "full_access_confirmation"}
          => /\ ~orphaned => request[s].thread = selected[runtime]
             /\ pending.kind = "tool_approval" => request[s].rt = runtime
             /\ pending.kind = "full_access_confirmation" => request[s].thread \in Threads

\* The queue holds unfinished Turns once each, a Turn being resumed or on its way
\* back left it, and every other unfinished Turn is in it.
Stranded == \E u \in Unfinished : status[u] = "stranded"
Distinct(q) == \A i, j \in 1 .. Len(q) : q[i] = q[j] => i = j
Queued ==
  /\ Distinct(queue)
  /\ \A u \in ToSet(queue) : status[u] = "in_progress"
  /\ operation.turn # NoTurn =>
       /\ operation.stage = "reserved" =>
            queue # <<>> /\ Head(queue) = operation.turn /\ AsksHead(pending, queue)
       /\ operation.stage \in {"starting", "dying", "running", "asking", "tool"} =>
            /\ operation.turn \notin ToSet(queue)
            /\ status[operation.turn] = "in_progress"
       /\ operation.stage = "finishing" => status[operation.turn] = "settled"
  /\ \A s \in Slots : request[s].stage = "aborting" => queue # <<>>
  /\ \A s \in Slots : request[s].stage = "resumed" =>
       /\ operation.turn # NoTurn /\ ~operation.published
       /\ operation.stage \in {"running", "asking", "tool", "finishing", "dying"}
  /\ \A s \in Slots : request[s].stage = "requeueing" =>
       /\ request[s].turn \in Unfinished /\ request[s].turn \notin ToSet(queue)
       /\ status[request[s].turn] = "in_progress"
  /\ \A u \in Unfinished :
       status[u] = "in_progress" =>
         \/ u \in ToSet(queue) \/ operation.turn = u
         \/ \E s \in Slots : request[s].stage = "requeueing" /\ request[s].turn = u

\* The head of the queue is being asked, will be when the Turn being resumed
\* ends or is put back, or the series was interrupted.
Broken == undelivered \/ deferred \/ Stranded
Away ==
  \E u \in Unfinished :
    status[u] = "in_progress" /\ u \notin ToSet(queue) /\ operation.turn # u
Series ==
  queue # <<>> /\ ~Broken =>
    \/ AsksHead(pending, queue)
    \/ operation.turn # NoTurn /\ operation.stage # "reserved"
    \/ Away

------------------------------------------------------------------------------

\* A command as a user may give it
Commands(s, kind, t, mode) ==
  /\ Command(s, kind, t, mode)
  /\ kind \in CommandKinds \cup {"retry"}
  /\ t \in Named /\ (kind \in {"select", "retry"} => t \in Threads)
  /\ mode \in Modes \cup {"none"} /\ (kind = "mode" => mode \in Modes)

\* What moves a request slot
SlotMoves(s) ==
  \/ SubmitRequest(s) \/ Initialize(s)
  \/ \E kind, t, mode : Commands(s, kind, t, mode)
  \/ \E d \in Decisions : Respond(s, d)
  \/ RequestStep(s) \/ RequestFails(s)

\* The actions that make up a step.
LEMMA Moves ==
    ASSUME Next
    PROVE  \/ \E s \in Slots : SlotMoves(s)
           \/ \E c \in Capabilities : CallTool(c)
           \/ HearDecision \/ ToolEnds \/ RecoveryFinished \/ OperationCancelled
           \/ OperationFinishes \/ AskFails \/ BarrierCancelled \/ StartCancelled
  <1>1. ASSUME NEW s \in Slots, UserAsks(s) PROVE SlotMoves(s)
    <2>1. ASSUME NEW t \in Threads, NEW kind \in {"select", "retry"},
                 Command(s, kind, t, "none")
          PROVE  SlotMoves(s)
      <3>1. Commands(s, kind, t, "none")
        BY <2>1 DEF Commands, CommandKinds, Named
      <3>2. QED
        BY <3>1 DEF SlotMoves
    <2>2. ASSUME NEW mode \in Modes, Command(s, "mode", NoThread, mode) PROVE SlotMoves(s)
      <3>1. Commands(s, "mode", NoThread, mode)
        BY <2>2 DEF Commands, CommandKinds, Named
      <3>2. QED
        BY <3>1 DEF SlotMoves
    <2>3. ASSUME NEW kind \in {"full", "publish", "revoke"}, Command(s, kind, NoThread, "none")
          PROVE  SlotMoves(s)
      <3>1. Commands(s, kind, NoThread, "none")
        BY <2>3 DEF Commands, CommandKinds, Named
      <3>2. QED
        BY <3>1 DEF SlotMoves
    <2>4. QED
      BY <1>1, <2>1, <2>2, <2>3 DEF UserAsks, SlotMoves
  <1>2. CASE Step
    BY <1>2 DEF Step, UserAnswers, OperationStep, UserCancels, SlotMoves
  <1>3. QED
    BY <1>1, <1>2 DEF Next

\* An element more or less.
LEMMA OneMore ==
    ASSUME NEW S, NEW x, NEW n \in Nat, IsFiniteSet(S), Cardinality(S) <= n
    PROVE  IsFiniteSet(S \cup {x}) /\ Cardinality(S \cup {x}) <= n + 1
  <1>1. Cardinality(S) \in Nat
    BY FS_CardinalityType
  <1>2. IsFiniteSet(S \cup {x})
    BY FS_AddElement
  <1>3. Cardinality(S \cup {x}) = IF x \in S THEN Cardinality(S) ELSE Cardinality(S) + 1
    BY FS_AddElement
  <1>4. QED
    BY <1>1, <1>2, <1>3

\* The next id differs from every id that is still named: there are more ids
\* to choose from than names.
LEMMA Fresh ==
    ASSUME TypeOK
    PROVE  /\ FreshId \in Nat \ {0}
           /\ FreshId \notin {pending.id, operation.question, permission.asked}
           /\ \A s \in Slots : request[s].id # FreshId
  <1> DEFINE Ids == {request[s].id : s \in Slots}
             Used == {pending.id, operation.question, permission.asked} \cup Ids
             ids == [s \in Slots |-> request[s].id]
             n == Cardinality(Slots)
  <1>1. IsFiniteSet(Slots) /\ n \in Nat
    BY WorkspaceAssumption, FS_CardinalityType
  <1>2. ids \in Surjection(Slots, Ids)
    BY DEF Surjection
  <1>3. IsFiniteSet(Ids) /\ Cardinality(Ids) <= n
    <2> HIDE DEF Ids, ids
    <2>1. QED
      BY <1>1, <1>2, FS_Surjection
  <1>4. Cardinality(Ids) \in Nat
    BY <1>3, FS_CardinalityType
  <1>5. IsFiniteSet(Used) /\ Cardinality(Used) <= n + 3
    <2> HIDE DEF Ids
    <2> DEFINE One == Ids \cup {pending.id}
               Two == One \cup {operation.question}
               Three == Two \cup {permission.asked}
    <2>1. IsFiniteSet(One) /\ Cardinality(One) <= n + 1
      BY <1>1, <1>3, OneMore
    <2> HIDE DEF One
    <2>2. n + 1 \in Nat /\ n + 2 \in Nat
      BY <1>1
    <2> HIDE DEF n
    <2>3. IsFiniteSet(Two) /\ Cardinality(Two) <= (n + 1) + 1
      BY <2>1, <2>2, OneMore
    <2> HIDE DEF Two
    <2>4. Cardinality(Two) <= n + 2
      BY <2>3, <1>1
    <2>5. IsFiniteSet(Three) /\ Cardinality(Three) <= (n + 2) + 1
      BY <2>2, <2>3, <2>4, OneMore
    <2>6. Cardinality(Three) <= n + 3
      BY <2>5, <1>1
    <2>7. Used = Three
      BY DEF One, Two
    <2>8. QED
      BY <2>5, <2>6, <2>7
  <1>6. ~(1 .. n + 4 \subseteq Used)
    <2> HIDE DEF Used, n
    <2>1. IsFiniteSet(1 .. n + 4) /\ Cardinality(1 .. n + 4) = n + 4
      BY <1>1, FS_Interval
    <2>2. Cardinality(Used) \in Nat
      BY <1>5, FS_CardinalityType
    <2>3. ASSUME 1 .. n + 4 \subseteq Used
          PROVE  Cardinality(1 .. n + 4) <= Cardinality(Used)
      BY <2>3, <1>5, FS_Subset
    <2>4. QED
      BY <1>1, <1>5, <2>1, <2>2, <2>3
  <1>7. \E id \in 1 .. n + 4 : id \notin Used
    BY <1>6
  <1>8. FreshId \in 1 .. n + 4 /\ FreshId \notin Used
    BY <1>7 DEF FreshId
  <1>9. QED
    BY <1>1, <1>8

\* The stages of a request
Stages ==
  {"none", "checked", "reserved", "starting", "publishing", "unowned", "held", "asking",
   "building", "acknowledged", "aborting", "aborted", "resuming", "starting_recovery",
   "requeueing", "resumed", "flushing"}

\* A request in another stage is a request, and so is a new one.
LEMMA RequestUpdates ==
    ASSUME TypeOK, NEW s \in Slots
    PROVE  /\ [request EXCEPT ![s] = NoRequest] \in [Slots -> RequestType]
           /\ \A stage \in Stages :
                [request EXCEPT ![s].stage = stage] \in [Slots -> RequestType]
           /\ \A r \in RequestType : [request EXCEPT ![s] = r] \in [Slots -> RequestType]
           /\ \A id \in Nat : [request EXCEPT ![s].stage = "asking", ![s].id = id]
                                \in [Slots -> RequestType]
           /\ \A t \in Named : [request EXCEPT ![s].stage = "building", ![s].thread = t]
                                 \in [Slots -> RequestType]
           /\ \A u \in Unfinished \cup {NoTurn} :
                [request EXCEPT ![s].stage = "requeueing", ![s].turn = u]
                  \in [Slots -> RequestType]
  <1>1. NoRequest \in RequestType
    BY WorkspaceAssumption DEF RequestType, NoRequest, Named
  <1>2. ASSUME NEW stage \in Stages
        PROVE  [request[s] EXCEPT !.stage = stage] \in RequestType
    BY DEF TypeOK, RequestType, Stages
  <1>3. request \in [Slots -> RequestType]
    BY DEF TypeOK
  <1> HIDE DEF RequestType
  <1>4. \A r \in RequestType : [request EXCEPT ![s] = r] \in [Slots -> RequestType]
    BY <1>3
  <1>5. ASSUME NEW stage \in Stages
        PROVE  [request EXCEPT ![s].stage = stage] \in [Slots -> RequestType]
    BY <1>2, <1>3, <1>5
  <1>6. ASSUME NEW id \in Nat
        PROVE  [request EXCEPT ![s].stage = "asking", ![s].id = id] \in [Slots -> RequestType]
    <2>1. [request[s] EXCEPT !.stage = "asking", !.id = id] \in RequestType
      BY <1>3 DEF RequestType
    <2>2. QED
      BY <1>3, <2>1
  <1>7. ASSUME NEW t \in Named
        PROVE  [request EXCEPT ![s].stage = "building", ![s].thread = t]
                 \in [Slots -> RequestType]
    <2>1. [request[s] EXCEPT !.stage = "building", !.thread = t] \in RequestType
      BY <1>3 DEF RequestType
    <2>2. QED
      BY <1>3, <2>1
  <1>8. ASSUME NEW u \in Unfinished \cup {NoTurn}
        PROVE  [request EXCEPT ![s].stage = "requeueing", ![s].turn = u]
                 \in [Slots -> RequestType]
    <2>1. [request[s] EXCEPT !.stage = "requeueing", !.turn = u] \in RequestType
      BY <1>3 DEF RequestType
    <2>2. QED
      BY <1>3, <2>1
  <1>9. QED
    BY <1>1, <1>4, <1>5, <1>6, <1>7, <1>8

\* The requests keep their types as they move.
LEMMA RequestMoves ==
    ASSUME TypeOK, NEW s \in Slots
    PROVE  /\ \A stage \in Stages : Becomes(s, stage) => request' \in [Slots -> RequestType]
           /\ Returns(s) => request' \in [Slots -> RequestType]
  <1>1. ASSUME NEW stage \in Stages, Becomes(s, stage)
        PROVE  request' \in [Slots -> RequestType]
    BY <1>1, RequestUpdates DEF Becomes
  <1>2. ASSUME Returns(s) PROVE request' \in [Slots -> RequestType]
    BY <1>2, RequestUpdates DEF Returns
  <1>3. QED
    BY <1>1, <1>2

\* A new request.
LEMMA RunningType ==
    ASSUME TypeOK, NEW kind \in StartKinds \cup CommandKinds \cup {"none", "respond", "initialize"},
           NEW stage \in Stages, NEW t \in Named, NEW id \in Nat,
           NEW d \in Decisions \cup Modes \cup {"none"}
    PROVE  Running(kind, stage, t, id, d) \in RequestType
  BY DEF TypeOK, RequestType, Running, Stages

\* An Operation that moves on is an Operation.
LEMMA OperationUpdates ==
    ASSUME TypeOK
    PROVE  /\ NoOperation \in OperationType
           /\ Resumed \in OperationType
           /\ \A stage \in {"none", "reserved", "starting", "dying", "barrier", "running",
                            "asking", "tool", "finishing"} :
                /\ [operation EXCEPT !.stage = stage] \in OperationType
                /\ [Resumed EXCEPT !.stage = stage] \in OperationType
           /\ [operation EXCEPT !.published = TRUE] \in OperationType
           /\ [Resumed EXCEPT !.stage = "tool", !.needs = operation.needs] \in OperationType
           /\ \A c \in KnownCapabilities :
                /\ [operation EXCEPT !.stage = "tool", !.needs = c] \in OperationType
                /\ \A id \in Nat : [operation EXCEPT !.stage = "asking", !.needs = c,
                                            !.question = id] \in OperationType
  <1>1. NoOperation \in OperationType
    BY WorkspaceAssumption DEF OperationType, NoOperation, Named
  <1>2. operation \in OperationType
    BY DEF TypeOK
  <1>3. Resumed \in OperationType
    BY <1>2 DEF OperationType, Resumed, Named
  <1>4. ASSUME NEW o \in OperationType,
               NEW stage \in {"none", "reserved", "starting", "dying", "barrier", "running",
                              "asking", "tool", "finishing"}
        PROVE  [o EXCEPT !.stage = stage] \in OperationType
    BY DEF OperationType
  <1>5. [operation EXCEPT !.published = TRUE] \in OperationType
    BY <1>2 DEF OperationType
  <1>6. [Resumed EXCEPT !.stage = "tool", !.needs = operation.needs] \in OperationType
    BY <1>2, <1>3 DEF OperationType
  <1>7. ASSUME NEW c \in KnownCapabilities
        PROVE  [operation EXCEPT !.stage = "tool", !.needs = c] \in OperationType
    BY <1>2 DEF OperationType
  <1>8. ASSUME NEW c \in KnownCapabilities, NEW id \in Nat
        PROVE  [operation EXCEPT !.stage = "asking", !.needs = c, !.question = id]
                 \in OperationType
    BY <1>2 DEF OperationType
  <1>9. QED
    BY <1>1, <1>2, <1>3, <1>4, <1>5, <1>6, <1>7, <1>8

\* An admitted Operation.
LEMMA ReservedType ==
    ASSUME NEW t \in Named, NEW rt \in 0 .. MaxRuntime, NEW u \in Unfinished \cup {NoTurn}
    PROVE  Reserved(t, rt, u) \in OperationType
  BY WorkspaceAssumption DEF OperationType, Reserved, NoOperation, Named, Decisions

\* The questions that are asked, answered and withdrawn.
LEMMA QuestionUpdates ==
    ASSUME TypeOK
    PROVE  /\ NoQuestion \in QuestionType
           /\ \A q \in QuestionType : Withdrawn(q) \in QuestionType
           /\ \A id : Discarded(id) \in QuestionType
           /\ \A kind \in {"tool_approval", "full_access_confirmation"}, t \in Named,
                 u \in Unfinished \cup {NoTurn} :
                Question(FreshId, kind, t, u) \in QuestionType
           /\ \A u \in Unfinished : RecoveryQuestion(u) \in QuestionType
  BY WorkspaceAssumption, Fresh
  DEF TypeOK, QuestionType, NoQuestion, Withdrawn, Discarded, Question, RecoveryQuestion,
     Named

\* The modes and grants that are given.
LEMMA PermissionUpdates ==
    ASSUME TypeOK, NEW t \in Named
    PROVE  /\ \A mode \in Decisions \cup Modes \cup {"none", "full_access"} :
                Moded(mode, t) \in PermissionType
           /\ \A id \in Nat : [permission EXCEPT !.asked = id] \in PermissionType
           /\ [permission EXCEPT !.network = {}] \in PermissionType
           /\ [permission EXCEPT !.network = @ \ {t}] \in PermissionType
           /\ [permission EXCEPT !.writes = TRUE, !.owner = t] \in PermissionType
           /\ [permission EXCEPT !.network = @ \cup {t}, !.owner = t] \in PermissionType
  BY DEF TypeOK, PermissionType, Moded, FreshPermission, Named, Modes

\* The next recovery question.
LEMMA PresentTypes ==
    ASSUME TypeOK, NEW p \in QuestionType, NEW q \in Seq(Unfinished), NEW blocked,
           PresentNext(p, q, blocked)
    PROVE  pending' \in QuestionType /\ deferred' \in BOOLEAN
  <1>1. ASSUME q # <<>> PROVE RecoveryQuestion(Head(q)) \in QuestionType
    BY <1>1, QuestionUpdates
  <1>2. pending' \in {p, RecoveryQuestion(Head(q))} /\ (pending' = p \/ q # <<>>)
    BY DEF PresentNext
  <1>3. deferred' \in BOOLEAN
    BY DEF PresentNext, TypeOK, AsksHead
  <1>4. QED
    BY <1>1, <1>2, <1>3

\* Every step keeps the types.
LEMMA TypeStep ==
    TypeOK /\ Shaped /\ Driven /\ Queued /\ [Next]_vars => TypeOK'
  <1> SUFFICES ASSUME TypeOK /\ Shaped /\ Driven /\ Queued, [Next]_vars
               PROVE  TypeOK'
    OBVIOUS
  <1> USE WorkspaceAssumption DEF TypeOK, workspace, recovery, vars
  <1>1. ASSUME NEW s \in Slots, SubmitRequest(s) PROVE TypeOK'
    <2>1. Running("start", "checked", selected[runtime], 0, "none") \in RequestType
      BY RunningType DEF Stages, StartKinds
    <2>2. QED
      BY <1>1, <2>1, RequestUpdates, RequestMoves DEF SubmitRequest
  <1>2. ASSUME NEW s \in Slots, NEW kind, NEW t, NEW mode, Commands(s, kind, t, mode)
        PROVE  TypeOK'
    <2>1. ASSUME NEW stage \in {"held", "checked"}
          PROVE  Running(kind, stage, t, 0, mode) \in RequestType
      BY <1>2, <2>1, RunningType DEF Commands, Stages, StartKinds, CommandKinds
    <2>2. QED
      BY <1>2, <2>1, RequestUpdates, RequestMoves DEF Commands, Command
  <1>3. ASSUME NEW s \in Slots, Initialize(s) PROVE TypeOK'
    <2>1. Running("initialize", "flushing", NoThread, 0, "none") \in RequestType
      BY RunningType DEF Stages, Named
    <2>2. request' \in [Slots -> RequestType]
      BY <1>3, <2>1, RequestUpdates DEF Initialize
    <2>3. pending' \in QuestionType /\ deferred' \in BOOLEAN
      BY <1>3, PresentTypes DEF Initialize
    <2>4. QED
      BY <1>3, <2>2, <2>3 DEF Initialize
  <1>4. ASSUME NEW s \in Slots, NEW d \in Decisions, Respond(s, d) PROVE TypeOK'
    <2>1. Running("respond", "checked", selected[runtime], pending.id, d) \in RequestType
      BY RunningType DEF Stages, QuestionType
    <2>2. QED
      BY <1>4, <2>1, RequestUpdates, RequestMoves DEF Respond
  <1>5. ASSUME NEW s \in Slots, Reserve(s) PROVE TypeOK'
    <2>1. request[s].thread \in Named /\ request[s].rt \in 0 .. MaxRuntime
      BY DEF RequestType
    <2>2. Reserved(request[s].thread, request[s].rt, NoTurn) \in OperationType
      BY <2>1, ReservedType
    <2>3. request' \in [Slots -> RequestType]
      BY <1>5, RequestMoves DEF Reserve, Stages
    <2>4. QED
      BY <1>5, <2>2, <2>3 DEF Reserve
  <1>6. ASSUME NEW s \in Slots, StartReserved(s) PROVE TypeOK'
    <2>1. Moded("request_approval", NoThread) \in PermissionType
      BY PermissionUpdates DEF Named, Modes
    <2>2. permission' \in PermissionType
      BY <1>6, <2>1 DEF StartReserved, OnThreadSelected, SetMode
    <2>3. pending' \in QuestionType
      BY <1>6, QuestionUpdates DEF StartReserved, OnThreadSelected
    <2>4. orphaned' \in BOOLEAN
      BY <1>6 DEF StartReserved
    <2>5. QED
      BY <1>6, <2>2, <2>3, <2>4, RequestMoves, OperationUpdates DEF StartReserved,
         Stages
  <1>7. ASSUME NEW s \in Slots, Started(s) PROVE TypeOK'
    BY <1>7, RequestMoves, OperationUpdates DEF Started, Stages
  <1>8. ASSUME NEW s \in Slots, PublishRetry(s) PROVE TypeOK'
    <2>1. request[s].thread \in Named /\ request[s].rt \in 0 .. MaxRuntime
      BY DEF RequestType
    <2>2. selected' \in [0 .. MaxRuntime -> Named]
      BY <1>8, <2>1 DEF PublishRetry
    <2>3. QED
      BY <1>8, <2>2, RequestMoves, OperationUpdates DEF PublishRetry
  <1>9. ASSUME NEW s \in Slots, SelectThread(s) PROVE TypeOK'
    <2>1. request[s].thread \in Named /\ request[s].rt \in 0 .. MaxRuntime
      BY DEF RequestType
    <2>2. selected' \in [0 .. MaxRuntime -> Named]
      BY <1>9, <2>1 DEF SelectThread
    <2>3. permission' \in PermissionType /\ pending' \in QuestionType
      BY <1>9, PermissionUpdates, QuestionUpdates DEF SelectThread, OnThreadSelected,
         SetMode,
         Named, Modes
    <2>4. QED
      BY <1>9, <2>2, <2>3, RequestMoves DEF SelectThread
  <1>10. ASSUME NEW s \in Slots, ChangeMode(s) PROVE TypeOK'
    <2>1. /\ request[s].rt \in 0 .. MaxRuntime
          /\ request[s].decision \in Decisions \cup Modes \cup {"none"}
      BY DEF RequestType
    <2>2. ASSUME NEW t \in Named PROVE Moded(request[s].decision, t) \in PermissionType
      BY <2>1, <2>2, PermissionUpdates
    <2>3. NoThread \in Named /\ selected[request[s].rt] \in Named
      BY <2>1 DEF Named
    <2>4. permission' \in PermissionType
      BY <1>10, <2>2, <2>3 DEF ChangeMode, SetMode
    <2>5. QED
      BY <1>10, <2>4, RequestMoves DEF ChangeMode
  <1>11. ASSUME NEW s \in Slots, AskFullAccess(s) PROVE TypeOK'
    <2>1. FreshId \in Nat /\ request[s].rt \in 0 .. MaxRuntime
      BY Fresh DEF RequestType
    <2>2. ASSUME NEW t \in Named
          PROVE  Question(FreshId, "full_access_confirmation", t, NoTurn) \in QuestionType
      BY <2>2, QuestionUpdates
    <2>3. [permission EXCEPT !.asked = FreshId] \in PermissionType
      BY <2>1, PermissionUpdates DEF Named
    <2>4. [request EXCEPT ![s].stage = "asking", ![s].id = FreshId] \in [Slots -> RequestType]
      BY <2>1, RequestUpdates, RequestMoves
    <2>5. selected[request[s].rt] \in Named
      BY <2>1
    <2>6. QED
      BY <1>11, <2>2, <2>3, <2>4, <2>5, RequestMoves DEF AskFullAccess
  <1>12. ASSUME NEW s \in Slots, FullAccessAsked(s) PROVE TypeOK'
    <2>1. [permission EXCEPT !.asked = 0] \in PermissionType
      BY PermissionUpdates DEF Named
    <2>2. permission' \in PermissionType
      BY <1>12, <2>1 DEF FullAccessAsked
    <2>3. pending' \in QuestionType
      BY <1>12, QuestionUpdates DEF FullAccessAsked
    <2>4. QED
      BY <1>12, <2>2, <2>3, RequestMoves DEF FullAccessAsked
  <1>13. ASSUME NEW s \in Slots, RevokeNetwork(s) PROVE TypeOK'
    <2>1. request[s].rt \in 0 .. MaxRuntime
      BY DEF RequestType
    <2>2. permission' \in PermissionType
      BY <1>13, <2>1, PermissionUpdates DEF RevokeNetwork
    <2>3. QED
      BY <1>13, <2>2, RequestMoves DEF RevokeNetwork
  <1>14. ASSUME NEW s \in Slots, BuildRuntime(s) PROVE TypeOK'
    BY <1>14, RequestUpdates, RequestMoves DEF BuildRuntime
  <1>15. ASSUME NEW s \in Slots, PublishRuntime(s) PROVE TypeOK'
    <2>1. request[s].thread \in Named /\ runtime + 1 \in 0 .. MaxRuntime
      BY <1>15 DEF RequestType, Shaped, PublishRuntime, At
    <2>2. runtime' \in 0 .. MaxRuntime
      BY <1>15, <2>1 DEF PublishRuntime
    <2>3. [selected EXCEPT ![runtime + 1] = request[s].thread] \in [0 .. MaxRuntime -> Named]
      BY <2>1
    <2>4. selected' \in [0 .. MaxRuntime -> Named]
      BY <1>15, <2>3 DEF PublishRuntime
    <2>5. permission' \in PermissionType
      BY <1>15, PermissionUpdates DEF PublishRuntime, Named
    <2>6. QED
      BY <1>15, <2>2, <2>4, <2>5, RequestMoves DEF PublishRuntime
  <1>16. ASSUME NEW s \in Slots, RespondNotFound(s) PROVE TypeOK'
    BY <1>16, RequestMoves DEF RespondNotFound
  <1>17. ASSUME NEW s \in Slots, RespondToolApproval(s) PROVE TypeOK'
    <2>1. /\ request[s].decision \in Decisions \cup Modes \cup {"none"}
          /\ request[s].thread \in Named
      BY DEF RequestType
    <2>2. [pending EXCEPT !.decision = request[s].decision] \in QuestionType
      BY <2>1 DEF QuestionType
    <2>3. [operation EXCEPT !.heard = request[s].decision, !.seen = request[s].thread]
            \in OperationType
      BY <2>1 DEF OperationType
    <2>4. QED
      BY <1>17, <2>2, <2>3, RequestMoves, QuestionUpdates DEF RespondToolApproval
  <1>18. ASSUME NEW s \in Slots, RespondFullAccess(s) PROVE TypeOK'
    <2>1. permission' \in {permission, [permission EXCEPT !.asked = 0]}
      BY <1>18 DEF RespondFullAccess, PermissionType
    <2>2. [permission EXCEPT !.asked = 0] \in PermissionType
      BY PermissionUpdates DEF Named
    <2>3. pending' \in QuestionType /\ request' \in [Slots -> RequestType]
      BY <1>18, RequestMoves, QuestionUpdates DEF RespondFullAccess, Stages
    <2>4. QED
      BY <1>18, <2>1, <2>2, <2>3 DEF RespondFullAccess
  <1>19. ASSUME NEW s \in Slots, EnableFullAccess(s) PROVE TypeOK'
    <2>1. request[s].thread \in Named
      BY DEF RequestType
    <2>2. Moded("full_access", request[s].thread) \in PermissionType
      BY <2>1, PermissionUpdates
    <2>3. QED
      BY <1>19, <2>2, RequestMoves DEF EnableFullAccess, SetMode
  <1>20. ASSUME NEW s \in Slots, RespondAbort(s) PROVE TypeOK'
    BY <1>20, RequestMoves DEF RespondAbort, Stages
  <1>21. ASSUME NEW s \in Slots, RecoveryAborted(s) PROVE TypeOK'
    <2>1. status' \in [Unfinished -> {"in_progress", "settled", "stranded"}]
      BY <1>21 DEF RecoveryAborted
    <2>2. queue # <<>>
      BY <1>21 DEF RecoveryAborted, Queued
    <2>3. queue' \in {queue, Tail(queue)} /\ Tail(queue) \in Seq(Unfinished)
      BY <1>21, <2>2 DEF RecoveryAborted
    <2>4. request' \in [Slots -> RequestType]
      BY <1>21, RequestMoves DEF RecoveryAborted, Stages
    <2>5. /\ pending' \in {pending, Discarded(request[s].id)}
          /\ undelivered' \in {undelivered, TRUE}
      BY <1>21, Zenon DEF RecoveryAborted
    <2>6. QED
      <3>1. /\ queue' \in Seq(Unfinished)
            /\ pending' \in QuestionType
            /\ undelivered' \in BOOLEAN
        BY <2>3, <2>5, QuestionUpdates
      <3>2. QED
        BY <1>21, <2>1, <2>4, <3>1 DEF RecoveryAborted
  <1>22. ASSUME NEW s \in Slots, RespondRetry(s) PROVE TypeOK'
    <2>1. request[s].rt \in 0 .. MaxRuntime
      BY DEF RequestType
    <2>2. Reserved(pending.thread, request[s].rt, pending.turn) \in OperationType
      BY <2>1, ReservedType DEF QuestionType
    <2>3. request' \in [Slots -> RequestType]
      BY <1>22, RequestMoves DEF RespondRetry, Stages
    <2>4. QED
      BY <1>22, <2>2, <2>3 DEF RespondRetry
  <1>23. ASSUME NEW s \in Slots, ClaimRecovery(s) PROVE TypeOK'
    <2>1. request[s].rt \in 0 .. MaxRuntime /\ operation.thread \in Named
      BY DEF RequestType, OperationType
    <2>2. selected' \in [0 .. MaxRuntime -> Named]
      BY <1>23, <2>1 DEF ClaimRecovery
    <2>3. permission' \in PermissionType /\ pending' \in QuestionType
      BY <1>23, PermissionUpdates, QuestionUpdates DEF ClaimRecovery, OnThreadSelected,
         SetMode,
         Named, Modes
    <2>4. queue' \in Seq(Unfinished)
      BY <1>23 DEF ClaimRecovery, Bound
    <2>5. QED
      BY <1>23, <2>2, <2>3, <2>4, RequestMoves, OperationUpdates DEF ClaimRecovery,
         Stages
  <1>24. ASSUME NEW s \in Slots, RecoveryStarted(s) PROVE TypeOK'
    BY <1>24, RequestMoves, OperationUpdates DEF RecoveryStarted, Stages
  <1>25. ASSUME NEW s \in Slots, ResumePublished(s) PROVE TypeOK'
    BY <1>25, RequestMoves, OperationUpdates DEF ResumePublished
  <1>26. ASSUME NEW s \in Slots, Deliver(s) PROVE TypeOK'
    <2>1. pending' \in QuestionType /\ deferred' \in BOOLEAN
      BY <1>26, PresentTypes DEF Deliver
    <2>2. QED
      BY <1>26, <2>1, RequestMoves DEF Deliver
  <1>27. ASSUME NEW s \in Slots, StartFails(s) PROVE TypeOK'
    BY <1>27, RequestMoves, OperationUpdates DEF StartFails
  <1>28. ASSUME NEW s \in Slots, PublishRetryFails(s) PROVE TypeOK'
    BY <1>28, RequestMoves, OperationUpdates DEF PublishRetryFails
  <1>29. ASSUME NEW s \in Slots, CommandFails(s) PROVE TypeOK'
    BY <1>29, RequestMoves DEF CommandFails
  <1>30. ASSUME NEW s \in Slots, RejectRecovery(s) PROVE TypeOK'
    <2>1. queue # <<>>
      BY <1>30 DEF RejectRecovery, Driven, Queued
    <2>2. queue' \in Seq(Unfinished)
      BY <1>30, <2>1 DEF RejectRecovery
    <2>3. Discarded(request[s].id) \in QuestionType
      BY QuestionUpdates
    <2>4. pending' \in QuestionType /\ deferred' \in BOOLEAN
      BY <1>30, <2>2, <2>3, PresentTypes DEF RejectRecovery
    <2>5. QED
      BY <1>30, <2>2, <2>4, RequestMoves, OperationUpdates DEF RejectRecovery
  <1>31. ASSUME NEW s \in Slots, ResumeFails(s) PROVE TypeOK'
    BY <1>31, RequestMoves, OperationUpdates DEF ResumeFails
  <1>32. ASSUME NEW s \in Slots, RecoveryStartFails(s) PROVE TypeOK'
    <2>1. operation.turn \in Unfinished \cup {NoTurn}
      BY DEF OperationType
    <2>2. request' \in [Slots -> RequestType]
      BY <1>32, <2>1, RequestUpdates DEF RecoveryStartFails
    <2>3. QED
      BY <1>32, <2>2, OperationUpdates DEF RecoveryStartFails
  <1>33. ASSUME NEW c \in Capabilities, CallTool(c) PROVE TypeOK'
    <2>1. c \in KnownCapabilities /\ FreshId \in Nat
      BY Fresh
    <2>2. Question(FreshId, "tool_approval", operation.thread, operation.turn) \in QuestionType
      BY QuestionUpdates DEF OperationType
    <2>3. operation' \in {[operation EXCEPT !.stage = "tool", !.needs = c],
                          [operation EXCEPT !.stage = "asking", !.needs = c,
                                            !.question = FreshId]}
      BY <1>33, Zenon DEF CallTool
    <2>4. pending' \in QuestionType
      BY <1>33, <2>2 DEF CallTool
    <2>5. QED
      <3> DEFINE one == [operation EXCEPT !.stage = "tool", !.needs = c]
                 other == [operation EXCEPT !.stage = "asking", !.needs = c,
                                            !.question = FreshId]
      <3>0. one \in OperationType /\ other \in OperationType
        BY <2>1, OperationUpdates, Zenon
      <3> HIDE DEF one, other
      <3>1. operation' \in OperationType
        BY <2>3, <3>0, Zenon DEF one, other
      <3>2. QED
        BY <1>33, <2>4, <3>1 DEF CallTool, OperationFrame
  <1>34. CASE HearDecision
    <2>1. operation.thread \in Named
      BY DEF OperationType
    <2>2. permission' \in PermissionType
      BY <1>34, <2>1, PermissionUpdates DEF HearDecision
    <2>3. QED
      BY <1>34, <2>2, OperationUpdates, QuestionUpdates DEF HearDecision, OperationFrame
  <1>35. CASE ToolEnds
    BY <1>35, OperationUpdates DEF ToolEnds, OperationFrame
  <1>36. CASE RecoveryFinished
    BY <1>36, OperationUpdates, PresentTypes DEF RecoveryFinished, OperationFrame
  <1>37. CASE OperationCancelled
    BY <1>37, OperationUpdates, QuestionUpdates DEF OperationCancelled, Ends,
       OperationFrame
  <1>38. CASE OperationFinishes
    BY <1>38, OperationUpdates DEF OperationFinishes, Ends, OperationFrame
  <1>39. CASE AskFails
    BY <1>39, OperationUpdates, QuestionUpdates DEF AskFails, OperationFrame
  <1>40. CASE BarrierCancelled
    <2>1. ASSUME NEW s \in Slots
          PROVE  [request[s] EXCEPT !.stage = "unowned"] \in RequestType
      BY DEF RequestType
    <2>2. request' \in [Slots -> RequestType]
      BY <1>40, <2>1 DEF BarrierCancelled
    <2>3. QED
      BY <1>40, <2>2, OperationUpdates DEF BarrierCancelled, OperationFrame
  <1>41. CASE StartCancelled
    BY <1>41, OperationUpdates DEF StartCancelled, OperationFrame
  <1>42. CASE UNCHANGED vars
    BY <1>42
  <1>43. ASSUME NEW s \in Slots, RecoveryRequeued(s) PROVE TypeOK'
    <2>1. request[s].turn \in Unfinished
      BY <1>43 DEF RecoveryRequeued, Queued
    <2>2. <<request[s].turn>> \o queue \in Seq(Unfinished)
      BY <2>1
    <2>3. /\ queue' \in Seq(Unfinished) /\ pending' \in QuestionType
          /\ deferred' \in BOOLEAN
      BY <1>43, <2>2, PresentTypes DEF RecoveryRequeued
    <2>4. QED
      BY <1>43, <2>3, RequestMoves DEF RecoveryRequeued
  <1>44. QED
    BY <1>1, <1>2, <1>3, <1>4, <1>5, <1>6, <1>7, <1>8, <1>9, <1>10, <1>11, <1>12, <1>13,
       <1>14, <1>15, <1>16, <1>17, <1>18, <1>19, <1>20, <1>21, <1>22, <1>23, <1>24,
       <1>25, <1>26, <1>27, <1>28, <1>29, <1>30, <1>31, <1>32, <1>33, <1>34, <1>35,
       <1>36, <1>37, <1>38, <1>39, <1>40, <1>41, <1>42, <1>43, Moves DEF SlotMoves,
       RequestStep, RequestFails

------------------------------------------------------------------------------

\* What a request is once it moved on or returned.
LEMMA RequestEffects ==
    ASSUME TypeOK, NEW s \in Slots
    PROVE  /\ \A stage : Becomes(s, stage) =>
                /\ request'[s].stage = stage /\ request'[s].kind = request[s].kind
                /\ request'[s].rt = request[s].rt /\ request'[s].thread = request[s].thread
                /\ request'[s].id = request[s].id /\ request'[s].decision = request[s].decision
                /\ \A r \in Slots \ {s} : request'[r] = request[r]
           /\ Returns(s) =>
                /\ request'[s].stage = "none" /\ request'[s].kind = "none"
                /\ request'[s].id = 0
                /\ \A r \in Slots \ {s} : request'[r] = request[r]
  BY DEF TypeOK, RequestType, Becomes, Returns, NoRequest

\* A slot is taken, asks for full access, builds a runtime, or is to put a Turn
\* back into the queue.
Enters(s, kind, stage, t, id, d) ==
  request' = [request EXCEPT ![s] = Running(kind, stage, t, id, d)]
Asks(s, q) == request' = [request EXCEPT ![s].stage = "asking", ![s].id = q]
Builds(s, t) == request' = [request EXCEPT ![s].stage = "building", ![s].thread = t]
Requeues(s, u) == request' = [request EXCEPT ![s].stage = "requeueing", ![s].turn = u]

\* A free slot, and the request that takes it.
LEMMA NewEffects ==
    ASSUME TypeOK, NEW s \in Slots, Idle(s)
    PROVE  /\ request[s].stage = "none" /\ request[s].kind = "none"
           /\ \A kind, stage, t, id, d : Enters(s, kind, stage, t, id, d) =>
                /\ request'[s].stage = stage /\ request'[s].kind = kind
                /\ request'[s].rt = runtime /\ request'[s].thread = t
                /\ request'[s].id = id /\ request'[s].decision = d
                /\ \A r \in Slots \ {s} : request'[r] = request[r]
  BY DEF TypeOK, Idle, NoRequest, Running, Enters

\* What a command that holds the foreground, or a failed recovery, goes on to.
LEMMA HeldEffects ==
    ASSUME TypeOK, NEW s \in Slots
    PROVE  /\ \A q : Asks(s, q) =>
                /\ request'[s].stage = "asking" /\ request'[s].id = q
                /\ request'[s].kind = request[s].kind
                /\ request'[s].rt = request[s].rt /\ request'[s].thread = request[s].thread
                /\ \A r \in Slots \ {s} : request'[r] = request[r]
           /\ \A t : Builds(s, t) =>
                /\ request'[s].stage = "building" /\ request'[s].thread = t
                /\ request'[s].kind = request[s].kind
                /\ request'[s].rt = request[s].rt /\ request'[s].id = request[s].id
                /\ \A r \in Slots \ {s} : request'[r] = request[r]
           /\ \A u : Requeues(s, u) =>
                /\ request'[s].stage = "requeueing" /\ request'[s].turn = u
                /\ request'[s].kind = request[s].kind /\ request'[s].id = request[s].id
                /\ request'[s].rt = request[s].rt /\ request'[s].thread = request[s].thread
                /\ \A r \in Slots \ {s} : request'[r] = request[r]
  BY DEF TypeOK, RequestType, Asks, Builds, Requeues

\* A retry whose Operation was cancelled goes on without it.
LEMMA BarrierEffects ==
    ASSUME TypeOK, BarrierCancelled
    PROVE  \A s \in Slots :
             /\ request'[s].kind = request[s].kind /\ request'[s].rt = request[s].rt
             /\ request'[s].thread = request[s].thread /\ request'[s].id = request[s].id
             /\ request'[s].turn = request[s].turn
             /\ request[s].stage = "publishing" => request'[s].stage = "unowned"
             /\ request[s].stage # "publishing" => request'[s].stage = request[s].stage
  BY DEF TypeOK, RequestType, BarrierCancelled

\* The Operation moves on, hears a decision, resumes its loop, or is told that
\* the answer was published.
Goes(stage) == operation' = [operation EXCEPT !.stage = stage]
Hears(d, t) == operation' = [operation EXCEPT !.heard = d, !.seen = t]
Published == operation' = [operation EXCEPT !.published = TRUE]
Starts(c) == operation' = [operation EXCEPT !.stage = "tool", !.needs = c]
AsksFor(c, q) ==
  operation' = [operation EXCEPT !.stage = "asking", !.needs = c, !.question = q]
SameWork ==
  /\ operation'.thread = operation.thread /\ operation'.rt = operation.rt
  /\ operation'.turn = operation.turn
SameCall ==
  /\ operation'.needs = operation.needs /\ operation'.question = operation.question

\* What an Operation is once it moved on, heard a decision or called a tool.
LEMMA OperationEffects ==
    ASSUME TypeOK
    PROVE  /\ \A stage : Goes(stage) =>
                /\ operation'.stage = stage /\ SameWork /\ SameCall
                /\ operation'.heard = operation.heard /\ operation'.seen = operation.seen
                /\ operation'.published = operation.published
           /\ \A d, t : Hears(d, t) =>
                /\ operation'.stage = operation.stage /\ SameWork /\ SameCall
                /\ operation'.heard = d /\ operation'.seen = t
                /\ operation'.published = operation.published
           /\ Published =>
                /\ operation'.stage = operation.stage /\ SameWork /\ SameCall
                /\ operation'.heard = operation.heard /\ operation'.seen = operation.seen
                /\ operation'.published
           /\ \A c : Starts(c) =>
                /\ operation'.stage = "tool" /\ SameWork /\ operation'.needs = c
                /\ operation'.question = operation.question
                /\ operation'.heard = operation.heard /\ operation'.seen = operation.seen
                /\ operation'.published = operation.published
           /\ \A c, q : AsksFor(c, q) =>
                /\ operation'.stage = "asking" /\ SameWork /\ operation'.needs = c
                /\ operation'.question = q
                /\ operation'.heard = operation.heard /\ operation'.seen = operation.seen
                /\ operation'.published = operation.published
  <1> operation \in OperationType
    BY DEF TypeOK
  <1> QED
    BY DEF OperationType, Goes, Hears, Published, Starts, AsksFor, SameWork, SameCall

\* What a tool call leaves of the Operation
Continues(stage) ==
  /\ operation'.stage = stage /\ operation'.thread = operation.thread
  /\ operation'.rt = operation.rt /\ operation'.turn = operation.turn
  /\ operation'.question = 0 /\ operation'.heard = "none"
  /\ operation'.published = operation.published

\* An Operation that ended its call or its question has no question left.
LEMMA CallEffects ==
    ASSUME TypeOK
    PROVE  /\ operation' = Resumed => Continues("running")
           /\ operation' = [Resumed EXCEPT !.stage = "finishing"] => Continues("finishing")
           /\ operation' = [Resumed EXCEPT !.stage = "tool", !.needs = operation.needs] =>
                Continues("tool") /\ operation'.needs = operation.needs
  <1> operation \in OperationType
    BY DEF TypeOK
  <1> QED
    BY DEF OperationType, Resumed, Continues

\* An Operation as it is admitted.
LEMMA ReservedEffects ==
    \A t, rt, u :
      /\ Reserved(t, rt, u).stage = "reserved" /\ Reserved(t, rt, u).thread = t
      /\ Reserved(t, rt, u).rt = rt /\ Reserved(t, rt, u).turn = u
      /\ Reserved(t, rt, u).question = 0 /\ Reserved(t, rt, u).heard = "none"
      /\ u = NoTurn => Reserved(t, rt, u).published
      /\ u # NoTurn => ~Reserved(t, rt, u).published
  <1> SUFFICES ASSUME NEW t, NEW rt, NEW u
               PROVE  /\ Reserved(t, rt, u).stage = "reserved" /\ Reserved(t, rt, u).thread = t
                      /\ Reserved(t, rt, u).rt = rt /\ Reserved(t, rt, u).turn = u
                      /\ Reserved(t, rt, u).question = 0 /\ Reserved(t, rt, u).heard = "none"
                      /\ u = NoTurn => Reserved(t, rt, u).published
                      /\ u # NoTurn => ~Reserved(t, rt, u).published
    OBVIOUS
  <1>1. Reserved(t, rt, u).published = (u = NoTurn)
    BY DEF Reserved, NoOperation
  <1>2. (u = NoTurn => Reserved(t, rt, u).published)
        /\ (u # NoTurn => ~Reserved(t, rt, u).published)
    BY <1>1, Zenon
  <1>3. QED
    BY <1>2 DEF Reserved, NoOperation

\* The foreground without an Operation.
LEMMA NoOperationIs ==
    /\ NoOperation.stage = "none" /\ NoOperation.turn = NoTurn /\ NoOperation.question = 0
    /\ NoOperation.heard = "none" /\ NoOperation.published
  BY DEF NoOperation

\* When the foreground is free, no request drives an Operation or holds it.
LEMMA Freed ==
    ASSUME Driven, ForegroundFree
    PROVE  \A s \in Slots : ~Busy(s)
  BY DEF Driven, ForegroundFree, Busy, Drives

\* Every step keeps the shape of the requests.
LEMMA ShapedStep ==
    TypeOK /\ Shaped /\ Alone /\ [Next]_vars => Shaped'
  <1> SUFFICES ASSUME TypeOK /\ Shaped /\ Alone, [Next]_vars
               PROVE  Shaped'
    OBVIOUS
  <1> USE WorkspaceAssumption DEF Shaped, StartKinds, CommandKinds, workspace, vars
  <1>1. ASSUME NEW s \in Slots, SubmitRequest(s) PROVE Shaped'
    <2>1. Enters(s, "start", "checked", selected[runtime], 0, "none") /\ UNCHANGED operation
      BY <1>1 DEF Enters, SubmitRequest, workspace, recovery
    <2>2. QED
      BY <1>1, <2>1, NewEffects DEF SubmitRequest, TypeOK, Named
  <1>2. ASSUME NEW s \in Slots, NEW kind, NEW t, NEW mode, Commands(s, kind, t, mode)
        PROVE  Shaped'
    <2>1. PICK stage \in {"checked", "held"} :
               /\ Enters(s, kind, stage, t, 0, mode)
               /\ kind = "retry" <=> stage = "checked"
      BY <1>2 DEF Command, Commands, Enters
    <2>2. QED
      BY <1>2, <2>1, NewEffects DEF Command, Commands
  <1>3. ASSUME NEW s \in Slots, Initialize(s) PROVE Shaped'
    <2>1. CASE /\ Enters(s, "initialize", "flushing", NoThread, 0, "none")
               /\ UNCHANGED operation
      BY <1>3, <2>1, NewEffects DEF Initialize
    <2>2. CASE UNCHANGED request /\ UNCHANGED operation
      BY <1>3, <2>2 DEF Initialize
    <2>3. QED
      BY <1>3, <2>1, <2>2 DEF Enters, Initialize, workspace, recovery
  <1>4. ASSUME NEW s \in Slots, NEW d \in Decisions, Respond(s, d) PROVE Shaped'
    <2>1. /\ Enters(s, "respond", "checked", selected[runtime], pending.id, d)
          /\ UNCHANGED operation
      BY <1>4 DEF Enters, Respond, workspace, recovery
    <2>2. QED
      BY <1>4, <2>1, NewEffects DEF Respond
  <1>5. ASSUME NEW s \in Slots, Reserve(s) PROVE Shaped'
    <2>1. CASE /\ Becomes(s, "reserved")
               /\ operation' = Reserved(request[s].thread, request[s].rt, NoTurn)
      BY <1>5, <2>1, RequestEffects DEF Reserve, At
    <2>2. CASE Returns(s) /\ UNCHANGED operation
      BY <1>5, <2>2, RequestEffects DEF Reserve, At
    <2>3. QED
      BY <1>5, <2>1, <2>2 DEF At, Reserve, workspace, recovery
  <1>6. ASSUME NEW s \in Slots, StartReserved(s) PROVE Shaped'
    <2>1. Becomes(s, "starting") /\ Goes("starting")
      BY <1>6 DEF At, Goes, StartReserved, workspace, recovery
    <2>2. QED
      BY <1>6, <2>1, RequestEffects DEF StartReserved, At
  <1>7. ASSUME NEW s \in Slots, Started(s) PROVE Shaped'
    <2>1. CASE Becomes(s, "publishing") /\ UNCHANGED operation
      BY <1>7, <2>1, RequestEffects DEF Started, At
    <2>2. CASE Becomes(s, "publishing") /\ Goes("barrier")
      BY <1>7, <2>2, RequestEffects DEF Started, At
    <2>3. CASE Returns(s) /\ UNCHANGED operation
      BY <1>7, <2>3, RequestEffects DEF Started, At
    <2>4. CASE Returns(s) /\ Goes("running")
      BY <1>7, <2>4, RequestEffects DEF Started, At
    <2>5. QED
      BY <1>7, <2>1, <2>2, <2>3, <2>4 DEF At, Goes, Started, workspace, recovery
  <1>8. ASSUME NEW s \in Slots, PublishRetry(s) PROVE Shaped'
    <2>1. CASE Returns(s) /\ Goes("running")
      BY <1>8, <2>1, RequestEffects DEF PublishRetry, At
    <2>2. CASE Returns(s) /\ UNCHANGED operation
      BY <1>8, <2>2, RequestEffects DEF PublishRetry, At
    <2>3. QED
      BY <1>8, <2>1, <2>2 DEF At, Goes, PublishRetry, workspace, recovery
  <1>9. ASSUME NEW s \in Slots, SelectThread(s) PROVE Shaped'
    <2>1. Returns(s) /\ UNCHANGED operation
      BY <1>9 DEF At, SelectThread, workspace, recovery
    <2>2. QED
      BY <1>9, <2>1, RequestEffects DEF SelectThread, At
  <1>10. ASSUME NEW s \in Slots, ChangeMode(s) PROVE Shaped'
    <2>1. Returns(s) /\ UNCHANGED operation
      BY <1>10 DEF At, ChangeMode, workspace, recovery
    <2>2. QED
      BY <1>10, <2>1, RequestEffects DEF ChangeMode, At
  <1>11. ASSUME NEW s \in Slots, AskFullAccess(s) PROVE Shaped'
    <2>1. CASE Asks(s, FreshId) /\ UNCHANGED operation
      BY <1>11, <2>1, HeldEffects DEF AskFullAccess, At
    <2>2. CASE Returns(s) /\ UNCHANGED operation
      BY <1>11, <2>2, RequestEffects DEF AskFullAccess, At
    <2>3. QED
      BY <1>11, <2>1, <2>2 DEF AskFullAccess, Asks, At, workspace, recovery
  <1>12. ASSUME NEW s \in Slots, FullAccessAsked(s) PROVE Shaped'
    <2>1. Returns(s) /\ UNCHANGED operation
      BY <1>12 DEF At, FullAccessAsked, workspace, recovery
    <2>2. QED
      BY <1>12, <2>1, RequestEffects DEF FullAccessAsked, At
  <1>13. ASSUME NEW s \in Slots, RevokeNetwork(s) PROVE Shaped'
    <2>1. Returns(s) /\ UNCHANGED operation
      BY <1>13 DEF At, RevokeNetwork, workspace, recovery
    <2>2. QED
      BY <1>13, <2>1, RequestEffects DEF RevokeNetwork, At
  <1>14. ASSUME NEW s \in Slots, BuildRuntime(s) PROVE Shaped'
    <2>1. /\ Builds(s, selected[runtime])
          /\ UNCHANGED operation
          /\ request[s].kind = "publish"
          /\ request[s].stage = "held"
          /\ UNCHANGED <<runtime, selected, permission, pending, queue, status, undelivered,
                         deferred, orphaned>>
      BY <1>14 DEF At, BuildRuntime, Builds, workspace, recovery
    <2>2. QED
      BY <2>1, HeldEffects
  <1>15. ASSUME NEW s \in Slots, PublishRuntime(s) PROVE Shaped'
    <2>1. Returns(s) /\ UNCHANGED operation
      BY <1>15 DEF At, PublishRuntime, workspace, recovery
    <2>2. QED
      BY <1>15, <2>1, RequestEffects DEF PublishRuntime, At, Alone, Busy, HoldsExclusive
  <1>16. ASSUME NEW s \in Slots, RespondNotFound(s) PROVE Shaped'
    <2>1. Returns(s) /\ UNCHANGED operation
      BY <1>16 DEF At, RespondNotFound, workspace, recovery
    <2>2. QED
      BY <1>16, <2>1, RequestEffects DEF RespondNotFound, At
  <1>17. ASSUME NEW s \in Slots, RespondToolApproval(s) PROVE Shaped'
    <2>1. CASE Returns(s) /\ Hears(request[s].decision, request[s].thread)
      BY <1>17, <2>1, RequestEffects DEF RespondToolApproval, At, Answering
    <2>2. CASE Returns(s) /\ UNCHANGED operation
      BY <1>17, <2>2, RequestEffects DEF RespondToolApproval, At, Answering
    <2>3. QED
      BY <1>17, <2>1, <2>2 DEF Answering, At, Hears, RespondToolApproval, workspace,
         recovery
  <1>18. ASSUME NEW s \in Slots, RespondFullAccess(s) PROVE Shaped'
    <2>1. CASE Becomes(s, "acknowledged") /\ UNCHANGED operation
      BY <1>18, <2>1, RequestEffects DEF RespondFullAccess, At, Answering
    <2>2. CASE Returns(s) /\ UNCHANGED operation
      BY <1>18, <2>2, RequestEffects DEF RespondFullAccess, At, Answering
    <2>3. QED
      BY <1>18, <2>1, <2>2 DEF Answering, At, RespondFullAccess, workspace, recovery
  <1>19. ASSUME NEW s \in Slots, EnableFullAccess(s) PROVE Shaped'
    <2>1. Returns(s) /\ UNCHANGED operation
      BY <1>19 DEF At, EnableFullAccess, workspace, recovery
    <2>2. QED
      BY <1>19, <2>1, RequestEffects DEF EnableFullAccess, At
  <1>20. ASSUME NEW s \in Slots, RespondAbort(s) PROVE Shaped'
    <2>1. CASE Becomes(s, "aborting") /\ UNCHANGED operation
      BY <1>20, <2>1, RequestEffects DEF RespondAbort, At, Answering
    <2>2. CASE Returns(s) /\ UNCHANGED operation
      BY <1>20, <2>2, RequestEffects DEF RespondAbort, At, Answering
    <2>3. QED
      BY <1>20, <2>1, <2>2 DEF Answering, At, RespondAbort, workspace, recovery
  <1>21. ASSUME NEW s \in Slots, RecoveryAborted(s) PROVE Shaped'
    <2>1. CASE Becomes(s, "aborted") /\ UNCHANGED operation
      BY <1>21, <2>1, RequestEffects DEF RecoveryAborted, At
    <2>2. CASE Returns(s) /\ UNCHANGED operation
      BY <1>21, <2>2, RequestEffects DEF RecoveryAborted, At
    <2>3. QED
      BY <1>21, <2>1, <2>2 DEF At, RecoveryAborted, workspace, recovery
  <1>22. ASSUME NEW s \in Slots, RespondRetry(s) PROVE Shaped'
    <2>1. CASE /\ Becomes(s, "resuming")
               /\ operation' = Reserved(pending.thread, request[s].rt, pending.turn)
      BY <1>22, <2>1, RequestEffects DEF RespondRetry, At, Answering
    <2>2. CASE Returns(s) /\ UNCHANGED operation
      BY <1>22, <2>2, RequestEffects DEF RespondRetry, At, Answering
    <2>3. QED
      BY <1>22, <2>1, <2>2 DEF Answering, At, RespondRetry, workspace, recovery
  <1>23. ASSUME NEW s \in Slots, ClaimRecovery(s) PROVE Shaped'
    <2>1. /\ Becomes(s, "starting_recovery") /\ UNCHANGED runtime
          /\ request[s].stage = "resuming"
      BY <1>23 DEF ClaimRecovery
    <2>2. QED
      BY <2>1, RequestEffects
  <1>24. ASSUME NEW s \in Slots, RecoveryStarted(s) PROVE Shaped'
    <2>1. CASE Becomes(s, "resumed") /\ UNCHANGED operation
      BY <1>24, <2>1, RequestEffects DEF RecoveryStarted, At
    <2>2. CASE Becomes(s, "resumed") /\ Goes("running")
      BY <1>24, <2>2, RequestEffects DEF RecoveryStarted, At
    <2>3. QED
      BY <1>24, <2>1, <2>2 DEF At, Goes, RecoveryStarted, workspace, recovery
  <1>25. ASSUME NEW s \in Slots, ResumePublished(s) PROVE Shaped'
    <2>1. Returns(s) /\ Published
      BY <1>25 DEF At, Published, ResumePublished, workspace, recovery
    <2>2. QED
      BY <1>25, <2>1, RequestEffects DEF ResumePublished, At
  <1>26. ASSUME NEW s \in Slots, Deliver(s) PROVE Shaped'
    <2>1. Returns(s) /\ UNCHANGED operation
      BY <1>26 DEF At, Deliver, workspace, recovery
    <2>2. QED
      BY <1>26, <2>1, RequestEffects DEF Deliver, At
  <1>27. ASSUME NEW s \in Slots, StartFails(s) PROVE Shaped'
    <2>1. Returns(s) /\ operation' = NoOperation
      BY <1>27 DEF At, StartFails, workspace, recovery
    <2>2. QED
      BY <1>27, <2>1, RequestEffects, NoOperationIs DEF StartFails, At
  <1>28. ASSUME NEW s \in Slots, PublishRetryFails(s) PROVE Shaped'
    <2>1. CASE Returns(s) /\ operation' = NoOperation
      BY <1>28, <2>1, RequestEffects, NoOperationIs DEF PublishRetryFails, At
    <2>2. CASE Returns(s) /\ UNCHANGED operation
      BY <1>28, <2>2, RequestEffects DEF PublishRetryFails, At
    <2>3. QED
      BY <1>28, <2>1, <2>2 DEF At, PublishRetryFails, workspace, recovery
  <1>29. ASSUME NEW s \in Slots, CommandFails(s) PROVE Shaped'
    <2>1. Returns(s) /\ UNCHANGED operation
      BY <1>29 DEF At, CommandFails, workspace, recovery
    <2>2. QED
      BY <1>29, <2>1, RequestEffects DEF CommandFails, At
  <1>30. ASSUME NEW s \in Slots, RejectRecovery(s) PROVE Shaped'
    <2>1. Returns(s) /\ operation' = NoOperation
      BY <1>30 DEF At, RejectRecovery, workspace, recovery
    <2>2. QED
      BY <1>30, <2>1, RequestEffects, NoOperationIs DEF RejectRecovery, At
  <1>31. ASSUME NEW s \in Slots, ResumeFails(s) PROVE Shaped'
    <2>1. Returns(s) /\ operation' = NoOperation
      BY <1>31 DEF At, ResumeFails, workspace, recovery
    <2>2. QED
      BY <1>31, <2>1, RequestEffects, NoOperationIs DEF ResumeFails, At
  <1>32. ASSUME NEW s \in Slots, RecoveryStartFails(s) PROVE Shaped'
    <2>1. /\ request[s].stage = "starting_recovery"
          /\ Requeues(s, operation.turn) /\ operation' = NoOperation
          /\ UNCHANGED <<runtime, selected>>
      BY <1>32 DEF RecoveryStartFails, Requeues, workspace
    <2>2. /\ request'[s].stage = "requeueing" /\ request'[s].kind = request[s].kind
          /\ request'[s].rt = request[s].rt /\ request'[s].thread = request[s].thread
          /\ request'[s].id = request[s].id /\ request'[s].turn = operation.turn
          /\ \A r \in Slots \ {s} : request'[r] = request[r]
      BY <2>1, HeldEffects
    <2>3. QED
      BY <2>1, <2>2, NoOperationIs
  <1>33. ASSUME NEW c \in Capabilities, CallTool(c) PROVE Shaped'
    <2>1. CASE UNCHANGED request /\ Starts(c)
      BY <1>33, <2>1 DEF CallTool, OperationFrame
    <2>2. CASE UNCHANGED request /\ AsksFor(c, FreshId)
      BY <1>33, <2>2 DEF CallTool, OperationFrame
    <2>3. QED
      BY <1>33, <2>1, <2>2 DEF AsksFor, CallTool, OperationFrame, Starts, workspace,
         recovery
  <1>34. CASE HearDecision
    <2>1. CASE UNCHANGED request /\ operation' = Resumed
      BY <1>34, <2>1 DEF HearDecision, OperationFrame
    <2>2. CASE /\ UNCHANGED request
               /\ operation' = [Resumed EXCEPT !.stage = "tool", !.needs = operation.needs]
      BY <1>34, <2>2 DEF HearDecision, OperationFrame
    <2>3. QED
      BY <1>34, <2>1, <2>2 DEF HearDecision, OperationFrame, workspace, recovery
  <1>35. CASE ToolEnds
    <2>1. UNCHANGED request /\ operation' = Resumed
      BY <1>35 DEF OperationFrame, ToolEnds, workspace, recovery
    <2>2. QED
      BY <1>35, <2>1 DEF ToolEnds, OperationFrame
  <1>36. CASE RecoveryFinished
    <2>1. UNCHANGED request /\ operation' = NoOperation
      BY <1>36 DEF OperationFrame, RecoveryFinished, workspace, recovery
    <2>2. QED
      BY <1>36, <2>1, NoOperationIs DEF RecoveryFinished, OperationFrame
  <1>37. CASE OperationCancelled
    <2>1. CASE UNCHANGED request /\ operation' = NoOperation
      BY <1>37, <2>1, NoOperationIs DEF OperationCancelled, OperationFrame, Ends
    <2>2. CASE UNCHANGED request /\ operation' = [Resumed EXCEPT !.stage = "finishing"]
      BY <1>37, <2>2 DEF OperationCancelled, OperationFrame, Ends
    <2>3. QED
      BY <1>37, <2>1, <2>2 DEF Ends, OperationCancelled, OperationFrame, workspace,
         recovery
  <1>38. CASE OperationFinishes
    <2>1. CASE UNCHANGED request /\ operation' = NoOperation
      BY <1>38, <2>1, NoOperationIs DEF OperationFinishes, OperationFrame, Ends
    <2>2. CASE UNCHANGED request /\ operation' = [Resumed EXCEPT !.stage = "finishing"]
      BY <1>38, <2>2 DEF OperationFinishes, OperationFrame, Ends
    <2>3. QED
      BY <1>38, <2>1, <2>2 DEF Ends, OperationFinishes, OperationFrame, workspace,
         recovery
  <1>39. CASE AskFails
    <2>1. UNCHANGED request /\ operation' = Resumed
      BY <1>39 DEF AskFails, OperationFrame, workspace, recovery
    <2>2. QED
      BY <1>39, <2>1 DEF AskFails, OperationFrame
  <1>40. CASE BarrierCancelled
    <2>1. operation' = NoOperation
      BY <1>40 DEF BarrierCancelled, OperationFrame, workspace, recovery
    <2>2. QED
      BY <1>40, <2>1, BarrierEffects, NoOperationIs DEF BarrierCancelled, OperationFrame
  <1>41. CASE StartCancelled
    <2>1. UNCHANGED request /\ Goes("dying")
      BY <1>41 DEF Goes, OperationFrame, StartCancelled, workspace, recovery
    <2>2. QED
      BY <1>41, <2>1 DEF StartCancelled, OperationFrame
  <1>42. CASE UNCHANGED vars
    BY <1>42
  <1>43. ASSUME NEW s \in Slots, RecoveryRequeued(s) PROVE Shaped'
    <2>1. Returns(s) /\ UNCHANGED operation
      BY <1>43 DEF RecoveryRequeued, workspace, recovery
    <2>2. QED
      BY <1>43, <2>1, RequestEffects DEF RecoveryRequeued, At
  <1>44. QED
    BY <1>1, <1>2, <1>3, <1>4, <1>5, <1>6, <1>7, <1>8, <1>9, <1>10, <1>11, <1>12, <1>13,
       <1>14, <1>15, <1>16, <1>17, <1>18, <1>19, <1>20, <1>21, <1>22, <1>23, <1>24,
       <1>25, <1>26, <1>27, <1>28, <1>29, <1>30, <1>31, <1>32, <1>33, <1>34, <1>35,
       <1>36, <1>37, <1>38, <1>39, <1>40, <1>41, <1>42, <1>43, Moves DEF SlotMoves,
       RequestStep, RequestFails

------------------------------------------------------------------------------

\* Every step keeps the foreground and the bootstrap lock in one hand.
LEMMA AloneStep ==
    TypeOK /\ Shaped /\ Alone /\ Driven /\ [Next]_vars => Alone'
  <1> SUFFICES ASSUME TypeOK /\ Shaped /\ Alone /\ Driven, [Next]_vars
               PROVE  Alone'
    OBVIOUS
  <1> USE WorkspaceAssumption DEF Alone, Busy, Drives, Deciding, HoldsExclusive,
     StartKinds, CommandKinds, vars
  <1>1. ASSUME NEW s \in Slots, SubmitRequest(s) PROVE Alone'
    <2>1. Enters(s, "start", "checked", selected[runtime], 0, "none") /\ UNCHANGED operation
      BY <1>1 DEF Enters, SubmitRequest, workspace, recovery
    <2>2. QED
      BY <1>1, <2>1, NewEffects DEF SubmitRequest
  <1>2. ASSUME NEW s \in Slots, NEW kind, NEW t, NEW mode, Commands(s, kind, t, mode)
        PROVE  Alone'
    <2>1. PICK stage \in {"checked", "held"} :
               /\ Enters(s, kind, stage, t, 0, mode)
               /\ kind = "retry" <=> stage = "checked"
      BY <1>2 DEF Command, Commands, Enters
    <2>2. QED
      BY <1>2, <2>1, NewEffects, Freed DEF Command, Commands
  <1>3. ASSUME NEW s \in Slots, Initialize(s) PROVE Alone'
    <2>1. CASE /\ Enters(s, "initialize", "flushing", NoThread, 0, "none")
               /\ UNCHANGED operation
      BY <1>3, <2>1, NewEffects DEF Initialize, BootstrapFree
    <2>2. CASE UNCHANGED request /\ UNCHANGED operation
      BY <1>3, <2>2 DEF Initialize, BootstrapFree
    <2>3. QED
      BY <1>3, <2>1, <2>2 DEF Enters, Initialize, workspace, recovery
  <1>4. ASSUME NEW s \in Slots, NEW d \in Decisions, Respond(s, d) PROVE Alone'
    <2>1. /\ Enters(s, "respond", "checked", selected[runtime], pending.id, d)
          /\ UNCHANGED operation
      BY <1>4 DEF Enters, Respond, workspace, recovery
    <2>2. QED
      BY <1>4, <2>1, NewEffects DEF Respond
  <1>5. ASSUME NEW s \in Slots, Reserve(s) PROVE Alone'
    <2>1. CASE /\ Becomes(s, "reserved")
               /\ operation' = Reserved(request[s].thread, request[s].rt, NoTurn)
      BY <1>5, <2>1, RequestEffects, Freed DEF Reserve, At
    <2>2. CASE Returns(s) /\ UNCHANGED operation
      BY <1>5, <2>2, RequestEffects, Freed DEF Reserve, At
    <2>3. QED
      BY <1>5, <2>1, <2>2 DEF At, Reserve, workspace, recovery
  <1>6. ASSUME NEW s \in Slots, StartReserved(s) PROVE Alone'
    <2>1. Becomes(s, "starting") /\ Goes("starting")
      BY <1>6 DEF At, Goes, StartReserved, workspace, recovery
    <2>2. QED
      BY <1>6, <2>1, RequestEffects DEF StartReserved, At
  <1>7. ASSUME NEW s \in Slots, Started(s) PROVE Alone'
    <2>1. CASE Becomes(s, "publishing") /\ UNCHANGED operation
      BY <1>7, <2>1, RequestEffects DEF Started, At
    <2>2. CASE Becomes(s, "publishing") /\ Goes("barrier")
      BY <1>7, <2>2, RequestEffects DEF Started, At
    <2>3. CASE Returns(s) /\ UNCHANGED operation
      BY <1>7, <2>3, RequestEffects DEF Started, At
    <2>4. CASE Returns(s) /\ Goes("running")
      BY <1>7, <2>4, RequestEffects DEF Started, At
    <2>5. QED
      BY <1>7, <2>1, <2>2, <2>3, <2>4 DEF At, Goes, Started, workspace, recovery
  <1>8. ASSUME NEW s \in Slots, PublishRetry(s) PROVE Alone'
    <2>1. CASE Returns(s) /\ Goes("running")
      BY <1>8, <2>1, RequestEffects DEF PublishRetry, At
    <2>2. CASE Returns(s) /\ UNCHANGED operation
      BY <1>8, <2>2, RequestEffects DEF PublishRetry, At
    <2>3. QED
      BY <1>8, <2>1, <2>2 DEF At, Goes, PublishRetry, workspace, recovery
  <1>9. ASSUME NEW s \in Slots, SelectThread(s) PROVE Alone'
    <2>1. Returns(s) /\ UNCHANGED operation
      BY <1>9 DEF At, SelectThread, workspace, recovery
    <2>2. QED
      BY <1>9, <2>1, RequestEffects DEF SelectThread, At
  <1>10. ASSUME NEW s \in Slots, ChangeMode(s) PROVE Alone'
    <2>1. Returns(s) /\ UNCHANGED operation
      BY <1>10 DEF At, ChangeMode, workspace, recovery
    <2>2. QED
      BY <1>10, <2>1, RequestEffects DEF ChangeMode, At
  <1>11. ASSUME NEW s \in Slots, AskFullAccess(s) PROVE Alone'
    <2>1. CASE Asks(s, FreshId) /\ UNCHANGED operation
      BY <1>11, <2>1, HeldEffects DEF AskFullAccess, At
    <2>2. CASE Returns(s) /\ UNCHANGED operation
      BY <1>11, <2>2, RequestEffects DEF AskFullAccess, At
    <2>3. QED
      BY <1>11, <2>1, <2>2 DEF AskFullAccess, Asks, At, workspace, recovery
  <1>12. ASSUME NEW s \in Slots, FullAccessAsked(s) PROVE Alone'
    <2>1. Returns(s) /\ UNCHANGED operation
      BY <1>12 DEF At, FullAccessAsked, workspace, recovery
    <2>2. QED
      BY <1>12, <2>1, RequestEffects DEF FullAccessAsked, At
  <1>13. ASSUME NEW s \in Slots, RevokeNetwork(s) PROVE Alone'
    <2>1. Returns(s) /\ UNCHANGED operation
      BY <1>13 DEF At, RevokeNetwork, workspace, recovery
    <2>2. QED
      BY <1>13, <2>1, RequestEffects DEF RevokeNetwork, At
  <1>14. ASSUME NEW s \in Slots, BuildRuntime(s) PROVE Alone'
    <2>1. /\ Builds(s, selected[runtime])
          /\ UNCHANGED operation
          /\ request[s].kind = "publish"
          /\ request[s].stage = "held"
          /\ UNCHANGED <<runtime, selected, permission, pending, queue, status, undelivered,
                         deferred, orphaned>>
      BY <1>14 DEF At, BuildRuntime, Builds, workspace, recovery
    <2>2. QED
      BY <2>1, HeldEffects
  <1>15. ASSUME NEW s \in Slots, PublishRuntime(s) PROVE Alone'
    <2>1. Returns(s) /\ UNCHANGED operation
      BY <1>15 DEF At, PublishRuntime, workspace, recovery
    <2>2. QED
      BY <1>15, <2>1, RequestEffects DEF PublishRuntime, At
  <1>16. ASSUME NEW s \in Slots, RespondNotFound(s) PROVE Alone'
    <2>1. Returns(s) /\ UNCHANGED operation
      BY <1>16 DEF At, RespondNotFound, workspace, recovery
    <2>2. QED
      BY <1>16, <2>1, RequestEffects DEF RespondNotFound, At
  <1>17. ASSUME NEW s \in Slots, RespondToolApproval(s) PROVE Alone'
    <2>1. CASE Returns(s) /\ Hears(request[s].decision, request[s].thread)
      BY <1>17, <2>1, RequestEffects DEF RespondToolApproval, At, Answering
    <2>2. CASE Returns(s) /\ UNCHANGED operation
      BY <1>17, <2>2, RequestEffects DEF RespondToolApproval, At, Answering
    <2>3. QED
      BY <1>17, <2>1, <2>2 DEF Answering, At, Hears, RespondToolApproval, workspace,
         recovery
  <1>18. ASSUME NEW s \in Slots, RespondFullAccess(s) PROVE Alone'
    <2>1. CASE Becomes(s, "acknowledged") /\ UNCHANGED operation
      BY <1>18, <2>1, RequestEffects, Freed DEF RespondFullAccess, At, Answering
    <2>2. CASE Returns(s) /\ UNCHANGED operation
      BY <1>18, <2>2, RequestEffects, Freed DEF RespondFullAccess, At, Answering
    <2>3. QED
      BY <1>18, <2>1, <2>2 DEF Answering, At, RespondFullAccess, workspace, recovery
  <1>19. ASSUME NEW s \in Slots, EnableFullAccess(s) PROVE Alone'
    <2>1. Returns(s) /\ UNCHANGED operation
      BY <1>19 DEF At, EnableFullAccess, workspace, recovery
    <2>2. QED
      BY <1>19, <2>1, RequestEffects DEF EnableFullAccess, At
  <1>20. ASSUME NEW s \in Slots, RespondAbort(s) PROVE Alone'
    <2>1. CASE Becomes(s, "aborting") /\ UNCHANGED operation
      BY <1>20, <2>1, RequestEffects, Freed DEF RespondAbort, At, Answering,
         BootstrapFree
    <2>2. CASE Returns(s) /\ UNCHANGED operation
      BY <1>20, <2>2, RequestEffects, Freed DEF RespondAbort, At, Answering,
         BootstrapFree
    <2>3. QED
      BY <1>20, <2>1, <2>2 DEF Answering, At, RespondAbort, workspace, recovery
  <1>21. ASSUME NEW s \in Slots, RecoveryAborted(s) PROVE Alone'
    <2>1. CASE Becomes(s, "aborted") /\ UNCHANGED operation
      BY <1>21, <2>1, RequestEffects DEF RecoveryAborted, At
    <2>2. CASE Returns(s) /\ UNCHANGED operation
      BY <1>21, <2>2, RequestEffects DEF RecoveryAborted, At
    <2>3. QED
      BY <1>21, <2>1, <2>2 DEF At, RecoveryAborted, workspace, recovery
  <1>22. ASSUME NEW s \in Slots, RespondRetry(s) PROVE Alone'
    <2>1. CASE /\ Becomes(s, "resuming")
               /\ operation' = Reserved(pending.thread, request[s].rt, pending.turn)
      BY <1>22, <2>1, RequestEffects, Freed DEF RespondRetry, At, Answering,
         BootstrapFree
    <2>2. CASE Returns(s) /\ UNCHANGED operation
      BY <1>22, <2>2, RequestEffects, Freed DEF RespondRetry, At, Answering,
         BootstrapFree
    <2>3. QED
      BY <1>22, <2>1, <2>2 DEF Answering, At, RespondRetry, workspace, recovery
  <1>23. ASSUME NEW s \in Slots, ClaimRecovery(s) PROVE Alone'
    <2>1. Becomes(s, "starting_recovery") /\ Goes("starting")
      BY <1>23 DEF At, ClaimRecovery, Goes, workspace, recovery
    <2>2. QED
      BY <1>23, <2>1, RequestEffects DEF ClaimRecovery, At
  <1>24. ASSUME NEW s \in Slots, RecoveryStarted(s) PROVE Alone'
    <2>1. CASE Becomes(s, "resumed") /\ UNCHANGED operation
      BY <1>24, <2>1, RequestEffects DEF RecoveryStarted, At
    <2>2. CASE Becomes(s, "resumed") /\ Goes("running")
      BY <1>24, <2>2, RequestEffects DEF RecoveryStarted, At
    <2>3. QED
      BY <1>24, <2>1, <2>2 DEF At, Goes, RecoveryStarted, workspace, recovery
  <1>25. ASSUME NEW s \in Slots, ResumePublished(s) PROVE Alone'
    <2>1. Returns(s) /\ Published
      BY <1>25 DEF At, Published, ResumePublished, workspace, recovery
    <2>2. QED
      BY <1>25, <2>1, RequestEffects DEF ResumePublished, At
  <1>26. ASSUME NEW s \in Slots, Deliver(s) PROVE Alone'
    <2>1. Returns(s) /\ UNCHANGED operation
      BY <1>26 DEF At, Deliver, workspace, recovery
    <2>2. QED
      BY <1>26, <2>1, RequestEffects DEF Deliver, At
  <1>27. ASSUME NEW s \in Slots, StartFails(s) PROVE Alone'
    <2>1. Returns(s) /\ operation' = NoOperation
      BY <1>27 DEF At, StartFails, workspace, recovery
    <2>2. QED
      BY <1>27, <2>1, RequestEffects, NoOperationIs DEF StartFails, At
  <1>28. ASSUME NEW s \in Slots, PublishRetryFails(s) PROVE Alone'
    <2>1. CASE Returns(s) /\ operation' = NoOperation
      BY <1>28, <2>1, RequestEffects, NoOperationIs DEF PublishRetryFails, At
    <2>2. CASE Returns(s) /\ UNCHANGED operation
      BY <1>28, <2>2, RequestEffects DEF PublishRetryFails, At
    <2>3. QED
      BY <1>28, <2>1, <2>2 DEF At, PublishRetryFails, workspace, recovery
  <1>29. ASSUME NEW s \in Slots, CommandFails(s) PROVE Alone'
    <2>1. Returns(s) /\ UNCHANGED operation
      BY <1>29 DEF At, CommandFails, workspace, recovery
    <2>2. QED
      BY <1>29, <2>1, RequestEffects DEF CommandFails, At
  <1>30. ASSUME NEW s \in Slots, RejectRecovery(s) PROVE Alone'
    <2>1. Returns(s) /\ operation' = NoOperation
      BY <1>30 DEF At, RejectRecovery, workspace, recovery
    <2>2. QED
      BY <1>30, <2>1, RequestEffects, NoOperationIs DEF RejectRecovery, At
  <1>31. ASSUME NEW s \in Slots, ResumeFails(s) PROVE Alone'
    <2>1. Returns(s) /\ operation' = NoOperation
      BY <1>31 DEF At, ResumeFails, workspace, recovery
    <2>2. QED
      BY <1>31, <2>1, RequestEffects, NoOperationIs DEF ResumeFails, At
  <1>32. ASSUME NEW s \in Slots, RecoveryStartFails(s) PROVE Alone'
    <2>1. /\ request[s].stage = "starting_recovery"
          /\ Requeues(s, operation.turn) /\ operation' = NoOperation
          /\ UNCHANGED <<runtime, selected>>
      BY <1>32 DEF RecoveryStartFails, Requeues, workspace
    <2>2. /\ request'[s].stage = "requeueing" /\ request'[s].kind = request[s].kind
          /\ request'[s].rt = request[s].rt /\ request'[s].thread = request[s].thread
          /\ request'[s].id = request[s].id /\ request'[s].turn = operation.turn
          /\ \A r \in Slots \ {s} : request'[r] = request[r]
      BY <2>1, HeldEffects
    <2>3. ASSUME NEW r \in Slots
          PROVE  (Busy(r)' => Busy(r)) /\ (Deciding(r)' => Deciding(r))
      BY <2>1, <2>2
    <2>4. QED
      BY <2>3
  <1>33. ASSUME NEW c \in Capabilities, CallTool(c) PROVE Alone'
    <2>1. CASE UNCHANGED request /\ Starts(c)
      BY <1>33, <2>1 DEF CallTool, OperationFrame
    <2>2. CASE UNCHANGED request /\ AsksFor(c, FreshId)
      BY <1>33, <2>2 DEF CallTool, OperationFrame
    <2>3. QED
      BY <1>33, <2>1, <2>2 DEF AsksFor, CallTool, OperationFrame, Starts, workspace,
         recovery
  <1>34. CASE HearDecision
    <2>1. CASE UNCHANGED request /\ operation' = Resumed
      BY <1>34, <2>1 DEF HearDecision, OperationFrame
    <2>2. CASE /\ UNCHANGED request
               /\ operation' = [Resumed EXCEPT !.stage = "tool", !.needs = operation.needs]
      BY <1>34, <2>2 DEF HearDecision, OperationFrame
    <2>3. QED
      BY <1>34, <2>1, <2>2 DEF HearDecision, OperationFrame, workspace, recovery
  <1>35. CASE ToolEnds
    <2>1. UNCHANGED request /\ operation' = Resumed
      BY <1>35 DEF OperationFrame, ToolEnds, workspace, recovery
    <2>2. QED
      BY <1>35, <2>1 DEF ToolEnds, OperationFrame
  <1>36. CASE RecoveryFinished
    <2>1. UNCHANGED request /\ operation' = NoOperation
      BY <1>36 DEF OperationFrame, RecoveryFinished, workspace, recovery
    <2>2. QED
      BY <1>36, <2>1, NoOperationIs DEF RecoveryFinished, OperationFrame
  <1>37. CASE OperationCancelled
    <2>1. CASE UNCHANGED request /\ operation' = NoOperation
      BY <1>37, <2>1, NoOperationIs DEF OperationCancelled, OperationFrame, Ends
    <2>2. CASE UNCHANGED request /\ operation' = [Resumed EXCEPT !.stage = "finishing"]
      BY <1>37, <2>2 DEF OperationCancelled, OperationFrame, Ends
    <2>3. QED
      BY <1>37, <2>1, <2>2 DEF Ends, OperationCancelled, OperationFrame, workspace,
         recovery
  <1>38. CASE OperationFinishes
    <2>1. CASE UNCHANGED request /\ operation' = NoOperation
      BY <1>38, <2>1, NoOperationIs DEF OperationFinishes, OperationFrame, Ends
    <2>2. CASE UNCHANGED request /\ operation' = [Resumed EXCEPT !.stage = "finishing"]
      BY <1>38, <2>2 DEF OperationFinishes, OperationFrame, Ends
    <2>3. QED
      BY <1>38, <2>1, <2>2 DEF Ends, OperationFinishes, OperationFrame, workspace,
         recovery
  <1>39. CASE AskFails
    <2>1. UNCHANGED request /\ operation' = Resumed
      BY <1>39 DEF AskFails, OperationFrame, workspace, recovery
    <2>2. QED
      BY <1>39, <2>1 DEF AskFails, OperationFrame
  <1>40. CASE BarrierCancelled
    <2>1. operation' = NoOperation
      BY <1>40 DEF BarrierCancelled, OperationFrame, workspace, recovery
    <2>2. QED
      BY <1>40, <2>1, BarrierEffects, NoOperationIs DEF BarrierCancelled, OperationFrame
  <1>41. CASE StartCancelled
    <2>1. UNCHANGED request /\ Goes("dying")
      BY <1>41 DEF Goes, OperationFrame, StartCancelled, workspace, recovery
    <2>2. QED
      BY <1>41, <2>1 DEF StartCancelled, OperationFrame
  <1>42. CASE UNCHANGED vars
    BY <1>42
  <1>43. ASSUME NEW s \in Slots, RecoveryRequeued(s) PROVE Alone'
    <2>1. Returns(s) /\ UNCHANGED operation
      BY <1>43 DEF RecoveryRequeued, workspace, recovery
    <2>2. QED
      BY <2>1, RequestEffects
  <1>44. QED
    BY <1>1, <1>2, <1>3, <1>4, <1>5, <1>6, <1>7, <1>8, <1>9, <1>10, <1>11, <1>12, <1>13,
       <1>14, <1>15, <1>16, <1>17, <1>18, <1>19, <1>20, <1>21, <1>22, <1>23, <1>24,
       <1>25, <1>26, <1>27, <1>28, <1>29, <1>30, <1>31, <1>32, <1>33, <1>34, <1>35,
       <1>36, <1>37, <1>38, <1>39, <1>40, <1>41, <1>42, <1>43, Moves DEF SlotMoves,
       RequestStep, RequestFails

------------------------------------------------------------------------------

\* Every step keeps a request and the Operation it drives in step.
LEMMA DrivenStep ==
    TypeOK /\ Shaped /\ Alone /\ Driven /\ Admission /\ Asked /\ [Next]_vars => Driven'
  <1> SUFFICES ASSUME TypeOK /\ Shaped /\ Alone /\ Driven /\ Admission /\ Asked, [Next]_vars
               PROVE  Driven'
    OBVIOUS
  <1> USE WorkspaceAssumption DEF Driven, Alone, Busy, Drives, Deciding, HoldsExclusive,
     StartKinds, CommandKinds, vars
  <1>1. ASSUME NEW s \in Slots, SubmitRequest(s) PROVE Driven'
    <2>1. Enters(s, "start", "checked", selected[runtime], 0, "none") /\ UNCHANGED operation
      BY <1>1 DEF Enters, SubmitRequest, workspace, recovery
    <2>2. QED
      BY <1>1, <2>1, NewEffects DEF SubmitRequest
  <1>2. ASSUME NEW s \in Slots, NEW kind, NEW t, NEW mode, Commands(s, kind, t, mode)
        PROVE  Driven'
    <2>1. PICK stage \in {"checked", "held"} :
               /\ Enters(s, kind, stage, t, 0, mode)
               /\ kind = "retry" <=> stage = "checked"
      BY <1>2 DEF Command, Commands, Enters
    <2>2. QED
      BY <1>2, <2>1, NewEffects, Freed DEF Command, Commands, ForegroundFree
  <1>3. ASSUME NEW s \in Slots, Initialize(s) PROVE Driven'
    <2>1. CASE /\ Enters(s, "initialize", "flushing", NoThread, 0, "none")
               /\ UNCHANGED operation
      BY <1>3, <2>1, NewEffects DEF Initialize
    <2>2. CASE UNCHANGED request /\ UNCHANGED operation
      BY <1>3, <2>2 DEF Initialize
    <2>3. QED
      BY <1>3, <2>1, <2>2 DEF Enters, Initialize, workspace, recovery
  <1>4. ASSUME NEW s \in Slots, NEW d \in Decisions, Respond(s, d) PROVE Driven'
    <2>1. /\ Enters(s, "respond", "checked", selected[runtime], pending.id, d)
          /\ UNCHANGED operation
      BY <1>4 DEF Enters, Respond, workspace, recovery
    <2>2. QED
      BY <1>4, <2>1, NewEffects DEF Respond
  <1>5. ASSUME NEW s \in Slots, Reserve(s) PROVE Driven'
    <2>1. CASE /\ Becomes(s, "reserved")
               /\ operation' = Reserved(request[s].thread, request[s].rt, NoTurn)
      BY <1>5, <2>1, RequestEffects, ReservedEffects, Freed DEF Reserve, At,
         ForegroundFree
    <2>2. CASE Returns(s) /\ UNCHANGED operation
      BY <1>5, <2>2, RequestEffects, Freed DEF Reserve, At, ForegroundFree
    <2>3. QED
      BY <1>5, <2>1, <2>2 DEF At, Reserve, workspace, recovery
  <1>6. ASSUME NEW s \in Slots, StartReserved(s) PROVE Driven'
    <2>1. Becomes(s, "starting") /\ Goes("starting")
      BY <1>6 DEF At, Goes, StartReserved, workspace, recovery
    <2>2. QED
      BY <1>6, <2>1, RequestEffects, OperationEffects DEF StartReserved, At, SameWork,
         SameCall
  <1>7. ASSUME NEW s \in Slots, Started(s) PROVE Driven'
    <2>1. CASE Becomes(s, "publishing") /\ UNCHANGED operation
      BY <1>7, <2>1, RequestEffects DEF Started, At
    <2>2. CASE Becomes(s, "publishing") /\ Goes("barrier")
      BY <1>7, <2>2, RequestEffects, OperationEffects DEF Started, At, SameWork, SameCall
    <2>3. CASE Returns(s) /\ UNCHANGED operation
      BY <1>7, <2>3, RequestEffects DEF Started, At
    <2>4. CASE Returns(s) /\ Goes("running")
      BY <1>7, <2>4, RequestEffects, OperationEffects DEF Started, At, SameWork, SameCall
    <2>5. QED
      BY <1>7, <2>1, <2>2, <2>3, <2>4 DEF At, Goes, Started, workspace, recovery
  <1>8. ASSUME NEW s \in Slots, PublishRetry(s) PROVE Driven'
    <2>1. CASE Returns(s) /\ Goes("running")
      BY <1>8, <2>1, RequestEffects, OperationEffects DEF PublishRetry, At, SameWork,
         SameCall
    <2>2. CASE Returns(s) /\ UNCHANGED operation
      BY <1>8, <2>2, RequestEffects DEF PublishRetry, At
    <2>3. QED
      BY <1>8, <2>1, <2>2 DEF At, Goes, PublishRetry, workspace, recovery
  <1>9. ASSUME NEW s \in Slots, SelectThread(s) PROVE Driven'
    <2>1. Returns(s) /\ UNCHANGED operation
      BY <1>9 DEF At, SelectThread, workspace, recovery
    <2>2. QED
      BY <1>9, <2>1, RequestEffects DEF SelectThread, At
  <1>10. ASSUME NEW s \in Slots, ChangeMode(s) PROVE Driven'
    <2>1. Returns(s) /\ UNCHANGED operation
      BY <1>10 DEF At, ChangeMode, workspace, recovery
    <2>2. QED
      BY <1>10, <2>1, RequestEffects DEF ChangeMode, At
  <1>11. ASSUME NEW s \in Slots, AskFullAccess(s) PROVE Driven'
    <2>1. CASE Asks(s, FreshId) /\ UNCHANGED operation
      BY <1>11, <2>1, HeldEffects DEF AskFullAccess, At
    <2>2. CASE Returns(s) /\ UNCHANGED operation
      BY <1>11, <2>2, RequestEffects DEF AskFullAccess, At
    <2>3. QED
      BY <1>11, <2>1, <2>2 DEF AskFullAccess, Asks, At, workspace, recovery
  <1>12. ASSUME NEW s \in Slots, FullAccessAsked(s) PROVE Driven'
    <2>1. Returns(s) /\ UNCHANGED operation
      BY <1>12 DEF At, FullAccessAsked, workspace, recovery
    <2>2. QED
      BY <1>12, <2>1, RequestEffects DEF FullAccessAsked, At
  <1>13. ASSUME NEW s \in Slots, RevokeNetwork(s) PROVE Driven'
    <2>1. Returns(s) /\ UNCHANGED operation
      BY <1>13 DEF At, RevokeNetwork, workspace, recovery
    <2>2. QED
      BY <1>13, <2>1, RequestEffects DEF RevokeNetwork, At
  <1>14. ASSUME NEW s \in Slots, BuildRuntime(s) PROVE Driven'
    <2>1. /\ Builds(s, selected[runtime])
          /\ UNCHANGED operation
          /\ request[s].kind = "publish"
          /\ request[s].stage = "held"
          /\ UNCHANGED <<runtime, selected, permission, pending, queue, status, undelivered,
                         deferred, orphaned>>
      BY <1>14 DEF At, BuildRuntime, Builds, workspace, recovery
    <2>2. QED
      BY <2>1, HeldEffects
  <1>15. ASSUME NEW s \in Slots, PublishRuntime(s) PROVE Driven'
    <2>1. Returns(s) /\ UNCHANGED operation
      BY <1>15 DEF At, PublishRuntime, workspace, recovery
    <2>2. QED
      BY <1>15, <2>1, RequestEffects DEF PublishRuntime, At
  <1>16. ASSUME NEW s \in Slots, RespondNotFound(s) PROVE Driven'
    <2>1. Returns(s) /\ UNCHANGED operation
      BY <1>16 DEF At, RespondNotFound, workspace, recovery
    <2>2. QED
      BY <1>16, <2>1, RequestEffects DEF RespondNotFound, At
  <1>17. ASSUME NEW s \in Slots, RespondToolApproval(s) PROVE Driven'
    <2>1. CASE Returns(s) /\ Hears(request[s].decision, request[s].thread)
      BY <1>17, <2>1, RequestEffects, OperationEffects DEF RespondToolApproval, At,
         Answering, SameWork, SameCall
    <2>2. CASE Returns(s) /\ UNCHANGED operation
      BY <1>17, <2>2, RequestEffects DEF RespondToolApproval, At, Answering
    <2>3. QED
      BY <1>17, <2>1, <2>2 DEF Answering, At, Hears, RespondToolApproval, workspace,
         recovery
  <1>18. ASSUME NEW s \in Slots, RespondFullAccess(s) PROVE Driven'
    <2>1. CASE Becomes(s, "acknowledged") /\ UNCHANGED operation
      BY <1>18, <2>1, RequestEffects, Freed DEF RespondFullAccess, At, Answering,
         ForegroundFree
    <2>2. CASE Returns(s) /\ UNCHANGED operation
      BY <1>18, <2>2, RequestEffects, Freed DEF RespondFullAccess, At, Answering,
         ForegroundFree
    <2>3. QED
      BY <1>18, <2>1, <2>2 DEF Answering, At, RespondFullAccess, workspace, recovery
  <1>19. ASSUME NEW s \in Slots, EnableFullAccess(s) PROVE Driven'
    <2>1. Returns(s) /\ UNCHANGED operation
      BY <1>19 DEF At, EnableFullAccess, workspace, recovery
    <2>2. QED
      BY <1>19, <2>1, RequestEffects DEF EnableFullAccess, At
  <1>20. ASSUME NEW s \in Slots, RespondAbort(s) PROVE Driven'
    <2>1. CASE Becomes(s, "aborting") /\ UNCHANGED operation
      BY <1>20, <2>1, RequestEffects, Freed DEF RespondAbort, At, Answering,
         ForegroundFree
    <2>2. CASE Returns(s) /\ UNCHANGED operation
      BY <1>20, <2>2, RequestEffects, Freed DEF RespondAbort, At, Answering,
         ForegroundFree
    <2>3. QED
      BY <1>20, <2>1, <2>2 DEF Answering, At, RespondAbort, workspace, recovery
  <1>21. ASSUME NEW s \in Slots, RecoveryAborted(s) PROVE Driven'
    <2>1. CASE Becomes(s, "aborted") /\ UNCHANGED operation
      BY <1>21, <2>1, RequestEffects DEF RecoveryAborted, At
    <2>2. CASE Returns(s) /\ UNCHANGED operation
      BY <1>21, <2>2, RequestEffects DEF RecoveryAborted, At
    <2>3. QED
      BY <1>21, <2>1, <2>2 DEF At, RecoveryAborted, workspace, recovery
  <1>22. ASSUME NEW s \in Slots, RespondRetry(s) PROVE Driven'
    <2>1. CASE /\ Becomes(s, "resuming")
               /\ operation' = Reserved(pending.thread, request[s].rt, pending.turn)
      <3>1. CASE Bound(request[s].id) /\ ForegroundFree
        <4>1. pending.turn # NoTurn
          BY <3>1 DEF Bound, Asked
        <4>2. \A r \in Slots : ~Busy(r)
          BY <3>1, Freed
        <4>3. \A r \in Slots : request[r].stage # "requeueing"
          BY <1>22, <2>1, RequestEffects DEF RespondRetry, BootstrapFree
        <4>4. QED
          BY <2>1, <4>1, <4>2, <4>3, RequestEffects, ReservedEffects
      <3>2. CASE ~(Bound(request[s].id) /\ ForegroundFree)
        <4>1. Returns(s) /\ UNCHANGED operation
          BY <1>22, <3>2 DEF RespondRetry
        <4>2. QED
          BY <4>1, RequestEffects
      <3>3. QED
        BY <3>1, <3>2
    <2>2. CASE Returns(s) /\ UNCHANGED operation
      BY <2>2, RequestEffects
    <2>3. QED
      BY <1>22, <2>1, <2>2 DEF RespondRetry
  <1>23. ASSUME NEW s \in Slots, ClaimRecovery(s) PROVE Driven'
    <2>1. Becomes(s, "starting_recovery") /\ Goes("starting")
      BY <1>23 DEF At, ClaimRecovery, Goes, workspace, recovery
    <2>2. QED
      BY <1>23, <2>1, RequestEffects, OperationEffects DEF ClaimRecovery, At, SameWork,
         SameCall
  <1>24. ASSUME NEW s \in Slots, RecoveryStarted(s) PROVE Driven'
    <2>1. CASE Becomes(s, "resumed") /\ UNCHANGED operation
      BY <1>24, <2>1, RequestEffects DEF RecoveryStarted, At
    <2>2. CASE Becomes(s, "resumed") /\ Goes("running")
      BY <1>24, <2>2, RequestEffects, OperationEffects DEF RecoveryStarted, At, SameWork, SameCall
    <2>3. QED
      BY <1>24, <2>1, <2>2 DEF At, Goes, RecoveryStarted, workspace, recovery
  <1>25. ASSUME NEW s \in Slots, ResumePublished(s) PROVE Driven'
    <2>1. Returns(s) /\ Published
      BY <1>25 DEF At, Published, ResumePublished, workspace, recovery
    <2>2. QED
      BY <1>25, <2>1, RequestEffects, OperationEffects DEF ResumePublished, At,
         SameWork, SameCall
  <1>26. ASSUME NEW s \in Slots, Deliver(s) PROVE Driven'
    <2>1. Returns(s) /\ UNCHANGED operation
      BY <1>26 DEF At, Deliver, workspace, recovery
    <2>2. QED
      BY <2>1, RequestEffects
  <1>27. ASSUME NEW s \in Slots, StartFails(s) PROVE Driven'
    <2>1. Returns(s) /\ operation' = NoOperation
      BY <1>27 DEF At, StartFails, workspace, recovery
    <2>2. QED
      BY <1>27, <2>1, RequestEffects, NoOperationIs DEF StartFails, At
  <1>28. ASSUME NEW s \in Slots, PublishRetryFails(s) PROVE Driven'
    <2>1. CASE Returns(s) /\ operation' = NoOperation
      BY <1>28, <2>1, RequestEffects, NoOperationIs DEF PublishRetryFails, At
    <2>2. CASE Returns(s) /\ UNCHANGED operation
      BY <1>28, <2>2, RequestEffects DEF PublishRetryFails, At
    <2>3. QED
      BY <1>28, <2>1, <2>2 DEF At, PublishRetryFails, workspace, recovery
  <1>29. ASSUME NEW s \in Slots, CommandFails(s) PROVE Driven'
    <2>1. Returns(s) /\ UNCHANGED operation
      BY <1>29 DEF At, CommandFails, workspace, recovery
    <2>2. QED
      BY <1>29, <2>1, RequestEffects DEF CommandFails, At
  <1>30. ASSUME NEW s \in Slots, RejectRecovery(s) PROVE Driven'
    <2>1. Returns(s) /\ operation' = NoOperation
      BY <1>30 DEF At, RejectRecovery, workspace, recovery
    <2>2. QED
      BY <1>30, <2>1, RequestEffects, NoOperationIs DEF RejectRecovery, At
  <1>31. ASSUME NEW s \in Slots, ResumeFails(s) PROVE Driven'
    <2>1. Returns(s) /\ operation' = NoOperation
      BY <1>31 DEF At, ResumeFails, workspace, recovery
    <2>2. QED
      BY <1>31, <2>1, RequestEffects, NoOperationIs DEF ResumeFails, At
  <1>32. ASSUME NEW s \in Slots, RecoveryStartFails(s) PROVE Driven'
    <2>1. /\ request[s].stage = "starting_recovery"
          /\ Requeues(s, operation.turn) /\ operation' = NoOperation
          /\ UNCHANGED <<runtime, selected>>
      BY <1>32 DEF RecoveryStartFails, Requeues, workspace
    <2>2. /\ request'[s].stage = "requeueing" /\ request'[s].kind = request[s].kind
          /\ request'[s].rt = request[s].rt /\ request'[s].thread = request[s].thread
          /\ request'[s].id = request[s].id /\ request'[s].turn = operation.turn
          /\ \A r \in Slots \ {s} : request'[r] = request[r]
      BY <2>1, HeldEffects
    <2>3. QED
      BY <2>1, <2>2, NoOperationIs
  <1>33. ASSUME NEW c \in Capabilities, CallTool(c) PROVE Driven'
    <2>1. CASE UNCHANGED request /\ Starts(c)
      BY <1>33, <2>1, OperationEffects DEF CallTool, OperationFrame, SameWork, SameCall
    <2>2. CASE UNCHANGED request /\ AsksFor(c, FreshId)
      BY <1>33, <2>2, OperationEffects DEF CallTool, OperationFrame, SameWork, SameCall
    <2>3. QED
      BY <1>33, <2>1, <2>2 DEF AsksFor, CallTool, OperationFrame, Starts, workspace,
         recovery
  <1>34. CASE HearDecision
    <2>1. CASE UNCHANGED request /\ operation' = Resumed
      BY <1>34, <2>1, CallEffects DEF HearDecision, OperationFrame, Continues
    <2>2. CASE /\ UNCHANGED request
               /\ operation' = [Resumed EXCEPT !.stage = "tool", !.needs = operation.needs]
      BY <1>34, <2>2, CallEffects DEF HearDecision, OperationFrame, Continues
    <2>3. QED
      BY <1>34, <2>1, <2>2 DEF HearDecision, OperationFrame, workspace, recovery
  <1>35. CASE ToolEnds
    <2>1. UNCHANGED request /\ operation' = Resumed
      BY <1>35 DEF OperationFrame, ToolEnds, workspace, recovery
    <2>2. QED
      BY <1>35, <2>1, CallEffects DEF ToolEnds, OperationFrame, Continues
  <1>36. CASE RecoveryFinished
    <2>1. UNCHANGED request /\ operation' = NoOperation
      BY <1>36 DEF OperationFrame, RecoveryFinished, workspace, recovery
    <2>2. QED
      BY <1>36, <2>1, NoOperationIs DEF RecoveryFinished, OperationFrame
  <1>37. CASE OperationCancelled
    <2>1. CASE UNCHANGED request /\ operation' = NoOperation
      BY <1>37, <2>1, NoOperationIs DEF OperationCancelled, OperationFrame, Ends
    <2>2. CASE UNCHANGED request /\ operation' = [Resumed EXCEPT !.stage = "finishing"]
      BY <1>37, <2>2, CallEffects DEF OperationCancelled, OperationFrame, Ends,
         Continues
    <2>3. QED
      BY <1>37, <2>1, <2>2 DEF Ends, OperationCancelled, OperationFrame, workspace,
         recovery
  <1>38. CASE OperationFinishes
    <2>1. CASE UNCHANGED request /\ operation' = NoOperation
      BY <1>38, <2>1, NoOperationIs DEF OperationFinishes, OperationFrame, Ends
    <2>2. CASE UNCHANGED request /\ operation' = [Resumed EXCEPT !.stage = "finishing"]
      BY <1>38, <2>2, CallEffects DEF OperationFinishes, OperationFrame, Ends, Continues
    <2>3. QED
      BY <1>38, <2>1, <2>2 DEF Ends, OperationFinishes, OperationFrame, workspace,
         recovery
  <1>39. CASE AskFails
    <2>1. UNCHANGED request /\ operation' = Resumed
      BY <1>39 DEF AskFails, OperationFrame, workspace, recovery
    <2>2. QED
      BY <1>39, <2>1, CallEffects DEF AskFails, OperationFrame, Continues
  <1>40. CASE BarrierCancelled
    <2>1. operation' = NoOperation
      BY <1>40 DEF BarrierCancelled, OperationFrame, workspace, recovery
    <2>2. QED
      BY <1>40, <2>1, BarrierEffects, NoOperationIs DEF BarrierCancelled, OperationFrame
  <1>41. CASE StartCancelled
    <2>1. UNCHANGED request /\ Goes("dying")
      BY <1>41 DEF Goes, OperationFrame, StartCancelled, workspace, recovery
    <2>2. QED
      BY <1>41, <2>1, OperationEffects DEF StartCancelled, OperationFrame, SameWork,
         SameCall
  <1>42. CASE UNCHANGED vars
    BY <1>42
  <1>43. ASSUME NEW s \in Slots, RecoveryRequeued(s) PROVE Driven'
    <2>1. Returns(s) /\ UNCHANGED operation
      BY <1>43 DEF RecoveryRequeued, workspace, recovery
    <2>2. QED
      BY <1>43, <2>1, RequestEffects DEF RecoveryRequeued, At
  <1>44. QED
    BY <1>1, <1>2, <1>3, <1>4, <1>5, <1>6, <1>7, <1>8, <1>9, <1>10, <1>11, <1>12, <1>13,
       <1>14, <1>15, <1>16, <1>17, <1>18, <1>19, <1>20, <1>21, <1>22, <1>23, <1>24,
       <1>25, <1>26, <1>27, <1>28, <1>29, <1>30, <1>31, <1>32, <1>33, <1>34, <1>35,
       <1>36, <1>37, <1>38, <1>39, <1>40, <1>41, <1>42, <1>43, Moves DEF SlotMoves,
       RequestStep, RequestFails

------------------------------------------------------------------------------

\* Every step keeps what the Operation's stage says of it.
LEMMA AdmissionStep ==
    TypeOK /\ Shaped /\ Alone /\ Driven /\ Admission /\ Asked /\ [Next]_vars => Admission'
  <1> SUFFICES ASSUME TypeOK /\ Shaped /\ Alone /\ Driven /\ Admission /\ Asked, [Next]_vars
               PROVE  Admission'
    OBVIOUS
  <1> USE WorkspaceAssumption DEF Admission, vars
  <1>1. ASSUME NEW s \in Slots, SubmitRequest(s) PROVE Admission'
    <2>1. Enters(s, "start", "checked", selected[runtime], 0, "none") /\ UNCHANGED operation
      BY <1>1 DEF Enters, SubmitRequest, workspace, recovery
    <2>2. QED
      BY <1>1, <2>1, NewEffects DEF SubmitRequest
  <1>2. ASSUME NEW s \in Slots, NEW kind, NEW t, NEW mode, Commands(s, kind, t, mode)
        PROVE  Admission'
    <2>1. PICK stage \in {"checked", "held"} :
               /\ Enters(s, kind, stage, t, 0, mode)
               /\ kind = "retry" <=> stage = "checked"
      BY <1>2 DEF Command, Commands, Enters
    <2>2. QED
      BY <1>2, <2>1, NewEffects DEF Command, Commands
  <1>3. ASSUME NEW s \in Slots, Initialize(s) PROVE Admission'
    <2>1. CASE /\ Enters(s, "initialize", "flushing", NoThread, 0, "none")
               /\ UNCHANGED operation
      BY <1>3, <2>1, NewEffects DEF Initialize
    <2>2. CASE UNCHANGED request /\ UNCHANGED operation
      BY <1>3, <2>2 DEF Initialize
    <2>3. QED
      BY <1>3, <2>1, <2>2 DEF Enters, Initialize, workspace, recovery
  <1>4. ASSUME NEW s \in Slots, NEW d \in Decisions, Respond(s, d) PROVE Admission'
    <2>1. /\ Enters(s, "respond", "checked", selected[runtime], pending.id, d)
          /\ UNCHANGED operation
      BY <1>4 DEF Enters, Respond, workspace, recovery
    <2>2. QED
      BY <1>4, <2>1, NewEffects DEF Respond
  <1>5. ASSUME NEW s \in Slots, Reserve(s) PROVE Admission'
    <2>1. CASE /\ Becomes(s, "reserved")
               /\ operation' = Reserved(request[s].thread, request[s].rt, NoTurn)
      BY <1>5, <2>1, RequestEffects, ReservedEffects DEF Reserve, At, Shaped, StartKinds
    <2>2. CASE Returns(s) /\ UNCHANGED operation
      BY <1>5, <2>2, RequestEffects DEF Reserve, At, Shaped, StartKinds
    <2>3. QED
      BY <1>5, <2>1, <2>2 DEF At, Reserve, workspace, recovery
  <1>6. ASSUME NEW s \in Slots, StartReserved(s) PROVE Admission'
    <2>1. Becomes(s, "starting") /\ Goes("starting")
      BY <1>6 DEF At, Goes, StartReserved, workspace, recovery
    <2>2. QED
      BY <1>6, <2>1, RequestEffects, OperationEffects DEF StartReserved, At, Driven,
         SameWork, SameCall
  <1>7. ASSUME NEW s \in Slots, Started(s) PROVE Admission'
    <2>1. CASE Becomes(s, "publishing") /\ UNCHANGED operation
      BY <1>7, <2>1, RequestEffects DEF Started, At, Driven
    <2>2. CASE Becomes(s, "publishing") /\ Goes("barrier")
      BY <1>7, <2>2, RequestEffects, OperationEffects DEF Started, At, Driven, SameWork, SameCall
    <2>3. CASE Returns(s) /\ UNCHANGED operation
      BY <1>7, <2>3, RequestEffects DEF Started, At, Driven
    <2>4. CASE Returns(s) /\ Goes("running")
      BY <1>7, <2>4, RequestEffects, OperationEffects DEF Started, At, Driven, SameWork, SameCall
    <2>5. QED
      BY <1>7, <2>1, <2>2, <2>3, <2>4 DEF At, Goes, Started, workspace, recovery
  <1>8. ASSUME NEW s \in Slots, PublishRetry(s) PROVE Admission'
    <2>1. CASE Returns(s) /\ Goes("running")
      BY <1>8, <2>1, RequestEffects, OperationEffects DEF PublishRetry, At, Driven,
         SameWork, SameCall
    <2>2. CASE Returns(s) /\ UNCHANGED operation
      BY <1>8, <2>2, RequestEffects DEF PublishRetry, At, Driven
    <2>3. QED
      BY <1>8, <2>1, <2>2 DEF At, Goes, PublishRetry, workspace, recovery
  <1>9. ASSUME NEW s \in Slots, SelectThread(s) PROVE Admission'
    <2>1. Returns(s) /\ UNCHANGED operation
      BY <1>9 DEF At, SelectThread, workspace, recovery
    <2>2. QED
      BY <1>9, <2>1, RequestEffects DEF SelectThread, At
  <1>10. ASSUME NEW s \in Slots, ChangeMode(s) PROVE Admission'
    <2>1. Returns(s) /\ UNCHANGED operation
      BY <1>10 DEF At, ChangeMode, workspace, recovery
    <2>2. QED
      BY <1>10, <2>1, RequestEffects DEF ChangeMode, At
  <1>11. ASSUME NEW s \in Slots, AskFullAccess(s) PROVE Admission'
    <2>1. CASE Asks(s, FreshId) /\ UNCHANGED operation
      BY <1>11, <2>1, HeldEffects DEF AskFullAccess, At
    <2>2. CASE Returns(s) /\ UNCHANGED operation
      BY <1>11, <2>2, RequestEffects DEF AskFullAccess, At
    <2>3. QED
      BY <1>11, <2>1, <2>2 DEF AskFullAccess, Asks, At, workspace, recovery
  <1>12. ASSUME NEW s \in Slots, FullAccessAsked(s) PROVE Admission'
    <2>1. Returns(s) /\ UNCHANGED operation
      BY <1>12 DEF At, FullAccessAsked, workspace, recovery
    <2>2. QED
      BY <1>12, <2>1, RequestEffects DEF FullAccessAsked, At
  <1>13. ASSUME NEW s \in Slots, RevokeNetwork(s) PROVE Admission'
    <2>1. Returns(s) /\ UNCHANGED operation
      BY <1>13 DEF At, RevokeNetwork, workspace, recovery
    <2>2. QED
      BY <1>13, <2>1, RequestEffects DEF RevokeNetwork, At
  <1>14. ASSUME NEW s \in Slots, BuildRuntime(s) PROVE Admission'
    <2>1. /\ Builds(s, selected[runtime])
          /\ UNCHANGED operation
          /\ request[s].kind = "publish"
          /\ request[s].stage = "held"
          /\ UNCHANGED <<runtime, selected, permission, pending, queue, status, undelivered,
                         deferred, orphaned>>
      BY <1>14 DEF At, BuildRuntime, Builds, workspace, recovery
    <2>2. QED
      BY <2>1, HeldEffects
  <1>15. ASSUME NEW s \in Slots, PublishRuntime(s) PROVE Admission'
    <2>1. Returns(s) /\ UNCHANGED operation
      BY <1>15 DEF At, PublishRuntime, workspace, recovery
    <2>2. QED
      BY <1>15, <2>1, RequestEffects DEF PublishRuntime, At
  <1>16. ASSUME NEW s \in Slots, RespondNotFound(s) PROVE Admission'
    <2>1. Returns(s) /\ UNCHANGED operation
      BY <1>16 DEF At, RespondNotFound, workspace, recovery
    <2>2. QED
      BY <1>16, <2>1, RequestEffects DEF RespondNotFound, At
  <1>17. ASSUME NEW s \in Slots, RespondToolApproval(s) PROVE Admission'
    <2>1. CASE Returns(s) /\ Hears(request[s].decision, request[s].thread)
      BY <1>17, <2>1, RequestEffects, OperationEffects DEF RespondToolApproval, At,
         Answering, Asked, SameWork, SameCall
    <2>2. CASE Returns(s) /\ UNCHANGED operation
      BY <1>17, <2>2, RequestEffects DEF RespondToolApproval, At, Answering, Asked
    <2>3. QED
      BY <1>17, <2>1, <2>2 DEF Answering, At, Hears, RespondToolApproval, workspace,
         recovery
  <1>18. ASSUME NEW s \in Slots, RespondFullAccess(s) PROVE Admission'
    <2>1. CASE Becomes(s, "acknowledged") /\ UNCHANGED operation
      BY <1>18, <2>1, RequestEffects DEF RespondFullAccess, At, Answering
    <2>2. CASE Returns(s) /\ UNCHANGED operation
      BY <1>18, <2>2, RequestEffects DEF RespondFullAccess, At, Answering
    <2>3. QED
      BY <1>18, <2>1, <2>2 DEF Answering, At, RespondFullAccess, workspace, recovery
  <1>19. ASSUME NEW s \in Slots, EnableFullAccess(s) PROVE Admission'
    <2>1. Returns(s) /\ UNCHANGED operation
      BY <1>19 DEF At, EnableFullAccess, workspace, recovery
    <2>2. QED
      BY <1>19, <2>1, RequestEffects DEF EnableFullAccess, At
  <1>20. ASSUME NEW s \in Slots, RespondAbort(s) PROVE Admission'
    <2>1. CASE Becomes(s, "aborting") /\ UNCHANGED operation
      BY <1>20, <2>1, RequestEffects DEF RespondAbort, At, Answering
    <2>2. CASE Returns(s) /\ UNCHANGED operation
      BY <1>20, <2>2, RequestEffects DEF RespondAbort, At, Answering
    <2>3. QED
      BY <1>20, <2>1, <2>2 DEF Answering, At, RespondAbort, workspace, recovery
  <1>21. ASSUME NEW s \in Slots, RecoveryAborted(s) PROVE Admission'
    <2>1. CASE Becomes(s, "aborted") /\ UNCHANGED operation
      BY <1>21, <2>1, RequestEffects DEF RecoveryAborted, At
    <2>2. CASE Returns(s) /\ UNCHANGED operation
      BY <1>21, <2>2, RequestEffects DEF RecoveryAborted, At
    <2>3. QED
      BY <1>21, <2>1, <2>2 DEF At, RecoveryAborted, workspace, recovery
  <1>22. ASSUME NEW s \in Slots, RespondRetry(s) PROVE Admission'
    <2>1. CASE operation' = Reserved(pending.thread, request[s].rt, pending.turn)
      <3>1. CASE Bound(request[s].id)
        <4>1. pending.thread \in Threads
          BY <3>1 DEF Bound, Asked
        <4>2. QED
          BY <2>1, <4>1, ReservedEffects
      <3>2. CASE ~Bound(request[s].id)
        BY <1>22, <3>2 DEF RespondRetry
      <3>3. QED
        BY <3>1, <3>2
    <2>2. CASE UNCHANGED operation
      BY <2>2
    <2>3. QED
      BY <1>22, <2>1, <2>2 DEF RespondRetry
  <1>23. ASSUME NEW s \in Slots, ClaimRecovery(s) PROVE Admission'
    <2>1. Becomes(s, "starting_recovery") /\ Goes("starting")
      BY <1>23 DEF At, ClaimRecovery, Goes, workspace, recovery
    <2>2. QED
      BY <1>23, <2>1, RequestEffects, OperationEffects DEF ClaimRecovery, At, Driven,
         SameWork, SameCall
  <1>24. ASSUME NEW s \in Slots, RecoveryStarted(s) PROVE Admission'
    <2>1. CASE Becomes(s, "resumed") /\ UNCHANGED operation
      BY <1>24, <2>1, RequestEffects DEF RecoveryStarted, At, Driven
    <2>2. CASE Becomes(s, "resumed") /\ Goes("running")
      BY <1>24, <2>2, RequestEffects, OperationEffects DEF RecoveryStarted, At, Driven, SameWork, SameCall
    <2>3. QED
      BY <1>24, <2>1, <2>2 DEF At, Goes, RecoveryStarted, workspace, recovery
  <1>25. ASSUME NEW s \in Slots, ResumePublished(s) PROVE Admission'
    <2>1. Published
      BY <1>25 DEF ResumePublished, Published
    <2>2. CASE operation = NoOperation
      <3>1. operation' = NoOperation
        BY <2>1, <2>2 DEF Published, NoOperation
      <3>2. QED
        BY <3>1, NoOperationIs
    <2>3. CASE operation.stage # "none"
      BY <2>1, <2>3, OperationEffects DEF SameWork, SameCall
    <2>4. QED
      BY <2>2, <2>3
  <1>26. ASSUME NEW s \in Slots, Deliver(s) PROVE Admission'
    <2>1. Returns(s) /\ UNCHANGED operation
      BY <1>26 DEF At, Deliver, workspace, recovery
    <2>2. QED
      BY <1>26, <2>1, RequestEffects DEF Deliver, At
  <1>27. ASSUME NEW s \in Slots, StartFails(s) PROVE Admission'
    <2>1. Returns(s) /\ operation' = NoOperation
      BY <1>27 DEF At, StartFails, workspace, recovery
    <2>2. QED
      BY <1>27, <2>1, RequestEffects, NoOperationIs DEF StartFails, At
  <1>28. ASSUME NEW s \in Slots, PublishRetryFails(s) PROVE Admission'
    <2>1. CASE Returns(s) /\ operation' = NoOperation
      BY <1>28, <2>1, RequestEffects, NoOperationIs DEF PublishRetryFails, At
    <2>2. CASE Returns(s) /\ UNCHANGED operation
      BY <1>28, <2>2, RequestEffects DEF PublishRetryFails, At
    <2>3. QED
      BY <1>28, <2>1, <2>2 DEF At, PublishRetryFails, workspace, recovery
  <1>29. ASSUME NEW s \in Slots, CommandFails(s) PROVE Admission'
    <2>1. Returns(s) /\ UNCHANGED operation
      BY <1>29 DEF At, CommandFails, workspace, recovery
    <2>2. QED
      BY <1>29, <2>1, RequestEffects DEF CommandFails, At
  <1>30. ASSUME NEW s \in Slots, RejectRecovery(s) PROVE Admission'
    <2>1. Returns(s) /\ operation' = NoOperation
      BY <1>30 DEF At, RejectRecovery, workspace, recovery
    <2>2. QED
      BY <1>30, <2>1, RequestEffects, NoOperationIs DEF RejectRecovery, At
  <1>31. ASSUME NEW s \in Slots, ResumeFails(s) PROVE Admission'
    <2>1. Returns(s) /\ operation' = NoOperation
      BY <1>31 DEF At, ResumeFails, workspace, recovery
    <2>2. QED
      BY <1>31, <2>1, RequestEffects, NoOperationIs DEF ResumeFails, At
  <1>32. ASSUME NEW s \in Slots, RecoveryStartFails(s) PROVE Admission'
    <2>1. Requeues(s, operation.turn) /\ operation' = NoOperation
      BY <1>32 DEF At, RecoveryStartFails, Requeues, workspace, recovery
    <2>2. QED
      BY <1>32, <2>1, HeldEffects, NoOperationIs DEF RecoveryStartFails, At
  <1>33. ASSUME NEW c \in Capabilities, CallTool(c) PROVE Admission'
    <2>1. CASE UNCHANGED request /\ Starts(c)
      BY <1>33, <2>1, OperationEffects, Fresh DEF CallTool, OperationFrame, NoOperation,
         SameWork, SameCall
    <2>2. CASE UNCHANGED request /\ AsksFor(c, FreshId)
      BY <1>33, <2>2, OperationEffects, Fresh DEF CallTool, OperationFrame, NoOperation,
         SameWork, SameCall
    <2>3. QED
      BY <1>33, <2>1, <2>2 DEF AsksFor, CallTool, OperationFrame, Starts, workspace,
         recovery
  <1>34. CASE HearDecision
    <2>1. CASE UNCHANGED request /\ operation' = Resumed
      BY <1>34, <2>1, CallEffects DEF HearDecision, OperationFrame, Continues
    <2>2. CASE /\ UNCHANGED request
               /\ operation' = [Resumed EXCEPT !.stage = "tool", !.needs = operation.needs]
      BY <1>34, <2>2, CallEffects DEF HearDecision, OperationFrame, Continues
    <2>3. QED
      BY <1>34, <2>1, <2>2 DEF HearDecision, OperationFrame, workspace, recovery
  <1>35. CASE ToolEnds
    <2>1. UNCHANGED request /\ operation' = Resumed
      BY <1>35 DEF OperationFrame, ToolEnds, workspace, recovery
    <2>2. QED
      BY <1>35, <2>1, CallEffects DEF ToolEnds, OperationFrame, Continues
  <1>36. CASE RecoveryFinished
    <2>1. UNCHANGED request /\ operation' = NoOperation
      BY <1>36 DEF OperationFrame, RecoveryFinished, workspace, recovery
    <2>2. QED
      BY <1>36, <2>1, NoOperationIs DEF RecoveryFinished, OperationFrame
  <1>37. CASE OperationCancelled
    <2>1. CASE UNCHANGED request /\ operation' = NoOperation
      BY <1>37, <2>1, NoOperationIs DEF OperationCancelled, OperationFrame, Ends
    <2>2. CASE UNCHANGED request /\ operation' = [Resumed EXCEPT !.stage = "finishing"]
      BY <1>37, <2>2, CallEffects DEF OperationCancelled, OperationFrame, Ends,
         Continues
    <2>3. QED
      BY <1>37, <2>1, <2>2 DEF Ends, OperationCancelled, OperationFrame, workspace,
         recovery
  <1>38. CASE OperationFinishes
    <2>1. CASE UNCHANGED request /\ operation' = NoOperation
      BY <1>38, <2>1, NoOperationIs DEF OperationFinishes, OperationFrame, Ends
    <2>2. CASE UNCHANGED request /\ operation' = [Resumed EXCEPT !.stage = "finishing"]
      BY <1>38, <2>2, CallEffects DEF OperationFinishes, OperationFrame, Ends, Continues
    <2>3. QED
      BY <1>38, <2>1, <2>2 DEF Ends, OperationFinishes, OperationFrame, workspace,
         recovery
  <1>39. CASE AskFails
    <2>1. UNCHANGED request /\ operation' = Resumed
      BY <1>39 DEF AskFails, OperationFrame, workspace, recovery
    <2>2. QED
      BY <1>39, <2>1, CallEffects DEF AskFails, OperationFrame, Continues
  <1>40. CASE BarrierCancelled
    <2>1. operation' = NoOperation
      BY <1>40 DEF BarrierCancelled, OperationFrame, workspace, recovery
    <2>2. QED
      BY <1>40, <2>1, BarrierEffects, NoOperationIs DEF BarrierCancelled, OperationFrame
  <1>41. CASE StartCancelled
    <2>1. UNCHANGED request /\ Goes("dying")
      BY <1>41 DEF Goes, OperationFrame, StartCancelled, workspace, recovery
    <2>2. QED
      BY <1>41, <2>1, OperationEffects DEF StartCancelled, OperationFrame, SameWork,
         SameCall
  <1>42. CASE UNCHANGED vars
    BY <1>42
  <1>43. ASSUME NEW s \in Slots, RecoveryRequeued(s) PROVE Admission'
    <2>1. Returns(s) /\ UNCHANGED operation
      BY <1>43 DEF RecoveryRequeued, workspace, recovery
    <2>2. QED
      BY <1>43, <2>1, RequestEffects DEF RecoveryRequeued, At
  <1>44. QED
    BY <1>1, <1>2, <1>3, <1>4, <1>5, <1>6, <1>7, <1>8, <1>9, <1>10, <1>11, <1>12, <1>13,
       <1>14, <1>15, <1>16, <1>17, <1>18, <1>19, <1>20, <1>21, <1>22, <1>23, <1>24,
       <1>25, <1>26, <1>27, <1>28, <1>29, <1>30, <1>31, <1>32, <1>33, <1>34, <1>35,
       <1>36, <1>37, <1>38, <1>39, <1>40, <1>41, <1>42, <1>43, Moves DEF SlotMoves,
       RequestStep, RequestFails

------------------------------------------------------------------------------

\* The fields of a question.
LEMMA QuestionIs ==
    /\ NoQuestion.id = 0 /\ NoQuestion.kind = "none" /\ NoQuestion.decision = "none"
    /\ \A id, kind, t, u :
         /\ Question(id, kind, t, u).id = id /\ Question(id, kind, t, u).kind = kind
         /\ Question(id, kind, t, u).thread = t /\ Question(id, kind, t, u).turn = u
         /\ Question(id, kind, t, u).decision = "none"
  BY DEF NoQuestion, Question

\* The next recovery question, if any, is a new one about the head of the queue.
Presented(q) ==
  /\ pending'.kind = "recovery_decision" /\ pending'.id = FreshId
  /\ q # <<>> /\ pending'.turn = Head(q) /\ pending'.thread = Home[Head(q)]
  /\ pending'.decision = "none"

\* Presenting leaves the question, or asks about the head of the queue.
LEMMA PresentEffects ==
    ASSUME NEW p, NEW q, NEW blocked, PresentNext(p, q, blocked)
    PROVE  pending' = p \/ (p = NoQuestion /\ Presented(q))
  BY DEF PresentNext, RecoveryQuestion, Question, Presented

\* Only a full access question is withdrawn.
LEMMA WithdrawnIs ==
    \A q : \/ Withdrawn(q) = NoQuestion /\ q.kind = "full_access_confirmation"
           \/ Withdrawn(q) = q /\ q.kind # "full_access_confirmation"
  BY DEF Withdrawn

\* What keeps Asked: no question is left, a new recovery question is asked, or
\* the pending one is kept while what it is about stays as it is.
LEMMA ClearedAsked ==
    ASSUME pending' = NoQuestion
    PROVE  Asked'
  BY QuestionIs DEF Asked

LEMMA PresentedAsked ==
    ASSUME TypeOK, NEW q \in Seq(Unfinished), Presented(q),
           operation'.question \in {operation.question, 0},
           \A r \in Slots : request'[r].stage = "asking" => request'[r].id = request[r].id
    PROVE  Asked'
  <1>1. FreshId # 0 /\ FreshId # operation.question /\ \A r \in Slots : request[r].id # FreshId
    BY Fresh
  <1>2. Head(q) \in Unfinished
    BY DEF Presented
  <1>3. QED
    BY <1>1, <1>2 DEF Asked, Presented

\* What a tool approval and a full access question are about stays as it is.
ToolKept ==
  /\ operation'.stage = operation.stage /\ operation'.question = operation.question
  /\ operation'.thread = operation.thread /\ operation'.heard = operation.heard
FullKept ==
  /\ operation'.stage = "none" /\ selected'[runtime'] # NoThread
  /\ ~orphaned' => ~orphaned /\ selected'[runtime'] = selected[runtime]

LEMMA KeptAsked ==
    ASSUME Asked, UNCHANGED pending, NEW s \in Slots,
           \A r \in Slots \ {s} : request'[r] = request[r],
           request'[s].stage # "asking",
           pending.kind = "tool_approval" => ToolKept,
           operation'.question \in {operation.question, 0},
           pending.kind = "full_access_confirmation" => FullKept /\ ~HoldsExclusive(s)'
    PROVE  Asked'
  <1>1. ASSUME NEW r \in Slots, r # s PROVE HoldsExclusive(r)' <=> HoldsExclusive(r)
    BY <1>1 DEF HoldsExclusive
  <1>2. \A r \in Slots : request'[r].stage = "asking" /\ request'[r].id = pending'.id =>
          pending'.kind \in {"none", "full_access_confirmation"}
    BY DEF Asked
  <1>3. pending'.kind = "full_access_confirmation" =>
          \A r \in Slots : HoldsExclusive(r)' => request'[r].kind = "full"
    BY <1>1 DEF Asked
  <1>4. QED
    BY <1>2, <1>3 DEF Asked, ToolKept, FullKept

\* The same when no request moves.
LEMMA UntouchedAsked ==
    ASSUME Asked, UNCHANGED <<pending, request>>,
           pending.kind = "tool_approval" => ToolKept,
           operation'.question \in {operation.question, 0},
           pending.kind = "full_access_confirmation" => FullKept
    PROVE  Asked'
  BY DEF Asked, ToolKept, FullKept, HoldsExclusive

\* Every step keeps the pending question about what it asks for.
LEMMA AskedStep ==
    TypeOK /\ Shaped /\ Alone /\ Driven /\ Admission /\ Asked /\ Queued /\ [Next]_vars => Asked'
  <1> SUFFICES ASSUME TypeOK /\ Shaped /\ Alone /\ Driven /\ Admission /\ Asked /\ Queued, [Next]_vars
               PROVE  Asked'
    OBVIOUS
  <1> USE WorkspaceAssumption DEF HoldsExclusive, StartKinds, CommandKinds, ToolKept,
     FullKept, workspace, vars
  <1>0. /\ pending.kind = "tool_approval" =>
             operation.stage = "asking" /\ operation.question = pending.id
        /\ pending.kind = "full_access_confirmation" =>
             /\ operation.stage = "none" /\ selected[runtime] # NoThread
             /\ \A s \in Slots : HoldsExclusive(s) => request[s].kind = "full"
        /\ pending.id = 0 \/ pending.kind = "none" => pending = NoQuestion
    BY DEF Asked
  <1>1. ASSUME NEW s \in Slots, SubmitRequest(s) PROVE Asked'
    <2>1. Enters(s, "start", "checked", selected[runtime], 0, "none") /\ UNCHANGED operation
      BY <1>1 DEF Enters, SubmitRequest, workspace, recovery
    <2>2. QED
      BY <1>1, <2>1, NewEffects, <1>0, QuestionIs, ClearedAsked, KeptAsked DEF
         SubmitRequest
  <1>2. ASSUME NEW s \in Slots, NEW kind, NEW t, NEW mode, Commands(s, kind, t, mode)
        PROVE  Asked'
    <2>1. PICK stage \in {"checked", "held"} :
               /\ Enters(s, kind, stage, t, 0, mode)
               /\ kind = "retry" <=> stage = "checked"
      BY <1>2 DEF Command, Commands, Enters
    <2>2. QED
      BY <1>2, <2>1, NewEffects, <1>0, QuestionIs, ClearedAsked, KeptAsked DEF Command,
         Commands
  <1>3. ASSUME NEW s \in Slots, Initialize(s) PROVE Asked'
    <2>1. ASSUME UNCHANGED <<pending, operation, selected, runtime, orphaned>>,
                 Enters(s, "initialize", "flushing", NoThread, 0, "none")
          PROVE  Asked'
      BY <2>1, <1>3, <1>0, NewEffects, KeptAsked DEF Initialize
    <2>2. ASSUME PresentNext(pending, queue, FALSE), UNCHANGED <<request, operation, workspace, orphaned>>
          PROVE  Asked'
      <3>1. CASE Presented(queue)
        <4>1. queue \in Seq(Unfinished)
          BY DEF TypeOK
        <4>2. QED
          BY <2>2, <3>1, <4>1, PresentedAsked
      <3>2. CASE UNCHANGED pending
        BY <2>2, <3>2, <1>0, UntouchedAsked
      <3>3. QED
        BY <2>2, <3>1, <3>2, PresentEffects
    <2>3. QED
      BY <1>3, <2>1, <2>2 DEF Initialize, Enters
  <1>4. ASSUME NEW s \in Slots, NEW d \in Decisions, Respond(s, d) PROVE Asked'
    <2>1. /\ Enters(s, "respond", "checked", selected[runtime], pending.id, d)
          /\ UNCHANGED operation
      BY <1>4 DEF Enters, Respond, workspace, recovery
    <2>2. QED
      BY <1>4, <2>1, NewEffects, <1>0, QuestionIs, ClearedAsked, KeptAsked DEF Respond
  <1>5. ASSUME NEW s \in Slots, Reserve(s) PROVE Asked'
    <2>1. CASE /\ Becomes(s, "reserved")
               /\ operation' = Reserved(request[s].thread, request[s].rt, NoTurn)
      BY <1>5, <2>1, RequestEffects, ReservedEffects, <1>0, QuestionIs, ClearedAsked,
         KeptAsked DEF Reserve, At, Admitted
    <2>2. CASE Returns(s) /\ UNCHANGED operation
      BY <1>5, <2>2, RequestEffects, <1>0, QuestionIs, ClearedAsked, KeptAsked DEF
         Reserve, At, Admitted
    <2>3. QED
      BY <1>5, <2>1, <2>2 DEF At, Reserve, workspace, recovery
  <1>6. ASSUME NEW s \in Slots, StartReserved(s) PROVE Asked'
    <2>1. Becomes(s, "starting") /\ Goes("starting")
      BY <1>6 DEF At, Goes, StartReserved, workspace, recovery
    <2>2. QED
      BY <1>6, <2>1, RequestEffects, OperationEffects, <1>0, QuestionIs, ClearedAsked,
         KeptAsked, WithdrawnIs DEF StartReserved, At, Driven, OnThreadSelected,
         SameWork, SameCall
  <1>7. ASSUME NEW s \in Slots, Started(s) PROVE Asked'
    <2>1. CASE Becomes(s, "publishing") /\ UNCHANGED operation
      BY <1>7, <2>1, RequestEffects, <1>0, QuestionIs, ClearedAsked,
         KeptAsked DEF Started, At, Driven
    <2>2. CASE Becomes(s, "publishing") /\ Goes("barrier")
      BY <1>7, <2>2, RequestEffects, OperationEffects, <1>0, QuestionIs, ClearedAsked,
         KeptAsked DEF Started, At, Driven, SameWork, SameCall
    <2>3. CASE Returns(s) /\ UNCHANGED operation
      BY <1>7, <2>3, RequestEffects, <1>0, QuestionIs, ClearedAsked,
         KeptAsked DEF Started, At, Driven
    <2>4. CASE Returns(s) /\ Goes("running")
      BY <1>7, <2>4, RequestEffects, OperationEffects, <1>0, QuestionIs, ClearedAsked,
         KeptAsked DEF Started, At, Driven, SameWork, SameCall
    <2>5. QED
      BY <1>7, <2>1, <2>2, <2>3, <2>4 DEF At, Goes, Started, workspace, recovery
  <1>8. ASSUME NEW s \in Slots, PublishRetry(s) PROVE Asked'
    <2>1. /\ Returns(s) /\ UNCHANGED <<runtime, pending>>
          /\ selected' = [selected EXCEPT ![request[s].rt] = request[s].thread]
      BY <1>8 DEF PublishRetry
    <2>2. CASE request[s].stage = "publishing"
      <3>1. /\ operation.stage \in {"barrier", "dying"}
            /\ Goes("running") \/ UNCHANGED operation
        BY <1>8, <2>2 DEF PublishRetry, Goes, Driven
      <3>2. pending.kind \notin {"tool_approval", "full_access_confirmation"}
        BY <1>0, <3>1
      <3>3. operation'.question = operation.question
        BY <3>1, OperationEffects DEF SameCall
      <3>4. QED
        BY <2>1, <3>2, <3>3, RequestEffects, KeptAsked
    <2>3. CASE request[s].stage = "unowned"
      <3>1. UNCHANGED operation /\ orphaned' = (orphaned \/ request[s].rt = runtime)
        BY <1>8, <2>3 DEF PublishRetry
      <3>2. request[s].kind = "retry" /\ request[s].thread \in Threads
        BY <2>3 DEF Shaped
      <3>3. ~HoldsExclusive(s)'
        BY <2>1, RequestEffects
      <3>4. selected'[runtime] = IF request[s].rt = runtime THEN request[s].thread
                                                            ELSE selected[runtime]
        BY <2>1 DEF TypeOK
      <3>5. pending.kind = "full_access_confirmation" => FullKept
        BY <1>0, <2>1, <3>1, <3>2, <3>4
      <3> HIDE DEF HoldsExclusive, FullKept
      <3>6. QED
        BY <2>1, <3>1, <3>3, <3>5, RequestEffects, KeptAsked DEF ToolKept
    <2>4. QED
      BY <1>8, <2>2, <2>3 DEF PublishRetry
  <1>9. ASSUME NEW s \in Slots, SelectThread(s) PROVE Asked'
    <2>1. Returns(s) /\ UNCHANGED operation
      BY <1>9 DEF At, SelectThread, workspace, recovery
    <2>2. QED
      BY <1>9, <2>1, RequestEffects, <1>0, QuestionIs, ClearedAsked, KeptAsked,
         WithdrawnIs DEF SelectThread, At, Driven, OnThreadSelected, TypeOK, Shaped
  <1>10. ASSUME NEW s \in Slots, ChangeMode(s) PROVE Asked'
    <2>1. Returns(s) /\ UNCHANGED operation
      BY <1>10 DEF At, ChangeMode, workspace, recovery
    <2>2. QED
      BY <1>10, <2>1, RequestEffects, <1>0, QuestionIs, ClearedAsked, KeptAsked DEF
         ChangeMode, At
  <1>11. ASSUME NEW s \in Slots, AskFullAccess(s) PROVE Asked'
    <2>1. CASE Asks(s, FreshId)
      <3>1. \A r \in Slots : HoldsExclusive(r) => r = s
        BY <1>11 DEF AskFullAccess, At, Alone, Busy
      <3>2. operation.stage = "none" /\ request[s].rt = runtime /\ request[s].kind = "full"
        BY <1>11 DEF AskFullAccess, At, Driven, Shaped
      <3>3. PICK t \in Threads :
              /\ t = selected[runtime]
              /\ pending' = Question(FreshId, "full_access_confirmation", t, NoTurn)
        BY <1>11, <2>1, <3>2, HeldEffects DEF AskFullAccess, TypeOK, Named, Returns,
           NoRequest
      <3>4. \A r \in Slots : HoldsExclusive(r)' => r = s
        BY <2>1, <3>1, HeldEffects
      <3>5. UNCHANGED <<workspace, operation, orphaned>>
        BY <1>11 DEF AskFullAccess
      <3>6. t # NoThread
        OBVIOUS
      <3>7. \A r \in Slots : HoldsExclusive(r)' => request'[r].kind = "full"
        BY <2>1, <3>2, <3>4, HeldEffects
      <3>8. FreshId # 0 /\ FreshId # operation.question
        BY Fresh
      <3> HIDE DEF HoldsExclusive
      <3>9. QED
        BY <3>2, <3>3, <3>5, <3>6, <3>7, <3>8, QuestionIs DEF Asked
    <2>2. CASE ~Asks(s, FreshId)
      <3>1. Returns(s) /\ UNCHANGED <<pending, operation, workspace, orphaned>>
        BY <1>11, <2>2 DEF AskFullAccess, Asks
      <3>2. QED
        BY <3>1, <1>0, RequestEffects, KeptAsked
    <2>3. QED
      BY <2>1, <2>2
  <1>12. ASSUME NEW s \in Slots, FullAccessAsked(s) PROVE Asked'
    <2>1. Returns(s) /\ UNCHANGED operation
      BY <1>12 DEF At, FullAccessAsked, workspace, recovery
    <2>2. QED
      BY <1>12, <2>1, RequestEffects, <1>0, QuestionIs, ClearedAsked, KeptAsked DEF
         FullAccessAsked, At, Discarded
  <1>13. ASSUME NEW s \in Slots, RevokeNetwork(s) PROVE Asked'
    <2>1. Returns(s) /\ UNCHANGED operation
      BY <1>13 DEF At, RevokeNetwork, workspace, recovery
    <2>2. QED
      BY <1>13, <2>1, RequestEffects, <1>0, QuestionIs, ClearedAsked, KeptAsked DEF
         RevokeNetwork, At
  <1>14. ASSUME NEW s \in Slots, BuildRuntime(s) PROVE Asked'
    <2>1. /\ Builds(s, selected[runtime])
          /\ UNCHANGED operation
          /\ request[s].kind = "publish"
          /\ request[s].stage = "held"
          /\ UNCHANGED <<runtime, selected, permission, pending, queue, status, undelivered,
                         deferred, orphaned>>
      BY <1>14 DEF At, BuildRuntime, Builds, workspace, recovery
    <2>2. QED
      BY <2>1, HeldEffects, <1>0, QuestionIs, ClearedAsked, KeptAsked
  <1>15. ASSUME NEW s \in Slots, PublishRuntime(s) PROVE Asked'
    <2>1. Returns(s) /\ UNCHANGED operation
      BY <1>15 DEF At, PublishRuntime, workspace, recovery
    <2>2. QED
      BY <1>15, <2>1, RequestEffects, <1>0, QuestionIs, ClearedAsked, KeptAsked DEF
         PublishRuntime, At, TypeOK, Shaped
  <1>16. ASSUME NEW s \in Slots, RespondNotFound(s) PROVE Asked'
    <2>1. Returns(s) /\ UNCHANGED operation
      BY <1>16 DEF At, RespondNotFound, workspace, recovery
    <2>2. QED
      BY <1>16, <2>1, RequestEffects, <1>0, QuestionIs, ClearedAsked, KeptAsked DEF
         RespondNotFound, At
  <1>17. ASSUME NEW s \in Slots, RespondToolApproval(s) PROVE Asked'
    <2>1. CASE Hears(request[s].decision, request[s].thread)
      <3>1. \/ pending' = NoQuestion
            \/ pending' = [pending EXCEPT !.decision = request[s].decision]
            \/ UNCHANGED <<pending, operation>>
        BY <1>17 DEF RespondToolApproval
      <3>2. CASE pending' = [pending EXCEPT !.decision = request[s].decision]
        <4>1. /\ pending'.id = pending.id /\ pending'.kind = pending.kind
              /\ pending'.thread = pending.thread /\ pending'.turn = pending.turn
              /\ pending'.decision = request[s].decision
          BY <3>2 DEF TypeOK, QuestionType
        <4>2. pending.kind = "tool_approval"
          BY <1>17 DEF RespondToolApproval, Answering
        <4>3. /\ operation'.stage = operation.stage /\ operation'.thread = operation.thread
              /\ operation'.heard = request[s].decision
              /\ operation'.question = operation.question
          BY <2>1, OperationEffects DEF SameWork, SameCall
        <4>4. pending.id # 0
          BY <1>0, <4>2, QuestionIs
        <4>5. \A r \in Slots : request'[r].stage = "asking" => request'[r] = request[r]
          BY <1>17, RequestEffects DEF RespondToolApproval
        <4>6. QED
          BY <4>1, <4>2, <4>3, <4>4, <4>5 DEF Asked
      <3>3. CASE UNCHANGED <<pending, operation>>
        BY <1>17, <3>3, <1>0, RequestEffects, KeptAsked DEF RespondToolApproval
      <3>4. QED
        BY <3>1, <3>2, <3>3, ClearedAsked
    <2>2. CASE ~Hears(request[s].decision, request[s].thread)
      <3>1. pending' = NoQuestion \/ UNCHANGED <<pending, operation>>
        BY <1>17, <2>2 DEF RespondToolApproval, Hears
      <3>2. CASE UNCHANGED <<pending, operation>>
        BY <1>17, <3>2, <1>0, RequestEffects, KeptAsked DEF RespondToolApproval
      <3>3. QED
        BY <3>1, <3>2, ClearedAsked
    <2>3. QED
      BY <2>1, <2>2
  <1>18. ASSUME NEW s \in Slots, RespondFullAccess(s) PROVE Asked'
    <2>1. CASE Becomes(s, "acknowledged") /\ UNCHANGED operation
      BY <1>18, <2>1, RequestEffects, <1>0, QuestionIs, ClearedAsked, KeptAsked DEF
         RespondFullAccess, At, Answering
    <2>2. CASE Returns(s) /\ UNCHANGED operation
      BY <1>18, <2>2, RequestEffects, <1>0, QuestionIs, ClearedAsked, KeptAsked DEF
         RespondFullAccess, At, Answering
    <2>3. QED
      BY <1>18, <2>1, <2>2 DEF Answering, At, RespondFullAccess, workspace, recovery
  <1>19. ASSUME NEW s \in Slots, EnableFullAccess(s) PROVE Asked'
    <2>1. Returns(s) /\ UNCHANGED operation
      BY <1>19 DEF At, EnableFullAccess, workspace, recovery
    <2>2. QED
      BY <1>19, <2>1, RequestEffects, <1>0, QuestionIs, ClearedAsked, KeptAsked DEF
         EnableFullAccess, At
  <1>20. ASSUME NEW s \in Slots, RespondAbort(s) PROVE Asked'
    <2>1. CASE Becomes(s, "aborting") /\ UNCHANGED operation
      BY <1>20, <2>1, RequestEffects, <1>0, QuestionIs, ClearedAsked, KeptAsked DEF
         RespondAbort, At, Answering
    <2>2. CASE Returns(s) /\ UNCHANGED operation
      BY <1>20, <2>2, RequestEffects, <1>0, QuestionIs, ClearedAsked, KeptAsked DEF
         RespondAbort, At, Answering
    <2>3. QED
      BY <1>20, <2>1, <2>2 DEF Answering, At, RespondAbort, workspace, recovery
  <1>21. ASSUME NEW s \in Slots, RecoveryAborted(s) PROVE Asked'
    <2>1. pending' = NoQuestion \/ UNCHANGED pending
      BY <1>21 DEF RecoveryAborted, Discarded
    <2>2. Returns(s) \/ Becomes(s, "aborted")
      BY <1>21 DEF RecoveryAborted
    <2>3. UNCHANGED <<operation, workspace, orphaned>> /\ HoldsExclusive(s)
          /\ request[s].stage = "aborting"
      BY <1>21 DEF RecoveryAborted
    <2>4. pending.kind # "full_access_confirmation"
      BY <1>0, <2>3 DEF Shaped
    <2>5. QED
      BY <1>0, <2>1, <2>2, <2>3, <2>4, RequestEffects, KeptAsked, ClearedAsked
  <1>22. ASSUME NEW s \in Slots, RespondRetry(s) PROVE Asked'
    <2>1. CASE /\ Becomes(s, "resuming")
               /\ operation' = Reserved(pending.thread, request[s].rt, pending.turn)
      BY <1>22, <2>1, RequestEffects, ReservedEffects, <1>0, QuestionIs, ClearedAsked,
         KeptAsked DEF RespondRetry, At, Answering, Admitted, Bound
    <2>2. CASE Returns(s) /\ UNCHANGED operation
      BY <1>22, <2>2, RequestEffects, <1>0, QuestionIs, ClearedAsked, KeptAsked DEF
         RespondRetry, At, Answering, Admitted, Bound
    <2>3. QED
      BY <1>22, <2>1, <2>2 DEF Answering, At, RespondRetry, workspace, recovery
  <1>23. ASSUME NEW s \in Slots, ClaimRecovery(s) PROVE Asked'
    <2>1. Becomes(s, "starting_recovery") /\ Goes("starting")
      BY <1>23 DEF At, ClaimRecovery, Goes, workspace, recovery
    <2>2. QED
      BY <1>23, <2>1, RequestEffects, OperationEffects, <1>0, QuestionIs, ClearedAsked,
         KeptAsked, WithdrawnIs DEF ClaimRecovery, At, Driven, OnThreadSelected, TypeOK,
         Shaped, SameWork, SameCall
  <1>24. ASSUME NEW s \in Slots, RecoveryStarted(s) PROVE Asked'
    <2>1. CASE Becomes(s, "resumed") /\ UNCHANGED operation
      BY <1>24, <2>1, RequestEffects, <1>0, QuestionIs, ClearedAsked,
         KeptAsked DEF RecoveryStarted, At, Driven
    <2>2. CASE Becomes(s, "resumed") /\ Goes("running")
      BY <1>24, <2>2, RequestEffects, OperationEffects, <1>0, QuestionIs, ClearedAsked,
         KeptAsked DEF RecoveryStarted, At, Driven, SameWork, SameCall
    <2>3. QED
      BY <1>24, <2>1, <2>2 DEF At, Goes, RecoveryStarted, workspace, recovery
  <1>25. ASSUME NEW s \in Slots, ResumePublished(s) PROVE Asked'
    <2>1. Returns(s) /\ Published
      BY <1>25 DEF At, Published, ResumePublished, workspace, recovery
    <2>2. QED
      BY <1>25, <2>1, RequestEffects, OperationEffects, <1>0, QuestionIs, ClearedAsked,
         KeptAsked DEF ResumePublished, At, SameWork, SameCall
  <1>26. ASSUME NEW s \in Slots, Deliver(s) PROVE Asked'
    <2>1. Returns(s) /\ UNCHANGED <<operation, workspace, orphaned>>
      BY <1>26 DEF Deliver
    <2>2. CASE Presented(queue)
      <3>1. queue \in Seq(Unfinished)
        BY DEF TypeOK
      <3>2. QED
        BY <2>1, <2>2, <3>1, RequestEffects, PresentedAsked
    <2>3. CASE UNCHANGED pending
      BY <2>1, <2>3, <1>0, RequestEffects, KeptAsked
    <2>4. QED
      BY <1>26, <2>2, <2>3, PresentEffects DEF Deliver
  <1>27. ASSUME NEW s \in Slots, StartFails(s) PROVE Asked'
    <2>1. Returns(s) /\ operation' = NoOperation
      BY <1>27 DEF At, StartFails, workspace, recovery
    <2>2. QED
      BY <1>27, <2>1, RequestEffects, NoOperationIs, <1>0, QuestionIs, ClearedAsked,
         KeptAsked DEF StartFails, At, Driven
  <1>28. ASSUME NEW s \in Slots, PublishRetryFails(s) PROVE Asked'
    <2>1. CASE Returns(s) /\ operation' = NoOperation
      BY <1>28, <2>1, RequestEffects, NoOperationIs, <1>0, QuestionIs, ClearedAsked,
         KeptAsked DEF PublishRetryFails, At, Driven
    <2>2. CASE Returns(s) /\ UNCHANGED operation
      BY <1>28, <2>2, RequestEffects, <1>0, QuestionIs, ClearedAsked, KeptAsked DEF
         PublishRetryFails, At, Driven
    <2>3. QED
      BY <1>28, <2>1, <2>2 DEF At, PublishRetryFails, workspace, recovery
  <1>29. ASSUME NEW s \in Slots, CommandFails(s) PROVE Asked'
    <2>1. Returns(s) /\ UNCHANGED operation
      BY <1>29 DEF At, CommandFails, workspace, recovery
    <2>2. QED
      BY <1>29, <2>1, RequestEffects, <1>0, QuestionIs, ClearedAsked, KeptAsked DEF
         CommandFails, At
  <1>30. ASSUME NEW s \in Slots, RejectRecovery(s) PROVE Asked'
    <2>1. Returns(s) /\ operation' = NoOperation /\ UNCHANGED <<workspace, orphaned>>
      BY <1>30 DEF RejectRecovery
    <2>2. operation.stage = "reserved"
      BY <1>30 DEF RejectRecovery, Driven
    <2>3. queue' \in Seq(Unfinished)
      <3>1. queue \in Seq(Unfinished) /\ queue # <<>> /\ queue' = Tail(queue)
        BY <1>30, <2>2 DEF RejectRecovery, Driven, Queued, TypeOK
      <3>2. QED
        BY <3>1
    <2>4. pending' \in {NoQuestion, pending} \/ Presented(queue')
      BY <1>30, PresentEffects DEF RejectRecovery, Discarded
    <2>5. CASE UNCHANGED pending
      BY <2>1, <2>2, <2>5, <1>0, RequestEffects, NoOperationIs, KeptAsked
    <2>6. CASE Presented(queue')
      BY <2>1, <2>3, <2>6, RequestEffects, NoOperationIs, PresentedAsked
    <2>7. QED
      BY <2>4, <2>5, <2>6, ClearedAsked
  <1>31. ASSUME NEW s \in Slots, ResumeFails(s) PROVE Asked'
    <2>1. Returns(s) /\ operation' = NoOperation
      BY <1>31 DEF At, ResumeFails, workspace, recovery
    <2>2. QED
      BY <1>31, <2>1, RequestEffects, NoOperationIs, <1>0, QuestionIs, ClearedAsked,
         KeptAsked DEF ResumeFails, At, Driven
  <1>32. ASSUME NEW s \in Slots, RecoveryStartFails(s) PROVE Asked'
    <2>1. Requeues(s, operation.turn) /\ operation' = NoOperation
      BY <1>32 DEF RecoveryStartFails, Requeues
    <2>2. operation.stage \in {"starting", "dying"}
      BY <1>32 DEF RecoveryStartFails, Driven
    <2>3. UNCHANGED <<workspace, pending, orphaned>>
      BY <1>32 DEF RecoveryStartFails
    <2>4. request'[s].kind = request[s].kind /\ ~HoldsExclusive(s) => ~HoldsExclusive(s)'
      BY <2>1, HeldEffects
    <2>5. QED
      BY <2>1, <2>2, <2>3, <2>4, <1>0, HeldEffects, NoOperationIs, KeptAsked
  <1>33. ASSUME NEW c \in Capabilities, CallTool(c) PROVE Asked'
    <2>1. operation.stage = "running" /\ UNCHANGED <<request, workspace, orphaned>>
      BY <1>33 DEF CallTool, OperationFrame
    <2>2. CASE Starts(c) /\ UNCHANGED pending
      <3>1. operation'.stage = "tool" /\ operation'.question = operation.question
        BY <2>2, OperationEffects
      <3>2. pending.kind \notin {"tool_approval", "full_access_confirmation"}
        BY <1>0, <2>1
      <3>3. QED
        BY <2>1, <2>2, <3>1, <3>2, UntouchedAsked
    <2>3. CASE /\ AsksFor(c, FreshId)
               /\ pending' = Question(FreshId, "tool_approval", operation.thread, operation.turn)
      <3>1. /\ operation'.stage = "asking" /\ operation'.question = FreshId
            /\ operation'.thread = operation.thread /\ operation'.heard = operation.heard
        BY <2>3, OperationEffects DEF SameWork
      <3>2. operation.heard = "none"
        BY <2>1 DEF Admission
      <3>3. FreshId # 0 /\ \A r \in Slots : request[r].id # FreshId
        BY Fresh
      <3>4. QED
        BY <2>1, <2>3, <3>1, <3>2, <3>3, QuestionIs DEF Asked
    <2>4. QED
      BY <1>33, <2>2, <2>3 DEF CallTool, Starts, AsksFor
  <1>34. CASE HearDecision
    <2>1. CASE UNCHANGED request /\ operation' = Resumed
      BY <1>34, <2>1, CallEffects, <1>0, QuestionIs, ClearedAsked, UntouchedAsked DEF
         HearDecision, OperationFrame, Continues
    <2>2. CASE /\ UNCHANGED request
               /\ operation' = [Resumed EXCEPT !.stage = "tool", !.needs = operation.needs]
      BY <1>34, <2>2, CallEffects, <1>0, QuestionIs, ClearedAsked, UntouchedAsked DEF
         HearDecision, OperationFrame, Continues
    <2>3. QED
      BY <1>34, <2>1, <2>2 DEF HearDecision, OperationFrame, workspace, recovery
  <1>35. CASE ToolEnds
    <2>1. UNCHANGED request /\ operation' = Resumed
      BY <1>35 DEF OperationFrame, ToolEnds, workspace, recovery
    <2>2. QED
      BY <1>35, <2>1, CallEffects, <1>0, QuestionIs, ClearedAsked, UntouchedAsked DEF
         ToolEnds, OperationFrame, Continues
  <1>36. CASE RecoveryFinished
    <2>1. UNCHANGED request /\ operation' = NoOperation
      BY <1>36 DEF OperationFrame, RecoveryFinished, workspace, recovery
    <2>2. QED
      BY <1>36, <2>1, NoOperationIs, <1>0, QuestionIs, ClearedAsked, UntouchedAsked,
         PresentEffects, PresentedAsked DEF RecoveryFinished, OperationFrame, TypeOK
  <1>37. CASE OperationCancelled
    <2>1. CASE UNCHANGED request /\ operation' = NoOperation
      BY <1>37, <2>1, NoOperationIs, <1>0, QuestionIs, ClearedAsked, UntouchedAsked DEF
         OperationCancelled, OperationFrame, Ends, Discarded, Admission
    <2>2. CASE UNCHANGED request /\ operation' = [Resumed EXCEPT !.stage = "finishing"]
      BY <1>37, <2>2, CallEffects, <1>0, QuestionIs, ClearedAsked, UntouchedAsked DEF
         OperationCancelled, OperationFrame, Ends, Discarded, Admission, Continues
    <2>3. QED
      BY <1>37, <2>1, <2>2 DEF Ends, OperationCancelled, OperationFrame, workspace,
         recovery
  <1>38. CASE OperationFinishes
    <2>1. CASE UNCHANGED request /\ operation' = NoOperation
      BY <1>38, <2>1, NoOperationIs, <1>0, QuestionIs, ClearedAsked, UntouchedAsked DEF
         OperationFinishes, OperationFrame, Ends
    <2>2. CASE UNCHANGED request /\ operation' = [Resumed EXCEPT !.stage = "finishing"]
      BY <1>38, <2>2, CallEffects, <1>0, QuestionIs, ClearedAsked, UntouchedAsked DEF
         OperationFinishes, OperationFrame, Ends, Continues
    <2>3. QED
      BY <1>38, <2>1, <2>2 DEF Ends, OperationFinishes, OperationFrame, workspace,
         recovery
  <1>39. CASE AskFails
    <2>1. UNCHANGED request /\ operation' = Resumed
      BY <1>39 DEF AskFails, OperationFrame, workspace, recovery
    <2>2. QED
      BY <1>39, <2>1, CallEffects, <1>0, QuestionIs, ClearedAsked, UntouchedAsked DEF
         AskFails, OperationFrame, Continues
  <1>40. CASE BarrierCancelled
    <2>1. operation.stage = "barrier" /\ operation' = NoOperation
          /\ UNCHANGED <<pending, workspace, orphaned>>
      BY <1>40 DEF BarrierCancelled, OperationFrame
    <2>2. pending.kind \notin {"tool_approval", "full_access_confirmation"}
      BY <1>0, <2>1
    <2>3. \A r \in Slots : request'[r].stage = "asking" =>
            request[r].stage = "asking" /\ request'[r].id = request[r].id
      BY <1>40, BarrierEffects
    <2>4. QED
      BY <2>1, <2>2, <2>3, NoOperationIs DEF Asked
  <1>41. CASE StartCancelled
    <2>1. UNCHANGED request /\ Goes("dying")
      BY <1>41 DEF Goes, OperationFrame, StartCancelled, workspace, recovery
    <2>2. QED
      BY <1>41, <2>1, OperationEffects, <1>0, QuestionIs, ClearedAsked, UntouchedAsked
         DEF StartCancelled, OperationFrame, SameWork, SameCall
  <1>42. CASE UNCHANGED vars
    BY <1>42 DEF Asked
  <1>43. ASSUME NEW s \in Slots, RecoveryRequeued(s) PROVE Asked'
    <2>1. Returns(s) /\ UNCHANGED <<workspace, operation, orphaned>>
      BY <1>43 DEF RecoveryRequeued
    <2>2. <<request[s].turn>> \o queue \in Seq(Unfinished)
      BY <1>43 DEF RecoveryRequeued, Queued, TypeOK
    <2>3. queue' \in Seq(Unfinished)
      BY <1>43, <2>2 DEF RecoveryRequeued, TypeOK
    <2>4. UNCHANGED pending \/ Presented(queue')
      BY <1>43, PresentEffects DEF RecoveryRequeued
    <2>5. CASE UNCHANGED pending
      BY <2>1, <2>5, <1>0, RequestEffects, KeptAsked
    <2>6. CASE Presented(queue')
      BY <2>1, <2>3, <2>6, RequestEffects, PresentedAsked
    <2>7. QED
      BY <2>4, <2>5, <2>6
  <1>44. QED
    BY <1>1, <1>2, <1>3, <1>4, <1>5, <1>6, <1>7, <1>8, <1>9, <1>10, <1>11, <1>12, <1>13,
       <1>14, <1>15, <1>16, <1>17, <1>18, <1>19, <1>20, <1>21, <1>22, <1>23, <1>24,
       <1>25, <1>26, <1>27, <1>28, <1>29, <1>30, <1>31, <1>32, <1>33, <1>34, <1>35,
       <1>36, <1>37, <1>38, <1>39, <1>40, <1>41, <1>42, <1>43, Moves DEF SlotMoves,
       RequestStep, RequestFails

------------------------------------------------------------------------------

\* What keeps Rights in a step that gives no authority: the slot that moved
\* claims nothing, no decision is heard, and no open request answers a new
\* question.
SlotQuiet(s) ==
  /\ request'[s].stage \notin {"building", "acknowledged"}
  /\ ~(request'[s].kind = "respond" /\ request'[s].stage = "checked")
  /\ request'[s].kind = "retry" /\ request'[s].stage \in {"starting", "publishing"} => ~Given
HeardKept ==
  \/ operation'.heard = "none"
  \/ /\ operation'.heard = operation.heard /\ operation'.thread = operation.thread
     /\ operation'.seen = operation.seen
QuestionKept ==
  \/ pending'.kind \notin {"tool_approval", "full_access_confirmation"}
  \/ pending'.id = pending.id /\ pending'.kind = pending.kind
  \/ \A r \in Slots : request[r].id # pending'.id
NoMore ==
  /\ permission'.mode = permission.mode /\ permission'.writes = permission.writes
  /\ permission'.network \subseteq permission.network
  /\ permission'.owner = permission.owner

\* A step that gives no authority keeps Rights when the slot that moved and
\* the question are as above.
LEMMA KeptRights ==
    ASSUME Rights, UNCHANGED <<runtime, selected, orphaned>>, NoMore,
           NEW s \in Slots,
           \A r \in Slots \ {s} : request'[r] = request[r],
           SlotQuiet(s), HeardKept, QuestionKept
    PROVE  Rights'
  <1>1. Given' => Given
    BY DEF Given, NoMore
  <1>2. ASSUME NEW r \in Slots, r # s
        PROVE  /\ request'[r].kind = "retry" /\ request'[r].stage \in {"starting", "publishing"}
                    => ~Given'
               /\ request'[r].stage = "building" /\ ~orphaned' =>
                    request'[r].thread = selected'[runtime']
               /\ request'[r].stage = "acknowledged" =>
                    /\ request'[r].thread \in Threads
                    /\ ~orphaned' => request'[r].thread = selected'[runtime']
    BY <1>1, <1>2 DEF Rights
  <1>3. ASSUME NEW r \in Slots, r # s, request'[r].kind = "respond", request'[r].stage = "checked",
               request'[r].id = pending'.id,
               pending'.kind \in {"tool_approval", "full_access_confirmation"}
        PROVE  /\ ~orphaned' => request'[r].thread = selected'[runtime']
               /\ pending'.kind = "tool_approval" => request'[r].rt = runtime'
               /\ pending'.kind = "full_access_confirmation" => request'[r].thread \in Threads
    BY <1>3 DEF Rights, QuestionKept
  <1>4. /\ Given' => permission'.owner \in Threads
                     /\ (~orphaned' => permission'.owner = selected'[runtime'])
        /\ ~orphaned' => permission'.network \subseteq {selected'[runtime']}
        /\ operation'.heard # "none" /\ ~orphaned' =>
             operation'.thread = selected'[runtime'] /\ operation'.seen = operation'.thread
    BY <1>1 DEF Rights, NoMore, HeardKept
  <1>5. QED
    BY <1>1, <1>2, <1>3, <1>4 DEF Rights, SlotQuiet

\* The same when no request moves.
LEMMA UntouchedRights ==
    ASSUME Rights, UNCHANGED <<request, runtime, selected, orphaned>>, NoMore,
           HeardKept, QuestionKept
    PROVE  Rights'
  <1>1. Given' => Given
    BY DEF Given, NoMore
  <1>2. ASSUME NEW r \in Slots
        PROVE  request'[r].kind = "respond" /\ request'[r].stage = "checked"
                 /\ request'[r].id = pending'.id
                 /\ pending'.kind \in {"tool_approval", "full_access_confirmation"}
               => /\ ~orphaned' => request'[r].thread = selected'[runtime']
                  /\ pending'.kind = "tool_approval" => request'[r].rt = runtime'
                  /\ pending'.kind = "full_access_confirmation" => request'[r].thread \in Threads
    BY <1>2 DEF Rights, QuestionKept
  <1>3. QED
    BY <1>1, <1>2 DEF Rights, NoMore, HeardKept

\* A permission session that starts afresh, while no request and no Operation
\* holds a claim on the Thread that was selected
LEMMA ResetRights ==
    ASSUME permission' = Moded("request_approval", NoThread), operation'.heard = "none",
           pending'.kind \notin {"tool_approval", "full_access_confirmation"},
           \A r \in Slots : request'[r].stage \notin {"building", "acknowledged"}
    PROVE  Rights'
  <1>1. ~Given' /\ permission'.network = {}
    BY DEF Given, Moded, FreshPermission
  <1>2. QED
    BY <1>1 DEF Rights

\* A mode given for the selected Thread by the request that holds the foreground
LEMMA ModedRights ==
    ASSUME Rights, UNCHANGED <<runtime, selected, orphaned, pending, operation>>, NEW s \in Slots,
           NEW mode, NEW t, permission' = Moded(mode, t),
           mode # "request_approval" =>
             t \in Threads /\ (~orphaned => t = selected[runtime]),
           \A r \in Slots \ {s} : request'[r] = request[r]
             /\ request[r].stage \notin {"starting", "publishing"},
           request'[s].stage = "none"
    PROVE  Rights'
  <1>1. /\ permission'.mode = mode /\ permission'.writes = FALSE /\ permission'.network = {}
        /\ permission'.owner = t
    BY DEF Moded, FreshPermission
  <1>2. QED
    BY <1>1 DEF Rights, Given

\* The generation of a full access question gives no authority.
LEMMA AskedEffects ==
    ASSUME TypeOK, NEW q, permission' = [permission EXCEPT !.asked = q]
    PROVE  NoMore
  <1> permission \in PermissionType
    BY DEF TypeOK
  <1> QED
    BY DEF PermissionType, NoMore

\* Grants that are taken back.
LEMMA NetworkEffects ==
    ASSUME TypeOK, NEW S, permission' = [permission EXCEPT !.network = S]
    PROVE  /\ permission'.mode = permission.mode /\ permission'.writes = permission.writes
           /\ permission'.network = S /\ permission'.owner = permission.owner
  <1> permission \in PermissionType
    BY DEF TypeOK
  <1> QED
    BY DEF PermissionType

\* Grants given by an answer.
LEMMA GrantEffects ==
    ASSUME TypeOK, NEW t
    PROVE  /\ permission' = [permission EXCEPT !.writes = TRUE, !.owner = t] =>
                permission'.network = permission.network /\ permission'.owner = t
           /\ permission' = [permission EXCEPT !.network = @ \cup {t}, !.owner = t] =>
                permission'.network = permission.network \cup {t} /\ permission'.owner = t
  <1> permission \in PermissionType
    BY DEF TypeOK
  <1> QED
    BY DEF PermissionType

\* Every step keeps the authority with the selected Thread.
LEMMA RightsStep ==
    TypeOK /\ Shaped /\ Alone /\ Driven /\ Admission /\ Asked /\ Rights /\ [Next]_vars => Rights'
  <1> SUFFICES ASSUME TypeOK /\ Shaped /\ Alone /\ Driven /\ Admission /\ Asked /\ Rights, [Next]_vars
               PROVE  Rights'
    OBVIOUS
  <1> USE WorkspaceAssumption DEF StartKinds, CommandKinds, SlotQuiet, HeardKept,
     QuestionKept, NoMore, workspace, vars
  <1>0. /\ operation.heard # "none" => operation.stage = "asking"
        /\ pending.kind = "tool_approval" => operation.stage = "asking"
        /\ pending.kind = "full_access_confirmation" => operation.stage = "none"
        /\ NoQuestion.kind = "none"
    BY QuestionIs DEF Asked, Admission
  <1>1. ASSUME NEW s \in Slots, SubmitRequest(s) PROVE Rights'
    <2>1. Enters(s, "start", "checked", selected[runtime], 0, "none") /\ UNCHANGED operation
      BY <1>1 DEF Enters, SubmitRequest, workspace, recovery
    <2>2. QED
      BY <1>1, <2>1, NewEffects, <1>0, KeptRights DEF SubmitRequest
  <1>2. ASSUME NEW s \in Slots, NEW kind, NEW t, NEW mode, Commands(s, kind, t, mode)
        PROVE  Rights'
    <2>1. PICK stage \in {"checked", "held"} :
               /\ Enters(s, kind, stage, t, 0, mode)
               /\ kind = "retry" <=> stage = "checked"
      BY <1>2 DEF Command, Commands, Enters
    <2>2. QED
      BY <1>2, <2>1, NewEffects, <1>0, KeptRights DEF Command, Commands
  <1>3. ASSUME NEW s \in Slots, Initialize(s) PROVE Rights'
    <2>1. ASSUME UNCHANGED <<pending, operation>>,
                 Enters(s, "initialize", "flushing", NoThread, 0, "none")
          PROVE  Rights'
      BY <2>1, <1>3, <1>0, NewEffects, KeptRights DEF Initialize
    <2>2. ASSUME PresentNext(pending, queue, FALSE), UNCHANGED request
          PROVE  Rights'
      BY <2>2, <1>3, PresentEffects, UntouchedRights DEF Initialize, Presented
    <2>3. QED
      BY <1>3, <2>1, <2>2 DEF Initialize, Enters
  <1>4. ASSUME NEW s \in Slots, NEW d \in Decisions, Respond(s, d) PROVE Rights'
    <2>1. /\ Enters(s, "respond", "checked", selected[runtime], pending.id, d) /\ Idle(s)
          /\ UNCHANGED <<runtime, selected, permission, pending, operation, orphaned>>
      BY <1>4 DEF Respond, Enters
    <2>2. /\ request'[s].kind = "respond" /\ request'[s].stage = "checked"
          /\ request'[s].thread = selected[runtime] /\ request'[s].rt = runtime
          /\ \A r \in Slots \ {s} : request'[r] = request[r]
      BY <2>1, NewEffects
    <2>3. pending.kind = "full_access_confirmation" => selected[runtime] \in Threads
      BY DEF Asked, TypeOK, Named
    <2>4. Given' <=> Given
      BY <2>1 DEF Given
    <2>5. \A r \in Slots \ {s} :
            /\ request'[r].kind = "retry" /\ request'[r].stage \in {"starting", "publishing"} => ~Given'
            /\ request'[r].stage = "building" /\ ~orphaned' => request'[r].thread = selected'[runtime']
            /\ request'[r].stage = "acknowledged" =>
                 /\ request'[r].thread \in Threads
                 /\ ~orphaned' => request'[r].thread = selected'[runtime']
            /\ /\ request'[r].kind = "respond" /\ request'[r].stage = "checked"
               /\ request'[r].id = pending'.id
               /\ pending'.kind \in {"tool_approval", "full_access_confirmation"}
               => /\ ~orphaned' => request'[r].thread = selected'[runtime']
                  /\ pending'.kind = "tool_approval" => request'[r].rt = runtime'
                  /\ pending'.kind = "full_access_confirmation" => request'[r].thread \in Threads
      BY <2>1, <2>2, <2>4 DEF Rights
    <2>6. QED
      BY <2>1, <2>2, <2>3, <2>4, <2>5 DEF Rights
  <1>5. ASSUME NEW s \in Slots, Reserve(s) PROVE Rights'
    <2>1. CASE /\ Becomes(s, "reserved")
               /\ operation' = Reserved(request[s].thread, request[s].rt, NoTurn)
      BY <1>5, <2>1, RequestEffects, ReservedEffects, <1>0, KeptRights DEF Reserve, At
    <2>2. CASE Returns(s) /\ UNCHANGED operation
      BY <1>5, <2>2, RequestEffects, <1>0, KeptRights DEF Reserve, At
    <2>3. QED
      BY <1>5, <2>1, <2>2 DEF At, Reserve, workspace, recovery
  <1>6. ASSUME NEW s \in Slots, StartReserved(s) PROVE Rights'
    <2>1. operation.stage = "reserved" /\ Goes("starting") /\ Becomes(s, "starting")
      BY <1>6 DEF StartReserved, Goes, Driven, At
    <2>2. operation'.heard = "none"
      BY <1>0, <2>1, OperationEffects
    <2>3. CASE request[s].kind = "retry"
      <3>1. /\ permission' = Moded("request_approval", NoThread)
            /\ pending' = Withdrawn(pending)
        BY <1>6, <2>3 DEF StartReserved, OnThreadSelected, SetMode
      <3>2. pending'.kind \notin {"tool_approval", "full_access_confirmation"}
        BY <1>0, <2>1, <3>1, WithdrawnIs
      <3>3. \A r \in Slots \ {s} : ~Busy(r)
        BY <1>6 DEF StartReserved, At, Alone, Busy, Drives
      <3>4. \A r \in Slots : request'[r].stage \notin {"building", "acknowledged"}
        BY <2>1, <3>3, RequestEffects DEF Busy, HoldsExclusive, Shaped
      <3>5. QED
        BY <2>2, <3>1, <3>2, <3>4, ResetRights
    <2>4. CASE request[s].kind # "retry"
      BY <1>6, <1>0, <2>1, <2>2, <2>4, RequestEffects, KeptRights DEF StartReserved
    <2>5. QED
      BY <2>3, <2>4
  <1>7. ASSUME NEW s \in Slots, Started(s) PROVE Rights'
    <2>1. /\ request[s].stage = "starting"
          /\ UNCHANGED <<runtime, selected, permission, pending, orphaned>>
      BY <1>7 DEF Started, At
    <2>2. UNCHANGED operation \/ Goes("barrier") \/ Goes("running")
      BY <1>7 DEF Started, Goes
    <2>3. CASE Becomes(s, "publishing")
      <3>1. request[s].kind = "retry" => ~Given
        BY <2>1 DEF Rights
      <3>2. QED
        BY <2>1, <2>2, <2>3, <3>1, RequestEffects, OperationEffects, KeptRights
           DEF SameWork
    <2>4. CASE Returns(s)
      BY <2>1, <2>2, <2>4, RequestEffects, OperationEffects, KeptRights DEF SameWork
    <2>5. QED
      BY <1>7, <2>3, <2>4 DEF Started
  <1>8. ASSUME NEW s \in Slots, PublishRetry(s) PROVE Rights'
    <2>1. /\ Returns(s) /\ UNCHANGED <<runtime, pending, permission>>
          /\ selected' = [selected EXCEPT ![request[s].rt] = request[s].thread]
      BY <1>8 DEF PublishRetry
    <2>2. CASE request[s].stage = "publishing"
      <3>1. /\ operation.stage \in {"barrier", "dying"} /\ request[s].kind = "retry"
            /\ Goes("running") \/ UNCHANGED operation
        BY <1>8, <2>2 DEF PublishRetry, Goes, Driven, Shaped
      <3>2. ~Given
        BY <2>2, <3>1 DEF Rights
      <3>3. operation'.heard = "none"
        BY <1>0, <3>1, OperationEffects
      <3>4. \A r \in Slots \ {s} : ~Busy(r)
        BY <2>2 DEF Alone, Busy, Drives
      <3>5. \A r \in Slots : request'[r].stage \notin {"building", "acknowledged"}
        BY <2>1, <3>4, RequestEffects DEF Busy, HoldsExclusive, Shaped
      <3>6. pending'.kind \notin {"tool_approval", "full_access_confirmation"}
        BY <1>0, <2>1, <3>1
      <3>7. ~Given' /\ permission'.network = {}
        BY <2>1, <3>2 DEF Given
      <3>8. QED
        BY <3>3, <3>5, <3>6, <3>7 DEF Rights
    <2>3. CASE request[s].stage = "unowned"
      <3>1. UNCHANGED operation /\ orphaned' = (orphaned \/ request[s].rt = runtime)
        BY <1>8, <2>3 DEF PublishRetry
      <3>2. CASE request[s].rt = runtime
        <4>1. orphaned'
          BY <3>1, <3>2, Zenon
        <4>2. Given' <=> Given
          BY <2>1 DEF Given
        <4>3. \A r \in Slots \ {s} : request'[r] = request[r]
          BY <2>1, RequestEffects
        <4>4. request'[s].stage = "none"
          BY <2>1, RequestEffects
        <4>5. QED
          BY <2>1, <4>1, <4>2, <4>3, <4>4 DEF Rights
      <3>3. CASE request[s].rt # runtime
        <4>1. orphaned' = orphaned
          BY <3>1, <3>3 DEF TypeOK
        <4>2. selected'[runtime] = selected[runtime]
          BY <2>1, <3>3 DEF TypeOK
        <4>3. Given' <=> Given
          BY <2>1 DEF Given
        <4>4. \A r \in Slots \ {s} : request'[r] = request[r]
          BY <2>1, RequestEffects
        <4>5. request'[s].stage = "none"
          BY <2>1, RequestEffects
        <4>6. QED
          BY <2>1, <3>1, <4>1, <4>2, <4>3, <4>4, <4>5 DEF Rights
      <3>4. QED
        BY <3>2, <3>3
    <2>4. QED
      BY <1>8, <2>2, <2>3 DEF PublishRetry
  <1>9. ASSUME NEW s \in Slots, SelectThread(s) PROVE Rights'
    <2>1. /\ request[s].kind = "select" /\ Returns(s) /\ UNCHANGED operation
          /\ permission' = Moded("request_approval", NoThread) /\ pending' = Withdrawn(pending)
      BY <1>9 DEF SelectThread, At, OnThreadSelected, SetMode
    <2>2. operation.stage = "none" /\ \A r \in Slots \ {s} : ~Busy(r)
      BY <2>1 DEF Driven, Alone, Busy, HoldsExclusive
    <2>3. pending'.kind \notin {"tool_approval", "full_access_confirmation"}
      BY <1>0, <2>1, <2>2, WithdrawnIs
    <2>4. \A r \in Slots : request'[r].stage \notin {"building", "acknowledged"}
      BY <2>1, <2>2, RequestEffects DEF Busy, HoldsExclusive, Shaped
    <2>5. QED
      BY <1>0, <2>1, <2>2, <2>3, <2>4, ResetRights
  <1>10. ASSUME NEW s \in Slots, ChangeMode(s) PROVE Rights'
    <2>1. /\ request[s].kind = "mode" /\ Returns(s)
          /\ UNCHANGED <<runtime, selected, pending, operation, orphaned>>
      BY <1>10 DEF ChangeMode, At
    <2>2. CASE UNCHANGED permission
      BY <2>1, <2>2, RequestEffects, KeptRights
    <2>3. CASE permission' # permission
      <3>1. request[s].rt = runtime
        BY <2>1 DEF Shaped
      <3>2. PICK mode, t :
              /\ permission' = Moded(mode, t)
              /\ mode # "request_approval" => mode = "accept_edits" \/ t = NoThread
              /\ mode = request[s].decision
              /\ t = IF mode = "accept_edits" THEN selected[runtime] ELSE NoThread
              /\ selected[runtime] # NoThread
        BY <1>10, <2>3, <3>1 DEF ChangeMode, SetMode
      <3>3. selected[runtime] \in Threads
        BY <3>2 DEF TypeOK, Named
      <3>4. mode \in {"accept_edits", "request_approval"}
        BY <2>1, <3>2 DEF Shaped, Modes
      <3>5. \A r \in Slots \ {s} : request'[r] = request[r]
              /\ request[r].stage \notin {"starting", "publishing"}
        BY <2>1, RequestEffects DEF Alone, Busy, HoldsExclusive, Drives
      <3>6. request'[s].stage = "none"
        BY <2>1, RequestEffects
      <3>7. QED
        BY <2>1, <3>2, <3>3, <3>4, <3>5, <3>6, ModedRights
    <2>4. QED
      BY <2>2, <2>3
  <1>11. ASSUME NEW s \in Slots, AskFullAccess(s) PROVE Rights'
    <2>1. CASE Asks(s, FreshId)
      <3>1. /\ request[s].kind = "full"
            /\ UNCHANGED <<runtime, selected, operation, orphaned>>
        BY <1>11 DEF AskFullAccess, At
      <3>2. PICK t : /\ pending' = Question(FreshId, "full_access_confirmation", t, NoTurn)
                     /\ permission' = [permission EXCEPT !.asked = FreshId]
        BY <1>11, <2>1, HeldEffects, RequestEffects DEF AskFullAccess
      <3>3. NoMore
        BY <3>2, AskedEffects
      <3>4. QuestionKept
        BY <3>2, QuestionIs, Fresh
      <3>5. SlotQuiet(s)
        BY <2>1, <3>1, HeldEffects
      <3> HIDE DEF NoMore, QuestionKept, SlotQuiet
      <3>6. QED
        BY <2>1, <3>1, <3>3, <3>4, <3>5, HeldEffects, KeptRights
    <2>2. CASE ~Asks(s, FreshId)
      <3>1. /\ Returns(s)
            /\ UNCHANGED <<runtime, selected, permission, pending, operation, orphaned>>
        BY <1>11, <2>2 DEF AskFullAccess, Asks
      <3>2. QED
        BY <3>1, RequestEffects, KeptRights
    <2>3. QED
      BY <2>1, <2>2
  <1>12. ASSUME NEW s \in Slots, FullAccessAsked(s) PROVE Rights'
    <2>1. Returns(s) /\ UNCHANGED <<runtime, selected, operation, orphaned>>
      BY <1>12 DEF FullAccessAsked
    <2>2. pending' = pending \/ pending' = NoQuestion
      BY <1>12 DEF FullAccessAsked, Discarded
    <2>3. UNCHANGED permission \/ permission' = [permission EXCEPT !.asked = 0]
      BY <1>12 DEF FullAccessAsked
    <2>4. NoMore
      BY <2>3, AskedEffects
    <2>5. QuestionKept
      BY <1>0, <2>2
    <2>6. QED
      BY <2>1, <2>4, <2>5, RequestEffects, KeptRights
  <1>13. ASSUME NEW s \in Slots, RevokeNetwork(s) PROVE Rights'
    <2>1. Returns(s) /\ UNCHANGED <<runtime, selected, pending, operation, orphaned>>
      BY <1>13 DEF RevokeNetwork
    <2>2. NoMore
      BY <1>13, NetworkEffects DEF RevokeNetwork
    <2>3. QED
      BY <2>1, <2>2, RequestEffects, KeptRights
  <1>14. ASSUME NEW s \in Slots, BuildRuntime(s) PROVE Rights'
    <2>1. /\ Builds(s, selected[runtime]) /\ request[s].kind = "publish"
          /\ UNCHANGED <<runtime, selected, permission, pending, operation, orphaned>>
      BY <1>14 DEF BuildRuntime, At, Builds
    <2>2. /\ request'[s].kind = "publish" /\ request'[s].stage = "building"
          /\ request'[s].thread = selected[runtime]
          /\ \A r \in Slots \ {s} : request'[r] = request[r]
      BY <2>1, HeldEffects
    <2>3. Given' <=> Given
      BY <2>1 DEF Given
    <2>4. QED
      BY <2>1, <2>2, <2>3 DEF Rights
  <1>15. ASSUME NEW s \in Slots, PublishRuntime(s) PROVE Rights'
    <2>1. CASE operation.stage = "none"
      <3>1. /\ request[s].kind = "publish" /\ request[s].stage = "building" /\ Returns(s)
            /\ runtime' = runtime + 1
            /\ selected' = [selected EXCEPT ![runtime + 1] = request[s].thread]
            /\ permission' = [permission EXCEPT !.network = {}]
            /\ UNCHANGED <<pending, operation, orphaned>>
        BY <1>15, <2>1 DEF PublishRuntime, At
      <3>2. runtime + 1 \in 0 .. MaxRuntime
        BY <3>1 DEF TypeOK, Shaped
      <3>3. selected'[runtime'] = request[s].thread
        BY <3>1, <3>2 DEF TypeOK
      <3>4. ~orphaned => selected'[runtime'] = selected[runtime]
        BY <3>1, <3>3 DEF Rights
      <3>5. /\ permission'.mode = permission.mode /\ permission'.writes = permission.writes
            /\ permission'.network = {} /\ permission'.owner = permission.owner
        BY <3>1, NetworkEffects
      <3>6. pending'.kind \notin {"tool_approval", "full_access_confirmation"}
        <4>1. HoldsExclusive(s)
          BY <3>1 DEF HoldsExclusive
        <4>2. QED
          BY <1>0, <2>1, <3>1, <4>1 DEF Asked
      <3>7. operation'.heard = "none"
        BY <1>0, <2>1, <3>1
      <3>8. \A r \in Slots : /\ request'[r].stage \notin {"building", "acknowledged"}
                             /\ request'[r].stage \notin {"starting", "publishing"}
        BY <3>1, RequestEffects DEF Alone, Busy, Drives, HoldsExclusive, Shaped
      <3>9. Given' => Given
        BY <3>5 DEF Given
      <3>10. QED
        BY <3>1, <3>4, <3>5, <3>6, <3>7, <3>8, <3>9 DEF Rights
    <2>2. CASE operation.stage # "none"
      <3>1. /\ Returns(s)
            /\ UNCHANGED <<runtime, selected, permission, pending, operation, orphaned>>
        BY <1>15, <2>2 DEF PublishRuntime
      <3>2. QED
        BY <3>1, RequestEffects, KeptRights
    <2>3. QED
      BY <2>1, <2>2
  <1>16. ASSUME NEW s \in Slots, RespondNotFound(s) PROVE Rights'
    <2>1. Returns(s) /\ UNCHANGED operation
      BY <1>16 DEF At, RespondNotFound, workspace, recovery
    <2>2. QED
      BY <1>16, <2>1, RequestEffects, <1>0, KeptRights DEF RespondNotFound, At
  <1>17. ASSUME NEW s \in Slots, RespondToolApproval(s) PROVE Rights'
    <2>1. /\ Returns(s) /\ UNCHANGED <<runtime, selected, permission, orphaned>>
          /\ request[s].kind = "respond" /\ request[s].stage = "checked"
          /\ request[s].id = pending.id /\ pending.kind = "tool_approval"
      BY <1>17 DEF RespondToolApproval, Answering, At
    <2>2. CASE Hears(request[s].decision, request[s].thread) /\ operation' # operation
      <3>1. /\ ApprovalCurrent(s)
            /\ pending' = [pending EXCEPT !.decision = request[s].decision]
        BY <1>17, <2>2 DEF RespondToolApproval
      <3>2. pending'.kind = pending.kind /\ pending'.id = pending.id
        BY <3>1 DEF TypeOK, QuestionType
      <3>3. /\ operation'.thread = operation.thread
            /\ operation'.seen = request[s].thread
        BY <2>2, OperationEffects DEF SameWork
      <3>4. ~orphaned => request[s].thread = selected[runtime] /\ request[s].rt = runtime
        BY <2>1 DEF Rights
      <3>5. ~orphaned => operation'.thread = selected[runtime] /\ operation'.seen = operation'.thread
        BY <3>1, <3>3, <3>4 DEF ApprovalCurrent
      <3>6. Given' <=> Given
        BY <2>1 DEF Given
      <3>7. request'[s].stage = "none" /\ \A r \in Slots \ {s} : request'[r] = request[r]
        BY <2>1, RequestEffects
      <3>8. QED
        BY <2>1, <3>2, <3>5, <3>6, <3>7 DEF Rights
    <2>3. CASE UNCHANGED operation
      <3>1. \/ pending' = NoQuestion \/ UNCHANGED pending
            \/ pending' = [pending EXCEPT !.decision = request[s].decision]
        BY <1>17 DEF RespondToolApproval
      <3>2. QuestionKept
        BY <1>0, <3>1 DEF TypeOK, QuestionType
      <3>3. QED
        BY <2>1, <2>3, <3>2, RequestEffects, KeptRights
    <2>4. QED
      BY <1>17, <2>2, <2>3 DEF RespondToolApproval, Hears
  <1>18. ASSUME NEW s \in Slots, RespondFullAccess(s) PROVE Rights'
    <2>1. /\ UNCHANGED <<runtime, selected, operation, orphaned>>
          /\ request[s].kind = "respond" /\ request[s].stage = "checked"
          /\ request[s].id = pending.id /\ pending.kind = "full_access_confirmation"
      BY <1>18 DEF RespondFullAccess, Answering, At
    <2>2. NoMore
      <3>1. PICK q : permission' = [permission EXCEPT !.asked = q]
        BY <1>18 DEF RespondFullAccess
      <3>2. QED
        BY <3>1, AskedEffects
    <2>3. pending' = NoQuestion \/ UNCHANGED pending
      BY <1>18 DEF RespondFullAccess
    <2>4. QuestionKept
      BY <1>0, <2>3
    <2>5. CASE Returns(s)
      BY <2>1, <2>2, <2>4, <2>5, RequestEffects, KeptRights
    <2>6. CASE Becomes(s, "acknowledged") /\ pending' = NoQuestion
      <3>1. /\ request[s].thread \in Threads
            /\ ~orphaned => request[s].thread = selected[runtime]
        BY <2>1 DEF Rights
      <3>2. /\ request'[s].stage = "acknowledged" /\ request'[s].kind = "respond"
            /\ request'[s].thread = request[s].thread
            /\ \A r \in Slots \ {s} : request'[r] = request[r]
        BY <2>1, <2>6, RequestEffects
      <3>3. Given' => Given
        BY <2>2 DEF Given
      <3>4. operation.heard = "none"
        BY <1>0, <2>1
      <3>5. pending'.kind = "none"
        BY <1>0, <2>6
      <3>6. QED
        BY <2>1, <2>2, <3>1, <3>2, <3>3, <3>4, <3>5 DEF Rights
    <2>7. QED
      BY <1>18, <2>5, <2>6 DEF RespondFullAccess
  <1>19. ASSUME NEW s \in Slots, EnableFullAccess(s) PROVE Rights'
    <2>1. /\ request[s].stage = "acknowledged" /\ Returns(s)
          /\ UNCHANGED <<runtime, selected, pending, operation, orphaned>>
      BY <1>19 DEF EnableFullAccess
    <2>2. CASE UNCHANGED permission
      BY <2>1, <2>2, RequestEffects, KeptRights
    <2>3. CASE permission' = Moded("full_access", request[s].thread)
      <3>1. request[s].thread \in Threads /\ (~orphaned => request[s].thread = selected[runtime])
        BY <2>1 DEF Rights
      <3>2. \A r \in Slots \ {s} : request'[r] = request[r]
              /\ request[r].stage \notin {"starting", "publishing"}
        BY <2>1, RequestEffects DEF Alone, Busy, HoldsExclusive, Drives
      <3>3. request'[s].stage = "none"
        BY <2>1, RequestEffects
      <3>4. QED
        BY <2>1, <2>3, <3>1, <3>2, <3>3, ModedRights
    <2>4. QED
      BY <1>19, <2>2, <2>3 DEF EnableFullAccess, SetMode
  <1>20. ASSUME NEW s \in Slots, RespondAbort(s) PROVE Rights'
    <2>1. CASE Becomes(s, "aborting") /\ UNCHANGED operation
      BY <1>20, <2>1, RequestEffects, <1>0, KeptRights DEF RespondAbort, At, Answering
    <2>2. CASE Returns(s) /\ UNCHANGED operation
      BY <1>20, <2>2, RequestEffects, <1>0, KeptRights DEF RespondAbort, At, Answering
    <2>3. QED
      BY <1>20, <2>1, <2>2 DEF Answering, At, RespondAbort, workspace, recovery
  <1>21. ASSUME NEW s \in Slots, RecoveryAborted(s) PROVE Rights'
    <2>1. CASE Becomes(s, "aborted") /\ UNCHANGED operation
      BY <1>21, <2>1, RequestEffects, <1>0, KeptRights DEF RecoveryAborted, At,
         Discarded
    <2>2. CASE Returns(s) /\ UNCHANGED operation
      BY <1>21, <2>2, RequestEffects, <1>0, KeptRights DEF RecoveryAborted, At,
         Discarded
    <2>3. QED
      BY <1>21, <2>1, <2>2 DEF At, RecoveryAborted, workspace, recovery
  <1>22. ASSUME NEW s \in Slots, RespondRetry(s) PROVE Rights'
    <2>1. CASE /\ Becomes(s, "resuming")
               /\ operation' = Reserved(pending.thread, request[s].rt, pending.turn)
      BY <1>22, <2>1, RequestEffects, ReservedEffects, <1>0, KeptRights DEF
         RespondRetry, At, Answering
    <2>2. CASE Returns(s) /\ UNCHANGED operation
      BY <1>22, <2>2, RequestEffects, <1>0, KeptRights DEF RespondRetry, At, Answering
    <2>3. QED
      BY <1>22, <2>1, <2>2 DEF Answering, At, RespondRetry, workspace, recovery
  <1>23. ASSUME NEW s \in Slots, ClaimRecovery(s) PROVE Rights'
    <2>1. /\ request[s].stage = "resuming"
          /\ Becomes(s, "starting_recovery")
          /\ Goes("starting")
          /\ permission' = Moded("request_approval", NoThread) /\ pending' = Withdrawn(NoQuestion)
      BY <1>23 DEF ClaimRecovery, OnThreadSelected, SetMode, Goes
    <2>2. operation.stage = "reserved" /\ \A r \in Slots \ {s} : ~Busy(r)
      BY <2>1 DEF Driven, Alone, Busy, Drives
    <2>3. pending'.kind \notin {"tool_approval", "full_access_confirmation"}
      BY <1>0, <2>1, WithdrawnIs
    <2>4. \A r \in Slots : request'[r].stage \notin {"building", "acknowledged"}
      BY <2>1, <2>2, RequestEffects DEF Busy, HoldsExclusive, Shaped
    <2>5. operation'.heard = "none"
      BY <1>0, <2>1, <2>2, OperationEffects
    <2>6. QED
      BY <2>1, <2>3, <2>4, <2>5, ResetRights
  <1>24. ASSUME NEW s \in Slots, RecoveryStarted(s) PROVE Rights'
    <2>1. CASE Becomes(s, "resumed") /\ UNCHANGED operation
      BY <1>24, <2>1, RequestEffects, <1>0, KeptRights DEF RecoveryStarted, At
    <2>2. CASE Becomes(s, "resumed") /\ Goes("running")
      BY <1>24, <2>2, RequestEffects, OperationEffects, <1>0, KeptRights DEF
         RecoveryStarted, At, SameWork, SameCall
    <2>3. QED
      BY <1>24, <2>1, <2>2 DEF At, Goes, RecoveryStarted, workspace, recovery
  <1>25. ASSUME NEW s \in Slots, ResumePublished(s) PROVE Rights'
    <2>1. Returns(s) /\ Published
      BY <1>25 DEF At, Published, ResumePublished, workspace, recovery
    <2>2. QED
      BY <1>25, <2>1, RequestEffects, OperationEffects, <1>0, KeptRights DEF
         ResumePublished, At, SameWork, SameCall
  <1>26. ASSUME NEW s \in Slots, Deliver(s) PROVE Rights'
    <2>1. Returns(s) /\ UNCHANGED operation
      BY <1>26 DEF At, Deliver, workspace, recovery
    <2>2. QED
      BY <1>26, <2>1, RequestEffects, <1>0, KeptRights, PresentEffects DEF Deliver, At,
         Presented
  <1>27. ASSUME NEW s \in Slots, StartFails(s) PROVE Rights'
    <2>1. Returns(s) /\ operation' = NoOperation
      BY <1>27 DEF At, StartFails, workspace, recovery
    <2>2. QED
      BY <1>27, <2>1, RequestEffects, NoOperationIs, <1>0, KeptRights DEF StartFails, At
  <1>28. ASSUME NEW s \in Slots, PublishRetryFails(s) PROVE Rights'
    <2>1. CASE Returns(s) /\ operation' = NoOperation
      BY <1>28, <2>1, RequestEffects, NoOperationIs, <1>0, KeptRights DEF
         PublishRetryFails, At
    <2>2. CASE Returns(s) /\ UNCHANGED operation
      BY <1>28, <2>2, RequestEffects, <1>0, KeptRights DEF PublishRetryFails, At
    <2>3. QED
      BY <1>28, <2>1, <2>2 DEF At, PublishRetryFails, workspace, recovery
  <1>29. ASSUME NEW s \in Slots, CommandFails(s) PROVE Rights'
    <2>1. Returns(s) /\ UNCHANGED operation
      BY <1>29 DEF At, CommandFails, workspace, recovery
    <2>2. QED
      BY <1>29, <2>1, RequestEffects, <1>0, KeptRights DEF CommandFails, At
  <1>30. ASSUME NEW s \in Slots, RejectRecovery(s) PROVE Rights'
    <2>1. Returns(s) /\ operation' = NoOperation
      BY <1>30 DEF At, RejectRecovery, workspace, recovery
    <2>2. QED
      BY <1>30, <2>1, RequestEffects, NoOperationIs, <1>0, KeptRights, PresentEffects
         DEF RejectRecovery, At, Presented, Discarded
  <1>31. ASSUME NEW s \in Slots, ResumeFails(s) PROVE Rights'
    <2>1. Returns(s) /\ operation' = NoOperation
      BY <1>31 DEF At, ResumeFails, workspace, recovery
    <2>2. QED
      BY <1>31, <2>1, RequestEffects, NoOperationIs, <1>0, KeptRights DEF ResumeFails,
         At
  <1>32. ASSUME NEW s \in Slots, RecoveryStartFails(s) PROVE Rights'
    <2>1. /\ Requeues(s, operation.turn) /\ operation' = NoOperation
          /\ UNCHANGED <<runtime, selected, permission, pending, orphaned>>
      BY <1>32 DEF RecoveryStartFails, Requeues
    <2>2. /\ request'[s].stage = "requeueing" /\ request'[s].kind = request[s].kind
          /\ request'[s].rt = request[s].rt /\ request'[s].thread = request[s].thread
          /\ request'[s].id = request[s].id /\ request'[s].turn = operation.turn
          /\ \A r \in Slots \ {s} : request'[r] = request[r]
      BY <2>1, HeldEffects
    <2>3. QED
      BY <2>1, <2>2, <1>0, NoOperationIs, KeptRights
  <1>33. ASSUME NEW c \in Capabilities, CallTool(c) PROVE Rights'
    <2>1. /\ operation.stage = "running"
          /\ UNCHANGED <<request, runtime, selected, permission, orphaned>>
      BY <1>33 DEF CallTool, OperationFrame
    <2>2. Starts(c) \/ AsksFor(c, FreshId)
      BY <1>33 DEF CallTool, Starts, AsksFor
    <2>3. operation'.heard = "none"
      BY <1>0, <2>1, <2>2, OperationEffects
    <2>4. pending' = pending \/ pending'.id = FreshId
      BY <1>33, QuestionIs DEF CallTool
    <2>5. QuestionKept
      BY <2>4, Fresh
    <2>6. QED
      BY <2>1, <2>3, <2>5, UntouchedRights
  <1>34. CASE HearDecision
    <2>1. /\ operation.stage = "asking" /\ pending.id = operation.question
          /\ pending.decision # "none" /\ pending' = NoQuestion
          /\ UNCHANGED <<request, runtime, selected, orphaned>>
      BY <1>34 DEF HearDecision, OperationFrame
    <2>2. /\ operation.heard # "none" /\ operation.thread \in Threads
          /\ ~orphaned => operation.thread = selected[runtime]
      BY <2>1 DEF Asked, Admission, Rights
    <2>3. operation'.heard = "none"
      BY <1>34, CallEffects DEF HearDecision, Continues
    <2>4. CASE UNCHANGED permission
      BY <1>0, <2>1, <2>3, <2>4, UntouchedRights
    <2>5. CASE \/ permission' = [permission EXCEPT !.writes = TRUE, !.owner = operation.thread]
               \/ permission' = [permission EXCEPT !.network = @ \cup {operation.thread},
                                                   !.owner = operation.thread]
      <3>1. /\ permission'.network \in {permission.network,
                                        permission.network \cup {operation.thread}}
            /\ permission'.owner = operation.thread
        BY <2>5, GrantEffects
      <3>2. \A r \in Slots : request[r].stage \notin {"starting", "publishing", "acknowledged"}
        BY <2>1 DEF Driven, HoldsExclusive
      <3>3. ~orphaned => permission'.network \subseteq {selected[runtime]}
        BY <2>2, <3>1 DEF Rights
      <3>4. QED
        BY <1>0, <2>1, <2>2, <2>3, <3>1, <3>2, <3>3 DEF Rights
    <2>6. QED
      BY <1>34, <2>4, <2>5 DEF HearDecision
  <1>35. CASE ToolEnds
    <2>1. UNCHANGED request /\ operation' = Resumed
      BY <1>35 DEF OperationFrame, ToolEnds, workspace, recovery
    <2>2. QED
      BY <1>35, <2>1, CallEffects, <1>0, UntouchedRights DEF ToolEnds, OperationFrame,
         Continues
  <1>36. CASE RecoveryFinished
    <2>1. UNCHANGED request /\ operation' = NoOperation
      BY <1>36 DEF OperationFrame, RecoveryFinished, workspace, recovery
    <2>2. QED
      BY <1>36, <2>1, NoOperationIs, <1>0, UntouchedRights, PresentEffects DEF
         RecoveryFinished, OperationFrame, Presented
  <1>37. CASE OperationCancelled
    <2>1. CASE UNCHANGED request /\ operation' = NoOperation
      BY <1>37, <2>1, NoOperationIs, <1>0, UntouchedRights DEF OperationCancelled,
         OperationFrame, Ends, Discarded
    <2>2. CASE UNCHANGED request /\ operation' = [Resumed EXCEPT !.stage = "finishing"]
      BY <1>37, <2>2, CallEffects, <1>0, UntouchedRights DEF OperationCancelled,
         OperationFrame, Ends, Discarded, Continues
    <2>3. QED
      BY <1>37, <2>1, <2>2 DEF Ends, OperationCancelled, OperationFrame, workspace,
         recovery
  <1>38. CASE OperationFinishes
    <2>1. CASE UNCHANGED request /\ operation' = NoOperation
      BY <1>38, <2>1, NoOperationIs, <1>0, UntouchedRights DEF OperationFinishes,
         OperationFrame, Ends
    <2>2. CASE UNCHANGED request /\ operation' = [Resumed EXCEPT !.stage = "finishing"]
      BY <1>38, <2>2, CallEffects, <1>0, UntouchedRights DEF OperationFinishes,
         OperationFrame, Ends, Continues
    <2>3. QED
      BY <1>38, <2>1, <2>2 DEF Ends, OperationFinishes, OperationFrame, workspace,
         recovery
  <1>39. CASE AskFails
    <2>1. UNCHANGED request /\ operation' = Resumed
      BY <1>39 DEF AskFails, OperationFrame, workspace, recovery
    <2>2. QED
      BY <1>39, <2>1, CallEffects, <1>0, UntouchedRights DEF AskFails, OperationFrame,
         Continues
  <1>40. CASE BarrierCancelled
    <2>1. /\ operation' = NoOperation /\ operation.stage = "barrier"
          /\ UNCHANGED <<pending, permission, runtime, selected, orphaned>>
      BY <1>40 DEF BarrierCancelled, OperationFrame
    <2>2. /\ operation'.heard = "none"
          /\ pending'.kind \notin {"tool_approval", "full_access_confirmation"}
      BY <1>0, <2>1, NoOperationIs
    <2>3. Given' <=> Given
      BY <2>1 DEF Given
    <2>4. \A r \in Slots :
            /\ request'[r].kind = request[r].kind /\ request'[r].thread = request[r].thread
            /\ request'[r].stage = request[r].stage \/ request'[r].stage = "unowned"
      BY <1>40, BarrierEffects
    <2>5. QED
      BY <2>1, <2>2, <2>3, <2>4 DEF Rights
  <1>41. CASE StartCancelled
    <2>1. UNCHANGED request /\ Goes("dying")
      BY <1>41 DEF Goes, OperationFrame, StartCancelled, workspace, recovery
    <2>2. QED
      BY <1>41, <2>1, OperationEffects, <1>0, UntouchedRights DEF StartCancelled,
         OperationFrame, SameWork, SameCall
  <1>42. CASE UNCHANGED vars
    BY <1>42 DEF Rights, Given
  <1>43. ASSUME NEW s \in Slots, RecoveryRequeued(s) PROVE Rights'
    <2>1. Returns(s) /\ UNCHANGED operation
      BY <1>43 DEF RecoveryRequeued
    <2>2. QED
      BY <1>43, <2>1, RequestEffects, <1>0, KeptRights, PresentEffects
         DEF RecoveryRequeued, Presented
  <1>44. QED
    BY <1>1, <1>2, <1>3, <1>4, <1>5, <1>6, <1>7, <1>8, <1>9, <1>10, <1>11, <1>12, <1>13,
       <1>14, <1>15, <1>16, <1>17, <1>18, <1>19, <1>20, <1>21, <1>22, <1>23, <1>24,
       <1>25, <1>26, <1>27, <1>28, <1>29, <1>30, <1>31, <1>32, <1>33, <1>34, <1>35,
       <1>36, <1>37, <1>38, <1>39, <1>40, <1>41, <1>42, <1>43, Moves DEF SlotMoves,
       RequestStep, RequestFails

------------------------------------------------------------------------------

\* The head of a queue without repetition and its rest.
LEMMA HeadTail ==
    ASSUME NEW S, NEW q \in Seq(S), q # <<>>, Distinct(q)
    PROVE  /\ Tail(q) \in Seq(S) /\ Distinct(Tail(q)) /\ Head(q) \in S
           /\ ToSet(q) = {Head(q)} \cup ToSet(Tail(q))
           /\ Head(q) \notin ToSet(Tail(q))
  <1>1. Len(q) \in Nat \ {0} /\ Head(q) = q[1] /\ \A i \in 1 .. Len(q) : q[i] \in S
    OBVIOUS
  <1>2. /\ Tail(q) \in Seq(S) /\ Len(Tail(q)) = Len(q) - 1
        /\ \A i \in 1 .. Len(q) - 1 : Tail(q)[i] = q[i + 1]
    OBVIOUS
  <1>3. \A i, j \in 1 .. Len(q) : q[i] = q[j] => i = j
    BY DEF Distinct
  <1>4. ASSUME NEW i \in 1 .. Len(q) - 1, NEW j \in 1 .. Len(q) - 1, Tail(q)[i] = Tail(q)[j]
        PROVE  i = j
    <2>1. i + 1 \in 1 .. Len(q) /\ j + 1 \in 1 .. Len(q) /\ q[i + 1] = q[j + 1]
      BY <1>1, <1>2, <1>4
    <2>2. i + 1 = j + 1
      BY <1>3, <2>1
    <2>3. QED
      BY <2>2
  <1>5. ToSet(q) = {q[i] : i \in 1 .. Len(q)}
    BY DEF ToSet
  <1>6. ToSet(Tail(q)) = {Tail(q)[i] : i \in 1 .. Len(q) - 1}
    <2>1. DOMAIN Tail(q) = 1 .. Len(q) - 1
      BY <1>2
    <2>2. QED
      BY <2>1, Zenon DEF ToSet
  <1>7. ASSUME NEW u \in ToSet(q) PROVE u = q[1] \/ u \in ToSet(Tail(q))
    <2>1. PICK i \in 1 .. Len(q) : u = q[i]
      BY <1>5, <1>7
    <2>2. CASE i = 1
      BY <2>1, <2>2
    <2>3. CASE i # 1
      <3>1. i - 1 \in 1 .. Len(q) - 1 /\ (i - 1) + 1 = i
        BY <1>1, <2>3
      <3>2. Tail(q)[i - 1] = u
        BY <1>2, <2>1, <3>1
      <3>3. QED
        BY <1>6, <3>1, <3>2
    <2>4. QED
      BY <2>2, <2>3
  <1>8. ASSUME NEW u \in ToSet(Tail(q)) PROVE u \in ToSet(q) /\ u # q[1]
    <2>1. PICK i \in 1 .. Len(q) - 1 : u = Tail(q)[i]
      BY <1>6, <1>8
    <2>2. i + 1 \in 1 .. Len(q) /\ u = q[i + 1] /\ i + 1 # 1 /\ 1 \in 1 .. Len(q)
      BY <1>1, <1>2, <2>1
    <2>3. QED
      BY <1>3, <1>5, <2>2
  <1>9. q[1] \in ToSet(q)
    BY <1>1, <1>5
  <1>10. Distinct(Tail(q))
    BY <1>2, <1>4 DEF Distinct
  <1>11. QED
    BY <1>1, <1>2, <1>7, <1>8, <1>9, <1>10

\* A Turn that was not in the queue, put at its head.
LEMMA Prepended ==
    ASSUME NEW S, NEW q \in Seq(S), NEW u \in S, u \notin ToSet(q), Distinct(q)
    PROVE  /\ <<u>> \o q \in Seq(S) /\ Distinct(<<u>> \o q)
           /\ ToSet(<<u>> \o q) = {u} \cup ToSet(q)
  <1> DEFINE p == <<u>> \o q
  <1>1. /\ p \in Seq(S) /\ Len(p) = Len(q) + 1 /\ Len(q) \in Nat
        /\ p[1] = u /\ \A i \in 2 .. Len(q) + 1 : p[i] = q[i - 1]
    OBVIOUS
  <1>2. ToSet(q) = {q[i] : i \in 1 .. Len(q)}
    BY DEF ToSet
  <1>3. ToSet(p) = {p[i] : i \in 1 .. Len(q) + 1}
    <2>1. DOMAIN p = 1 .. Len(q) + 1
      BY <1>1
    <2>2. QED
      BY <2>1, Zenon DEF ToSet
  <1> HIDE DEF p
  <1>4. \A i \in 2 .. Len(q) + 1 : i - 1 \in 1 .. Len(q) /\ p[i] = q[i - 1] /\ p[i] \in ToSet(q)
    BY <1>1, <1>2
  <1>5. ASSUME NEW i \in 1 .. Len(q) + 1, NEW j \in 1 .. Len(q) + 1, p[i] = p[j]
        PROVE  i = j
    <2>1. CASE i = 1 \/ j = 1
      <3>1. i = 1 \/ i \in 2 .. Len(q) + 1
        BY <1>1
      <3>2. j = 1 \/ j \in 2 .. Len(q) + 1
        BY <1>1
      <3>3. QED
        BY <1>1, <1>4, <1>5, <2>1, <3>1, <3>2
    <2>2. CASE i # 1 /\ j # 1
      <3>1. i \in 2 .. Len(q) + 1 /\ j \in 2 .. Len(q) + 1
        BY <1>1, <2>2
      <3>2. i - 1 = j - 1
        BY <1>4, <1>5, <3>1 DEF Distinct
      <3>3. QED
        BY <3>1, <3>2
    <2>3. QED
      BY <2>1, <2>2
  <1>6. Distinct(p)
    BY <1>1, <1>5 DEF Distinct
  <1>7. ASSUME NEW v \in ToSet(q) PROVE v \in ToSet(p)
    <2>1. PICK i \in 1 .. Len(q) : v = q[i]
      BY <1>2, <1>7
    <2>2. i + 1 \in 2 .. Len(q) + 1 /\ i + 1 \in 1 .. Len(q) + 1 /\ (i + 1) - 1 = i
      BY <1>1
    <2>3. p[i + 1] = v
      BY <1>1, <2>1, <2>2
    <2>4. QED
      BY <1>3, <2>2, <2>3
  <1>8. ASSUME NEW v \in ToSet(p) PROVE v = u \/ v \in ToSet(q)
    <2>1. PICK i \in 1 .. Len(q) + 1 : v = p[i]
      BY <1>3, <1>8
    <2>2. i = 1 \/ i \in 2 .. Len(q) + 1
      BY <1>1
    <2>3. QED
      BY <1>1, <1>4, <2>1, <2>2
  <1>9. u \in ToSet(p)
    BY <1>1, <1>3
  <1>10. QED
    BY <1>1, <1>6, <1>7, <1>8, <1>9 DEF p

\* What keeps Queued while the queue and the Turns' status stay
WorkKept ==
  \/ operation'.turn = NoTurn /\ operation.turn = NoTurn
  \/ /\ operation'.turn = operation.turn /\ operation'.published = operation.published
     /\ \/ operation'.stage = operation.stage
        \/ {operation'.stage, operation.stage} \subseteq {"running", "asking", "tool"}
        \/ operation.stage \in {"starting", "dying"} /\ operation'.stage = "dying"

RequeueKept ==
  \A r \in Slots :
    /\ request'[r].stage = "requeueing" <=> request[r].stage = "requeueing"
    /\ request[r].stage = "requeueing" => request'[r].turn = request[r].turn

LEMMA KeptQueued ==
    ASSUME Queued, UNCHANGED <<queue, status>>, WorkKept, RequeueKept,
           \A r \in Slots : request'[r].stage \in {"aborting", "resumed"} =>
                              request'[r].stage = request[r].stage,
           operation.turn # NoTurn /\ operation.stage = "reserved" /\ AsksHead(pending, queue) =>
             AsksHead(pending', queue)
    PROVE  Queued'
  <1>1. /\ \A r \in Slots : request'[r].stage = "requeueing" =>
             /\ request'[r].turn \in Unfinished /\ request'[r].turn \notin ToSet(queue)
             /\ status[request'[r].turn] = "in_progress"
        /\ \A u \in Unfinished :
             (\E r \in Slots : request[r].stage = "requeueing" /\ request[r].turn = u) =>
               \E r \in Slots : request'[r].stage = "requeueing" /\ request'[r].turn = u
    BY DEF Queued, RequeueKept
  <1>2. CASE operation'.turn = NoTurn /\ operation.turn = NoTurn
    BY <1>1, <1>2 DEF Queued
  <1>3. CASE operation'.turn = operation.turn /\ operation.turn # NoTurn
    BY <1>1, <1>3 DEF Queued, WorkKept
  <1>4. QED
    BY <1>2, <1>3 DEF WorkKept

\* The end of the work settles its Turn, which has left the queue.
LEMMA EndedQueued ==
    ASSUME TypeOK, Driven, Admission, Queued,
           operation.stage \in {"running", "asking", "tool"}, Ends,
           UNCHANGED <<request, queue>>
    PROVE  Queued'
  <1>1. CASE operation.turn = NoTurn
    <2>1. operation'.turn = NoTurn /\ UNCHANGED status
      BY <1>1, NoOperationIs DEF Ends
    <2>2. QED
      BY <1>1, <2>1 DEF Queued
  <1>2. CASE operation.turn # NoTurn
    <2>1. /\ operation' = [Resumed EXCEPT !.stage = "finishing"]
          /\ status' = [status EXCEPT ![operation.turn] = "settled"]
      BY <1>2 DEF Ends
    <2>2. /\ operation'.stage = "finishing" /\ operation'.turn = operation.turn
          /\ operation'.published = operation.published
      BY <2>1, CallEffects DEF Continues
    <2>3. operation.turn \in Unfinished
      BY <1>2 DEF TypeOK, OperationType
    <2>4. operation.turn \notin ToSet(queue) /\ status[operation.turn] = "in_progress"
      BY <1>2 DEF Queued
    <2>5. /\ status'[operation.turn] = "settled"
          /\ \A u \in Unfinished : u # operation.turn => status'[u] = status[u]
      BY <2>1, <2>3 DEF TypeOK
    <2>6. \A u \in ToSet(queue) : u \in Unfinished
      BY DEF TypeOK, ToSet
    <2>7. \A r \in Slots : request[r].stage # "requeueing"
      BY <1>2 DEF Driven
    <2>8. \A u \in ToSet(queue) : status'[u] = "in_progress"
      BY <2>4, <2>5, <2>6 DEF Queued
    <2>9. \A u \in Unfinished : status'[u] = "in_progress" => u \in ToSet(queue)
      BY <2>5, <2>7 DEF Queued
    <2>10. \A r \in Slots : request[r].stage = "resumed" =>
             operation.turn # NoTurn /\ ~operation.published
      BY <1>2 DEF Queued
    <2>11. QED
      <3>1. \A r \in Slots : request'[r].stage = "resumed" =>
              /\ operation'.turn # NoTurn /\ ~operation'.published
              /\ operation'.stage \in {"running", "asking", "tool", "finishing", "dying"}
        BY <2>2, <2>10
      <3>2. QED
        BY <2>2, <2>5, <2>7, <2>8, <2>9, <3>1 DEF Queued
  <1>3. QED
    BY <1>1, <1>2

\* Every step keeps account of every unfinished Turn.
LEMMA QueuedStep ==
    TypeOK /\ Shaped /\ Alone /\ Driven /\ Admission /\ Asked /\ Queued /\ [Next]_vars => Queued'
  <1> SUFFICES ASSUME TypeOK /\ Shaped /\ Alone /\ Driven /\ Admission /\ Asked /\ Queued, [Next]_vars
               PROVE  Queued'
    OBVIOUS
  <1> USE WorkspaceAssumption DEF AsksHead, WorkKept, RequeueKept, workspace, recovery,
     vars
  <1>0. /\ operation.stage \in {"none", "barrier"} => operation.turn = NoTurn
        /\ NoOperation.turn = NoTurn /\ NoQuestion.kind = "none"
    BY NoOperationIs, QuestionIs DEF Admission
  <1>1. ASSUME NEW s \in Slots, SubmitRequest(s) PROVE Queued'
    <2>1. Enters(s, "start", "checked", selected[runtime], 0, "none") /\ UNCHANGED operation
      BY <1>1 DEF Enters, SubmitRequest, workspace, recovery
    <2>2. QED
      BY <1>1, <2>1, NewEffects, <1>0, KeptQueued DEF SubmitRequest
  <1>2. ASSUME NEW s \in Slots, NEW kind, NEW t, NEW mode, Commands(s, kind, t, mode)
        PROVE  Queued'
    <2>1. PICK stage \in {"checked", "held"} :
               /\ Enters(s, kind, stage, t, 0, mode)
               /\ kind = "retry" <=> stage = "checked"
      BY <1>2 DEF Command, Commands, Enters
    <2>2. QED
      BY <1>2, <2>1, NewEffects, <1>0, KeptQueued DEF Command, Commands
  <1>3. ASSUME NEW s \in Slots, Initialize(s) PROVE Queued'
    <2>1. ASSUME UNCHANGED <<pending, operation, queue, status>>,
                 Enters(s, "initialize", "flushing", NoThread, 0, "none")
          PROVE  Queued'
      BY <2>1, <1>3, <1>0, NewEffects, KeptQueued DEF Initialize
    <2>2. ASSUME PresentNext(pending, queue, FALSE), UNCHANGED <<request, operation, queue, status>>
          PROVE  Queued'
      BY <2>2, <1>0, PresentEffects, KeptQueued
    <2>3. QED
      BY <1>3, <2>1, <2>2 DEF Initialize, Enters
  <1>4. ASSUME NEW s \in Slots, NEW d \in Decisions, Respond(s, d) PROVE Queued'
    <2>1. /\ Enters(s, "respond", "checked", selected[runtime], pending.id, d)
          /\ UNCHANGED operation
      BY <1>4 DEF Enters, Respond, workspace, recovery
    <2>2. QED
      BY <1>4, <2>1, NewEffects, <1>0, KeptQueued DEF Respond
  <1>5. ASSUME NEW s \in Slots, Reserve(s) PROVE Queued'
    <2>1. CASE /\ Becomes(s, "reserved")
               /\ operation' = Reserved(request[s].thread, request[s].rt, NoTurn)
      BY <1>5, <2>1, RequestEffects, ReservedEffects, <1>0, KeptQueued DEF Reserve, At,
         ForegroundFree
    <2>2. CASE Returns(s) /\ UNCHANGED operation
      BY <1>5, <2>2, RequestEffects, <1>0, KeptQueued DEF Reserve, At, ForegroundFree
    <2>3. QED
      BY <1>5, <2>1, <2>2 DEF At, Reserve, workspace, recovery
  <1>6. ASSUME NEW s \in Slots, StartReserved(s) PROVE Queued'
    <2>1. Becomes(s, "starting") /\ Goes("starting")
      BY <1>6 DEF At, Goes, StartReserved, workspace, recovery
    <2>2. QED
      BY <1>6, <2>1, RequestEffects, OperationEffects, <1>0, KeptQueued, WithdrawnIs DEF
         StartReserved, At, Driven, OnThreadSelected, SameWork, SameCall
  <1>7. ASSUME NEW s \in Slots, Started(s) PROVE Queued'
    <2>1. request[s].stage = "starting" /\ UNCHANGED <<pending, queue, status>>
      BY <1>7 DEF Started, At
    <2>2. operation.turn = NoTurn
      BY <2>1 DEF Driven
    <2>3. UNCHANGED operation \/ Goes("barrier") \/ Goes("running")
      BY <1>7 DEF Started, Goes
    <2>4. operation'.turn = NoTurn
      BY <2>2, <2>3, OperationEffects DEF SameWork
    <2>5. Becomes(s, "publishing") \/ Returns(s)
      BY <1>7 DEF Started
    <2>6. QED
      BY <2>1, <2>2, <2>4, <2>5, RequestEffects, KeptQueued
  <1>8. ASSUME NEW s \in Slots, PublishRetry(s) PROVE Queued'
    <2>1. CASE Returns(s) /\ Goes("running")
      BY <1>8, <2>1, RequestEffects, OperationEffects, <1>0, KeptQueued DEF
         PublishRetry, At, Driven, SameWork, SameCall
    <2>2. CASE Returns(s) /\ UNCHANGED operation
      BY <1>8, <2>2, RequestEffects, <1>0, KeptQueued DEF PublishRetry, At, Driven
    <2>3. QED
      BY <1>8, <2>1, <2>2 DEF At, Goes, PublishRetry, workspace, recovery
  <1>9. ASSUME NEW s \in Slots, SelectThread(s) PROVE Queued'
    <2>1. /\ Returns(s) /\ request[s].kind = "select" /\ request[s].stage = "held"
          /\ UNCHANGED <<operation, queue, status>>
      BY <1>9 DEF SelectThread, At
    <2>2. operation.turn = NoTurn
      BY <1>0, <2>1 DEF Driven, HoldsExclusive, CommandKinds
    <2>3. QED
      BY <1>0, <2>1, <2>2, RequestEffects, KeptQueued
  <1>10. ASSUME NEW s \in Slots, ChangeMode(s) PROVE Queued'
    <2>1. Returns(s) /\ UNCHANGED operation
      BY <1>10 DEF At, ChangeMode, workspace, recovery
    <2>2. QED
      BY <1>10, <2>1, RequestEffects, <1>0, KeptQueued DEF ChangeMode, At
  <1>11. ASSUME NEW s \in Slots, AskFullAccess(s) PROVE Queued'
    <2>1. CASE Asks(s, FreshId) /\ UNCHANGED operation
      BY <1>11, <2>1, HeldEffects, <1>0, KeptQueued DEF AskFullAccess, At, Driven
    <2>2. CASE Returns(s) /\ UNCHANGED operation
      BY <1>11, <2>2, RequestEffects, <1>0, KeptQueued DEF AskFullAccess, At, Driven
    <2>3. QED
      BY <1>11, <2>1, <2>2 DEF AskFullAccess, Asks, At, workspace, recovery
  <1>12. ASSUME NEW s \in Slots, FullAccessAsked(s) PROVE Queued'
    <2>1. Returns(s) /\ UNCHANGED operation
      BY <1>12 DEF At, FullAccessAsked, workspace, recovery
    <2>2. QED
      BY <1>12, <2>1, RequestEffects, <1>0, KeptQueued DEF FullAccessAsked, At,
         Discarded, Asked
  <1>13. ASSUME NEW s \in Slots, RevokeNetwork(s) PROVE Queued'
    <2>1. Returns(s) /\ UNCHANGED operation
      BY <1>13 DEF At, RevokeNetwork, workspace, recovery
    <2>2. QED
      BY <1>13, <2>1, RequestEffects, <1>0, KeptQueued DEF RevokeNetwork, At
  <1>14. ASSUME NEW s \in Slots, BuildRuntime(s) PROVE Queued'
    <2>1. /\ Builds(s, selected[runtime])
          /\ UNCHANGED operation
          /\ request[s].kind = "publish"
          /\ request[s].stage = "held"
          /\ UNCHANGED <<runtime, selected, permission, pending, queue, status, undelivered,
                         deferred, orphaned>>
      BY <1>14 DEF At, BuildRuntime, Builds, workspace, recovery
    <2>2. QED
      BY <2>1, HeldEffects, <1>0, KeptQueued
  <1>15. ASSUME NEW s \in Slots, PublishRuntime(s) PROVE Queued'
    <2>1. Returns(s) /\ UNCHANGED operation
      BY <1>15 DEF At, PublishRuntime, workspace, recovery
    <2>2. QED
      BY <1>15, <2>1, RequestEffects, <1>0, KeptQueued DEF PublishRuntime, At
  <1>16. ASSUME NEW s \in Slots, RespondNotFound(s) PROVE Queued'
    <2>1. Returns(s) /\ UNCHANGED operation
      BY <1>16 DEF At, RespondNotFound, workspace, recovery
    <2>2. QED
      BY <1>16, <2>1, RequestEffects, <1>0, KeptQueued DEF RespondNotFound, At
  <1>17. ASSUME NEW s \in Slots, RespondToolApproval(s) PROVE Queued'
    <2>1. CASE Returns(s) /\ Hears(request[s].decision, request[s].thread)
      BY <1>17, <2>1, RequestEffects, OperationEffects, <1>0, KeptQueued DEF
         RespondToolApproval, At, Answering, SameWork, SameCall
    <2>2. CASE Returns(s) /\ UNCHANGED operation
      BY <1>17, <2>2, RequestEffects, <1>0, KeptQueued DEF RespondToolApproval, At,
         Answering
    <2>3. QED
      BY <1>17, <2>1, <2>2 DEF Answering, At, Hears, RespondToolApproval, workspace,
         recovery
  <1>18. ASSUME NEW s \in Slots, RespondFullAccess(s) PROVE Queued'
    <2>1. CASE Becomes(s, "acknowledged") /\ UNCHANGED operation
      BY <1>18, <2>1, RequestEffects, <1>0, KeptQueued DEF RespondFullAccess, At,
         Answering
    <2>2. CASE Returns(s) /\ UNCHANGED operation
      BY <1>18, <2>2, RequestEffects, <1>0, KeptQueued DEF RespondFullAccess, At,
         Answering
    <2>3. QED
      BY <1>18, <2>1, <2>2 DEF Answering, At, RespondFullAccess, workspace, recovery
  <1>19. ASSUME NEW s \in Slots, EnableFullAccess(s) PROVE Queued'
    <2>1. Returns(s) /\ UNCHANGED operation
      BY <1>19 DEF At, EnableFullAccess, workspace, recovery
    <2>2. QED
      BY <1>19, <2>1, RequestEffects, <1>0, KeptQueued DEF EnableFullAccess, At
  <1>20. ASSUME NEW s \in Slots, RespondAbort(s) PROVE Queued'
    <2>1. UNCHANGED <<pending, operation, queue, status>>
      BY <1>20 DEF RespondAbort
    <2>2. CASE Returns(s)
      BY <1>0, <1>20, <2>1, <2>2, RequestEffects, KeptQueued DEF RespondAbort, Answering, At
    <2>3. CASE Becomes(s, "aborting") /\ Bound(request[s].id)
      <3>1. queue # <<>>
        BY <2>3 DEF Bound
      <3>2. \A r \in Slots : request'[r].stage = "resumed" => request[r].stage = "resumed"
        BY <2>3, RequestEffects
      <3>3. request[s].stage = "checked"
        BY <1>20 DEF RespondAbort, Answering, At
      <3>4. RequeueKept
        BY <2>3, <3>3, RequestEffects
      <3>5. QED
        BY <2>1, <3>1, <3>2, <3>4 DEF Queued
    <2>4. QED
      BY <1>20, <2>2, <2>3 DEF RespondAbort
  <1>21. ASSUME NEW s \in Slots, RecoveryAborted(s) PROVE Queued'
    <2>1. request[s].stage = "aborting" /\ UNCHANGED operation
      BY <1>21 DEF RecoveryAborted
    <2>2. operation.stage = "none" /\ operation.turn = NoTurn
      BY <1>0, <2>1 DEF Driven, HoldsExclusive
    <2>3. \A r \in Slots \ {s} :
            request[r].stage \notin {"aborting", "resumed", "requeueing"}
      BY <2>1 DEF Alone, Deciding
    <2>4. CASE Returns(s) /\ UNCHANGED <<queue, status>>
      BY <1>0, <2>1, <2>2, <2>4, RequestEffects, KeptQueued
    <2>5. CASE /\ Becomes(s, "aborted") /\ queue' = Tail(queue)
               /\ status' = [status EXCEPT ![Head(queue)] = "settled"]
      <3>1. queue \in Seq(Unfinished) /\ queue # <<>> /\ Distinct(queue)
        BY <2>1 DEF TypeOK, Queued
      <3>2. /\ Distinct(queue') /\ Head(queue) \in Unfinished
            /\ ToSet(queue) = {Head(queue)} \cup ToSet(queue')
            /\ Head(queue) \notin ToSet(queue')
        BY <2>5, <3>1, HeadTail
      <3>3. \A r \in Slots :
              /\ request'[r].stage \notin {"aborting", "resumed", "requeueing"}
              /\ request[r].stage # "requeueing"
        BY <2>1, <2>3, <2>5, RequestEffects
      <3>4. /\ status'[Head(queue)] = "settled"
            /\ \A u \in Unfinished : u # Head(queue) => status'[u] = status[u]
        BY <2>5, <3>2 DEF TypeOK
      <3>5. \A u \in ToSet(queue') : u \in Unfinished /\ status'[u] = "in_progress"
        <4>1. \A u \in ToSet(queue) : u \in Unfinished
          BY <3>1 DEF ToSet
        <4>2. QED
          BY <3>2, <3>4, <4>1 DEF Queued
      <3>6. \A u \in Unfinished : status'[u] = "in_progress" => u \in ToSet(queue')
        BY <2>2, <3>2, <3>3, <3>4 DEF Queued
      <3>7. QED
        BY <2>1, <2>2, <3>2, <3>3, <3>5, <3>6 DEF Queued
    <2>6. QED
      BY <1>21, <2>4, <2>5 DEF RecoveryAborted
  <1>22. ASSUME NEW s \in Slots, RespondRetry(s) PROVE Queued'
    <2>1. /\ UNCHANGED <<pending, queue, status>>
      BY <1>22 DEF RespondRetry
    <2>2. CASE Returns(s) /\ UNCHANGED operation
      BY <1>0, <1>22, <2>1, <2>2, RequestEffects, KeptQueued DEF RespondRetry, Answering, At
    <2>3. CASE /\ Becomes(s, "resuming") /\ Bound(request[s].id) /\ ForegroundFree
               /\ operation' = Reserved(pending.thread, request[s].rt, pending.turn)
      <3>1. /\ operation'.stage = "reserved" /\ operation'.turn = pending.turn
            /\ operation.turn = NoTurn
        BY <1>0, <2>3, ReservedEffects DEF ForegroundFree
      <3>2. queue # <<>> /\ Head(queue) = pending.turn /\ AsksHead(pending, queue)
        BY <2>3 DEF Bound
      <3>3. \A r \in Slots : request'[r].stage \in {"aborting", "resumed"} =>
              request'[r].stage = request[r].stage
        BY <2>3, RequestEffects
      <3>4. RequeueKept
        BY <1>22, <2>3, RequestEffects DEF RespondRetry, Answering, At
      <3>5. QED
        BY <2>1, <3>1, <3>2, <3>3, <3>4 DEF Queued
    <2>4. QED
      BY <1>22, <2>2, <2>3 DEF RespondRetry
  <1>23. ASSUME NEW s \in Slots, ClaimRecovery(s) PROVE Queued'
    <2>1. /\ request[s].stage = "resuming"
          /\ Becomes(s, "starting_recovery")
          /\ Goes("starting")
          /\ queue' = Tail(queue) /\ UNCHANGED status
      BY <1>23 DEF ClaimRecovery, Goes
    <2>2. /\ operation.stage = "reserved" /\ operation.turn # NoTurn
          /\ queue # <<>> /\ Head(queue) = operation.turn
      BY <2>1 DEF Driven, Queued
    <2>3. \A r \in Slots \ {s} :
            request[r].stage \notin {"aborting", "resumed", "requeueing"}
      BY <2>1 DEF Alone, Deciding
    <2>4. \A r \in Slots :
            /\ request'[r].stage \notin {"aborting", "resumed", "requeueing"}
            /\ request[r].stage # "requeueing"
      BY <2>1, <2>3, RequestEffects
    <2>5. queue \in Seq(Unfinished) /\ Distinct(queue)
      BY DEF TypeOK, Queued
    <2>6. /\ Distinct(queue')
          /\ ToSet(queue) = {operation.turn} \cup ToSet(queue')
          /\ operation.turn \notin ToSet(queue')
      BY <2>1, <2>2, <2>5, HeadTail
    <2>7. operation'.stage = "starting" /\ operation'.turn = operation.turn
      BY <2>1, OperationEffects DEF SameWork
    <2>8. QED
      BY <2>1, <2>4, <2>6, <2>7 DEF Queued
  <1>24. ASSUME NEW s \in Slots, RecoveryStarted(s) PROVE Queued'
    <2>1. /\ request[s].stage = "starting_recovery" /\ Becomes(s, "resumed")
          /\ UNCHANGED <<queue, status>>
      BY <1>24 DEF RecoveryStarted
    <2>2. /\ operation.stage \in {"starting", "dying"} /\ operation.turn # NoTurn
          /\ ~operation.published
      BY <2>1 DEF Driven
    <2>3. /\ operation.turn \notin ToSet(queue) /\ status[operation.turn] = "in_progress"
      BY <2>2 DEF Queued
    <2>4. \A r \in Slots :
            /\ request'[r].stage \notin {"aborting", "requeueing"}
            /\ request[r].stage # "requeueing"
      BY <2>1, RequestEffects DEF Alone, Deciding
    <2>5. /\ operation'.stage \in {"dying", "running"} /\ operation'.turn = operation.turn
          /\ operation'.published = operation.published
      <3>1. CASE operation.stage = "dying"
        BY <1>24, <3>1 DEF RecoveryStarted
      <3>2. CASE operation.stage # "dying"
        BY <1>24, <3>2, OperationEffects DEF RecoveryStarted, Goes, SameWork
      <3>3. QED
        BY <3>1, <3>2
    <2>6. QED
      BY <2>1, <2>2, <2>3, <2>4, <2>5 DEF Queued
  <1>25. ASSUME NEW s \in Slots, ResumePublished(s) PROVE Queued'
    <2>1. /\ request[s].stage = "resumed" /\ Returns(s) /\ Published
          /\ UNCHANGED <<pending, queue, status>>
      BY <1>25 DEF ResumePublished, Published
    <2>2. \A r \in Slots :
            /\ request'[r].stage \notin {"aborting", "resumed", "requeueing"}
            /\ request[r].stage # "requeueing"
      BY <2>1, RequestEffects DEF Alone, Deciding
    <2>3. operation'.stage = operation.stage /\ operation'.turn = operation.turn
      BY <2>1, OperationEffects DEF SameWork
    <2>4. QED
      BY <2>1, <2>2, <2>3 DEF Queued
  <1>26. ASSUME NEW s \in Slots, Deliver(s) PROVE Queued'
    <2>1. Returns(s) /\ UNCHANGED operation
      BY <1>26 DEF At, Deliver, workspace, recovery
    <2>2. QED
      BY <1>26, <2>1, RequestEffects, <1>0, KeptQueued, PresentEffects DEF Deliver, At
  <1>27. ASSUME NEW s \in Slots, StartFails(s) PROVE Queued'
    <2>1. /\ request[s].stage \in {"reserved", "starting"} /\ Returns(s)
          /\ operation' = NoOperation /\ UNCHANGED <<pending, queue, status>>
      BY <1>27 DEF StartFails, At
    <2>2. operation.turn = NoTurn /\ operation'.turn = NoTurn
      BY <1>0, <2>1 DEF Driven
    <2>3. QED
      BY <2>1, <2>2, RequestEffects, KeptQueued
  <1>28. ASSUME NEW s \in Slots, PublishRetryFails(s) PROVE Queued'
    <2>1. CASE Returns(s) /\ operation' = NoOperation
      BY <1>28, <2>1, RequestEffects, NoOperationIs, <1>0, KeptQueued DEF
         PublishRetryFails, At, Driven
    <2>2. CASE Returns(s) /\ UNCHANGED operation
      BY <1>28, <2>2, RequestEffects, <1>0, KeptQueued DEF PublishRetryFails, At, Driven
    <2>3. QED
      BY <1>28, <2>1, <2>2 DEF At, PublishRetryFails, workspace, recovery
  <1>29. ASSUME NEW s \in Slots, CommandFails(s) PROVE Queued'
    <2>1. Returns(s) /\ UNCHANGED operation
      BY <1>29 DEF At, CommandFails, workspace, recovery
    <2>2. QED
      BY <1>29, <2>1, RequestEffects, <1>0, KeptQueued DEF CommandFails, At
  <1>30. ASSUME NEW s \in Slots, RejectRecovery(s) PROVE Queued'
    <2>1. /\ request[s].stage = "resuming" /\ Returns(s) /\ operation' = NoOperation
          /\ queue' = Tail(queue) /\ status' = [status EXCEPT ![operation.turn] = "settled"]
      BY <1>30 DEF RejectRecovery
    <2>2. /\ operation.stage = "reserved" /\ operation.turn # NoTurn
          /\ queue # <<>> /\ Head(queue) = operation.turn
      BY <2>1 DEF Driven, Queued
    <2>3. \A r \in Slots \ {s} :
            request[r].stage \notin {"aborting", "resumed", "requeueing"}
      BY <2>1 DEF Alone, Deciding
    <2>4. \A r \in Slots :
            /\ request'[r].stage \notin {"aborting", "resumed", "requeueing"}
            /\ request[r].stage # "requeueing"
      BY <2>1, <2>3, RequestEffects
    <2>5. queue \in Seq(Unfinished) /\ Distinct(queue)
      BY DEF TypeOK, Queued
    <2>6. /\ Distinct(queue') /\ operation.turn \in Unfinished
          /\ ToSet(queue) = {operation.turn} \cup ToSet(queue')
          /\ operation.turn \notin ToSet(queue')
      BY <2>1, <2>2, <2>5, HeadTail
    <2>7. /\ status'[operation.turn] = "settled"
          /\ \A u \in Unfinished : u # operation.turn => status'[u] = status[u]
      BY <2>1, <2>6 DEF TypeOK
    <2>8. \A u \in ToSet(queue) : u \in Unfinished
      BY <2>5 DEF ToSet
    <2>9. \A u \in ToSet(queue') : status'[u] = "in_progress"
      BY <2>6, <2>7, <2>8 DEF Queued
    <2>10. \A u \in Unfinished : status'[u] = "in_progress" => u \in ToSet(queue')
      BY <2>4, <2>6, <2>7 DEF Queued
    <2>11. operation'.turn = NoTurn
      BY <1>0, <2>1
    <2>12. QED
      BY <2>4, <2>6, <2>9, <2>10, <2>11 DEF Queued
  <1>31. ASSUME NEW s \in Slots, ResumeFails(s) PROVE Queued'
    <2>1. /\ request[s].stage = "resuming" /\ Returns(s) /\ operation' = NoOperation
          /\ UNCHANGED <<queue, status>>
      BY <1>31 DEF ResumeFails
    <2>2. queue # <<>> /\ Head(queue) = operation.turn
      BY <2>1 DEF Driven, Queued
    <2>3. \A r \in Slots :
            /\ request'[r].stage \notin {"aborting", "resumed", "requeueing"}
            /\ request[r].stage # "requeueing"
      BY <2>1, RequestEffects DEF Alone, Deciding
    <2>4. operation.turn \in ToSet(queue)
      <3>1. queue \in Seq(Unfinished) /\ Distinct(queue)
        BY DEF TypeOK, Queued
      <3>2. ToSet(queue) = {Head(queue)} \cup ToSet(Tail(queue))
        BY <2>2, <3>1, HeadTail
      <3>3. QED
        BY <2>2, <3>2
    <2>5. operation'.turn = NoTurn
      BY <1>0, <2>1
    <2>6. QED
      BY <2>1, <2>3, <2>4, <2>5 DEF Queued
  <1>32. ASSUME NEW s \in Slots, RecoveryStartFails(s) PROVE Queued'
    <2>1. /\ request[s].stage = "starting_recovery"
          /\ Requeues(s, operation.turn)
          /\ operation' = NoOperation
          /\ UNCHANGED <<queue, status>>
      BY <1>32 DEF RecoveryStartFails, Requeues
    <2>2. /\ operation.stage \in {"starting", "dying"} /\ operation.turn # NoTurn
          /\ operation.turn \in Unfinished
      BY <2>1 DEF Driven, TypeOK, OperationType
    <2>3. \A r \in Slots \ {s} :
            /\ request'[r].stage \notin {"aborting", "resumed", "requeueing"}
            /\ request[r].stage # "requeueing"
      BY <2>1, HeldEffects DEF Alone, Deciding
    <2>4. operation.turn \notin ToSet(queue) /\ status[operation.turn] = "in_progress"
      BY <2>2 DEF Queued
    <2>5. request'[s].stage = "requeueing" /\ request'[s].turn = operation.turn
      BY <2>1, HeldEffects
    <2>6. operation'.turn = NoTurn
      BY <1>0, <2>1
    <2>7. \A u \in Unfinished : status[u] = "in_progress" =>
            u \in ToSet(queue) \/ u = operation.turn
      BY <2>1, <2>3 DEF Queued
    <2>8. QED
      BY <2>1, <2>2, <2>3, <2>4, <2>5, <2>6, <2>7 DEF Queued
  <1>33. ASSUME NEW c \in Capabilities, CallTool(c) PROVE Queued'
    <2>1. CASE UNCHANGED request /\ Starts(c)
      BY <1>33, <2>1, OperationEffects, <1>0, KeptQueued DEF CallTool, OperationFrame,
         SameWork, SameCall
    <2>2. CASE UNCHANGED request /\ AsksFor(c, FreshId)
      BY <1>33, <2>2, OperationEffects, <1>0, KeptQueued DEF CallTool, OperationFrame,
         SameWork, SameCall
    <2>3. QED
      BY <1>33, <2>1, <2>2 DEF AsksFor, CallTool, OperationFrame, Starts, workspace,
         recovery
  <1>34. CASE HearDecision
    <2>1. CASE UNCHANGED request /\ operation' = Resumed
      BY <1>34, <2>1, CallEffects, <1>0, KeptQueued DEF HearDecision, OperationFrame,
         Continues
    <2>2. CASE /\ UNCHANGED request
               /\ operation' = [Resumed EXCEPT !.stage = "tool", !.needs = operation.needs]
      BY <1>34, <2>2, CallEffects, <1>0, KeptQueued DEF HearDecision, OperationFrame,
         Continues
    <2>3. QED
      BY <1>34, <2>1, <2>2 DEF HearDecision, OperationFrame, workspace, recovery
  <1>35. CASE ToolEnds
    <2>1. UNCHANGED request /\ operation' = Resumed
      BY <1>35 DEF OperationFrame, ToolEnds, workspace, recovery
    <2>2. QED
      BY <1>35, <2>1, CallEffects, <1>0, KeptQueued DEF ToolEnds, OperationFrame,
         Continues
  <1>36. CASE RecoveryFinished
    <2>1. /\ operation.stage = "finishing"
          /\ operation.published
          /\ operation' = NoOperation
          /\ UNCHANGED <<request, queue, status>>
      BY <1>36 DEF RecoveryFinished, OperationFrame
    <2>2. operation.turn # NoTurn => status[operation.turn] = "settled"
      BY <2>1 DEF Queued
    <2>3. operation'.turn = NoTurn
      BY <1>0, <2>1
    <2>4. \A r \in Slots : request[r].stage # "resumed"
      BY <2>1 DEF Queued
    <2>5. \A u \in Unfinished : status[u] = "in_progress" =>
            \/ u \in ToSet(queue)
            \/ \E r \in Slots : request[r].stage = "requeueing" /\ request[r].turn = u
      BY <2>2 DEF Queued
    <2>6. QED
      BY <2>1, <2>3, <2>4, <2>5 DEF Queued
  <1>37. CASE OperationCancelled
    <2>1. /\ operation.stage \in {"running", "asking", "tool"} /\ Ends
          /\ UNCHANGED <<request, queue>>
      BY <1>37 DEF OperationCancelled, OperationFrame
    <2>2. QED
      BY <2>1, EndedQueued
  <1>38. CASE OperationFinishes
    <2>1. /\ operation.stage \in {"running", "asking", "tool"} /\ Ends
          /\ UNCHANGED <<request, queue>>
      BY <1>38 DEF OperationFinishes, OperationFrame
    <2>2. QED
      BY <2>1, EndedQueued
  <1>39. CASE AskFails
    <2>1. UNCHANGED request /\ operation' = Resumed
      BY <1>39 DEF AskFails, OperationFrame, workspace, recovery
    <2>2. QED
      BY <1>39, <2>1, CallEffects, <1>0, KeptQueued DEF AskFails, OperationFrame,
         Continues
  <1>40. CASE BarrierCancelled
    <2>1. operation' = NoOperation
      BY <1>40 DEF BarrierCancelled, OperationFrame, workspace, recovery
    <2>2. QED
      BY <1>40, <2>1, BarrierEffects, NoOperationIs, <1>0, KeptQueued DEF
         BarrierCancelled, OperationFrame
  <1>41. CASE StartCancelled
    <2>1. UNCHANGED request /\ Goes("dying")
      BY <1>41 DEF Goes, OperationFrame, StartCancelled, workspace, recovery
    <2>2. QED
      BY <1>41, <2>1, OperationEffects, <1>0, KeptQueued DEF StartCancelled,
         OperationFrame, SameWork, SameCall
  <1>42. CASE UNCHANGED vars
    BY <1>42, KeptQueued
  <1>43. ASSUME NEW s \in Slots, RecoveryRequeued(s) PROVE Queued'
    <2> DEFINE u == request[s].turn
    <2>1. /\ request[s].stage = "requeueing" /\ Returns(s) /\ UNCHANGED operation
      BY <1>43 DEF RecoveryRequeued
    <2>2. /\ u \in Unfinished /\ u \notin ToSet(queue) /\ status[u] = "in_progress"
          /\ queue \in Seq(Unfinished) /\ Distinct(queue) /\ operation.turn = NoTurn
      BY <2>1 DEF Queued, Driven, TypeOK
    <2>3. \A r \in Slots \ {s} :
            request[r].stage \notin {"aborting", "resumed", "requeueing"}
      BY <2>1 DEF Alone, Deciding
    <2>4. \A r \in Slots : request'[r].stage \notin {"aborting", "resumed", "requeueing"}
      BY <2>1, <2>3, RequestEffects
    <2>5. \A v \in Unfinished : status[v] = "in_progress" => v \in ToSet(queue) \/ v = u
      BY <2>1, <2>2, <2>3 DEF Queued
    <2>6. CASE queue' = <<u>> \o queue /\ UNCHANGED status
      <3>1. Distinct(queue') /\ ToSet(queue') = {u} \cup ToSet(queue)
        BY <2>2, <2>6, Prepended
      <3>2. QED
        BY <2>1, <2>2, <2>4, <2>5, <2>6, <3>1 DEF Queued
    <2>7. CASE UNCHANGED queue /\ status' = [status EXCEPT ![u] = "stranded"]
      <3>1. /\ status'[u] = "stranded"
            /\ \A v \in Unfinished : v # u => status'[v] = status[v]
        BY <2>2, <2>7 DEF TypeOK
      <3>2. \A v \in ToSet(queue) : v \in Unfinished
        BY DEF TypeOK, ToSet
      <3>3. \A v \in ToSet(queue) : status'[v] = "in_progress"
        BY <2>2, <3>1, <3>2 DEF Queued
      <3>4. \A v \in Unfinished : status'[v] = "in_progress" => v \in ToSet(queue)
        BY <2>5, <3>1
      <3>5. QED
        BY <2>1, <2>2, <2>4, <2>7, <3>3, <3>4 DEF Queued
    <2>8. QED
      BY <1>43, <2>6, <2>7 DEF RecoveryRequeued
  <1>44. QED
    BY <1>1, <1>2, <1>3, <1>4, <1>5, <1>6, <1>7, <1>8, <1>9, <1>10, <1>11, <1>12, <1>13,
       <1>14, <1>15, <1>16, <1>17, <1>18, <1>19, <1>20, <1>21, <1>22, <1>23, <1>24,
       <1>25, <1>26, <1>27, <1>28, <1>29, <1>30, <1>31, <1>32, <1>33, <1>34, <1>35,
       <1>36, <1>37, <1>38, <1>39, <1>40, <1>41, <1>42, <1>43, Moves DEF SlotMoves,
       RequestStep, RequestFails

------------------------------------------------------------------------------

\* Presenting asks about the head of the queue, unless it is held back.
LEMMA PresentAsks ==
    ASSUME NEW p, NEW q, NEW blocked, PresentNext(p, q, blocked)
    PROVE  q = <<>> \/ blocked \/ deferred' \/ AsksHead(pending', q)
  <1>1. CASE ~blocked /\ q # <<>> /\ p = NoQuestion
    <2>1. pending' = RecoveryQuestion(Head(q))
      BY <1>1 DEF PresentNext
    <2>2. QED
      BY <2>1, QuestionIs DEF RecoveryQuestion, AsksHead
  <1>2. CASE ~blocked /\ q # <<>> /\ p # NoQuestion
    <2>1. pending' = p /\ deferred' = (deferred \/ ~AsksHead(p, q))
      BY <1>2 DEF PresentNext
    <2>2. QED
      BY <2>1
  <1>3. QED
    BY <1>1, <1>2

\* What keeps Series while the queue stays
Resumes == operation.turn # NoTurn /\ operation.stage # "reserved"

LEMMA KeptSeries ==
    ASSUME Series, UNCHANGED queue, Broken => Broken', Away => Away',
           AsksHead(pending, queue) => AsksHead(pending', queue),
           Resumes => Resumes'
    PROVE  Series'
  BY DEF Series, Resumes

\* Presenting the next question keeps Series.
LEMMA PresentedSeries ==
    ASSUME PresentNext(pending, queue, undelivered), UNCHANGED <<queue, undelivered>>
    PROVE  Series'
  BY PresentAsks DEF Series, Broken

\* So does the end of the work.
LEMMA EndedSeries ==
    ASSUME TypeOK, Admission, Queued, Series, Ends,
           operation.stage \in {"running", "asking", "tool"},
           UNCHANGED <<queue, undelivered, deferred>>,
           pending' = pending \/ pending.kind # "recovery_decision"
    PROVE  Series'
  <1>1. CASE operation.turn = NoTurn
    <2>1. UNCHANGED status /\ operation'.turn = operation.turn
      BY <1>1, NoOperationIs DEF Ends
    <2>2. QED
      BY <1>1, <2>1, KeptSeries DEF Resumes, Broken, Stranded, Away, AsksHead
  <1>2. CASE operation.turn # NoTurn
    <2>1. /\ operation' = [Resumed EXCEPT !.stage = "finishing"]
          /\ status' = [status EXCEPT ![operation.turn] = "settled"]
      BY <1>2 DEF Ends
    <2>2. operation'.stage = "finishing" /\ operation'.turn = operation.turn
      BY <2>1, CallEffects DEF Continues
    <2>3. operation.turn \in Unfinished /\ status[operation.turn] = "in_progress"
      BY <1>2 DEF TypeOK, OperationType, Queued
    <2>4. \A u \in Unfinished : u # operation.turn => status'[u] = status[u]
      BY <2>1, <2>3 DEF TypeOK
    <2>5. (Broken => Broken') /\ (Away => Away')
      BY <2>2, <2>3, <2>4 DEF Broken, Stranded, Away
    <2>6. QED
      BY <1>2, <2>2, <2>5, KeptSeries DEF Resumes, AsksHead
  <1>3. QED
    BY <1>1, <1>2

\* Every step keeps the series of recovery questions going.
LEMMA SeriesStep ==
    TypeOK /\ Driven /\ Admission /\ Asked /\ Queued /\ Series /\ [Next]_vars => Series'
  <1> SUFFICES ASSUME TypeOK /\ Driven /\ Admission /\ Asked /\ Queued /\ Series, [Next]_vars
               PROVE  Series'
    OBVIOUS
  <1> USE WorkspaceAssumption DEF AsksHead, Resumes, Broken, Stranded, Away, workspace,
     recovery, vars
  <1>0. /\ operation.stage \in {"none", "barrier"} => operation.turn = NoTurn
        /\ NoOperation.turn = NoTurn /\ NoQuestion.kind = "none"
    BY NoOperationIs, QuestionIs DEF Admission
  <1>1. ASSUME NEW s \in Slots, SubmitRequest(s) PROVE Series'
    <2>1. Enters(s, "start", "checked", selected[runtime], 0, "none") /\ UNCHANGED operation
      BY <1>1 DEF Enters, SubmitRequest, workspace, recovery
    <2>2. QED
      BY <1>1, <2>1, <1>0, KeptSeries DEF SubmitRequest
  <1>2. ASSUME NEW s \in Slots, NEW kind, NEW t, NEW mode, Commands(s, kind, t, mode)
        PROVE  Series'
    <2>1. PICK stage \in {"checked", "held"} :
               /\ Enters(s, kind, stage, t, 0, mode)
               /\ kind = "retry" <=> stage = "checked"
      BY <1>2 DEF Command, Commands, Enters
    <2>2. QED
      BY <1>2, <2>1, <1>0, KeptSeries DEF Command, Commands
  <1>3. ASSUME NEW s \in Slots, Initialize(s) PROVE Series'
    <2>1. CASE undelivered
      <3>1. UNCHANGED <<pending, operation, queue, status, undelivered, deferred>>
        BY <1>3, <2>1 DEF Initialize
      <3>2. QED
        BY <3>1, KeptSeries
    <2>2. CASE ~undelivered
      <3>1. /\ PresentNext(pending, queue, FALSE) /\ UNCHANGED queue
        BY <1>3, <2>2 DEF Initialize
      <3>2. QED
        BY <3>1, PresentAsks DEF Series
    <2>3. QED
      BY <2>1, <2>2
  <1>4. ASSUME NEW s \in Slots, NEW d \in Decisions, Respond(s, d) PROVE Series'
    <2>1. /\ Enters(s, "respond", "checked", selected[runtime], pending.id, d)
          /\ UNCHANGED operation
      BY <1>4 DEF Enters, Respond, workspace, recovery
    <2>2. QED
      BY <1>4, <2>1, <1>0, KeptSeries DEF Respond
  <1>5. ASSUME NEW s \in Slots, Reserve(s) PROVE Series'
    <2>1. CASE /\ Becomes(s, "reserved")
               /\ operation' = Reserved(request[s].thread, request[s].rt, NoTurn)
      BY <1>5, <2>1, ReservedEffects, <1>0, KeptSeries DEF Reserve, At, ForegroundFree
    <2>2. CASE Returns(s) /\ UNCHANGED operation
      BY <1>5, <2>2, <1>0, KeptSeries DEF Reserve, At, ForegroundFree
    <2>3. QED
      BY <1>5, <2>1, <2>2 DEF At, Reserve, workspace, recovery
  <1>6. ASSUME NEW s \in Slots, StartReserved(s) PROVE Series'
    <2>1. Becomes(s, "starting") /\ Goes("starting")
      BY <1>6 DEF At, Goes, StartReserved, workspace, recovery
    <2>2. QED
      BY <1>6, <2>1, OperationEffects, <1>0, KeptSeries, WithdrawnIs DEF StartReserved,
         At, Driven, OnThreadSelected, SameWork, SameCall
  <1>7. ASSUME NEW s \in Slots, Started(s) PROVE Series'
    <2>1. CASE UNCHANGED operation
      BY <1>7, <2>1, <1>0, KeptSeries DEF Started
    <2>2. CASE Goes("barrier")
      BY <1>7, <2>2, OperationEffects, <1>0, KeptSeries DEF Started, At, Driven, SameWork, SameCall
    <2>3. CASE Goes("running")
      BY <1>7, <2>3, OperationEffects, <1>0, KeptSeries DEF Started, At, Driven, SameWork, SameCall
    <2>4. QED
      BY <1>7, <2>1, <2>2, <2>3 DEF Goes, Started
  <1>8. ASSUME NEW s \in Slots, PublishRetry(s) PROVE Series'
    <2>1. CASE Returns(s) /\ Goes("running")
      BY <1>8, <2>1, OperationEffects, <1>0, KeptSeries DEF PublishRetry, At, Driven,
         SameWork, SameCall
    <2>2. CASE Returns(s) /\ UNCHANGED operation
      BY <1>8, <2>2, <1>0, KeptSeries DEF PublishRetry, At, Driven
    <2>3. QED
      BY <1>8, <2>1, <2>2 DEF At, Goes, PublishRetry, workspace, recovery
  <1>9. ASSUME NEW s \in Slots, SelectThread(s) PROVE Series'
    <2>1. Returns(s) /\ UNCHANGED operation
      BY <1>9 DEF At, SelectThread, workspace, recovery
    <2>2. QED
      BY <1>9, <2>1, <1>0, KeptSeries, WithdrawnIs DEF SelectThread, At, Driven,
         OnThreadSelected
  <1>10. ASSUME NEW s \in Slots, ChangeMode(s) PROVE Series'
    <2>1. Returns(s) /\ UNCHANGED operation
      BY <1>10 DEF At, ChangeMode, workspace, recovery
    <2>2. QED
      BY <1>10, <2>1, <1>0, KeptSeries DEF ChangeMode, At
  <1>11. ASSUME NEW s \in Slots, AskFullAccess(s) PROVE Series'
    <2>1. CASE Asks(s, FreshId) /\ UNCHANGED operation
      BY <1>11, <2>1, <1>0, KeptSeries DEF AskFullAccess, At, Driven
    <2>2. CASE Returns(s) /\ UNCHANGED operation
      BY <1>11, <2>2, <1>0, KeptSeries DEF AskFullAccess, At, Driven
    <2>3. QED
      BY <1>11, <2>1, <2>2 DEF AskFullAccess, Asks, At, workspace, recovery
  <1>12. ASSUME NEW s \in Slots, FullAccessAsked(s) PROVE Series'
    <2>1. Returns(s) /\ UNCHANGED operation
      BY <1>12 DEF At, FullAccessAsked, workspace, recovery
    <2>2. QED
      BY <1>12, <2>1, <1>0, KeptSeries DEF FullAccessAsked, At, Discarded, Asked
  <1>13. ASSUME NEW s \in Slots, RevokeNetwork(s) PROVE Series'
    <2>1. Returns(s) /\ UNCHANGED operation
      BY <1>13 DEF At, RevokeNetwork, workspace, recovery
    <2>2. QED
      BY <1>13, <2>1, <1>0, KeptSeries DEF RevokeNetwork, At
  <1>14. ASSUME NEW s \in Slots, BuildRuntime(s) PROVE Series'
    <2>1. /\ Builds(s, selected[runtime])
          /\ UNCHANGED operation
          /\ request[s].kind = "publish"
          /\ request[s].stage = "held"
          /\ UNCHANGED <<runtime, selected, permission, pending, queue, status, undelivered,
                         deferred, orphaned>>
      BY <1>14 DEF At, BuildRuntime, Builds, workspace, recovery
    <2>2. QED
      BY <2>1, <1>0, KeptSeries
  <1>15. ASSUME NEW s \in Slots, PublishRuntime(s) PROVE Series'
    <2>1. Returns(s) /\ UNCHANGED operation
      BY <1>15 DEF At, PublishRuntime, workspace, recovery
    <2>2. QED
      BY <1>15, <2>1, <1>0, KeptSeries DEF PublishRuntime, At
  <1>16. ASSUME NEW s \in Slots, RespondNotFound(s) PROVE Series'
    <2>1. Returns(s) /\ UNCHANGED operation
      BY <1>16 DEF At, RespondNotFound, workspace, recovery
    <2>2. QED
      BY <1>16, <2>1, <1>0, KeptSeries DEF RespondNotFound, At
  <1>17. ASSUME NEW s \in Slots, RespondToolApproval(s) PROVE Series'
    <2>1. /\ UNCHANGED <<queue, undelivered, deferred, status>>
          /\ pending.kind = "tool_approval"
      BY <1>17 DEF RespondToolApproval, Answering
    <2>2. Hears(request[s].decision, request[s].thread) \/ UNCHANGED operation
      BY <1>17 DEF RespondToolApproval, Hears
    <2>3. operation'.turn = operation.turn /\ operation'.stage = operation.stage
      BY <2>2, OperationEffects DEF SameWork
    <2>4. QED
      BY <2>1, <2>3, KeptSeries
  <1>18. ASSUME NEW s \in Slots, RespondFullAccess(s) PROVE Series'
    <2>1. /\ UNCHANGED <<queue, undelivered, deferred, status, operation>>
          /\ pending.kind = "full_access_confirmation"
      BY <1>18 DEF RespondFullAccess, Answering
    <2>2. QED
      BY <2>1, KeptSeries
  <1>19. ASSUME NEW s \in Slots, EnableFullAccess(s) PROVE Series'
    <2>1. Returns(s) /\ UNCHANGED operation
      BY <1>19 DEF At, EnableFullAccess, workspace, recovery
    <2>2. QED
      BY <1>19, <2>1, <1>0, KeptSeries DEF EnableFullAccess, At
  <1>20. ASSUME NEW s \in Slots, RespondAbort(s) PROVE Series'
    <2>1. CASE Becomes(s, "aborting") /\ UNCHANGED operation
      BY <1>20, <2>1, <1>0, KeptSeries DEF RespondAbort, At, Answering
    <2>2. CASE Returns(s) /\ UNCHANGED operation
      BY <1>20, <2>2, <1>0, KeptSeries DEF RespondAbort, At, Answering
    <2>3. QED
      BY <1>20, <2>1, <2>2 DEF Answering, At, RespondAbort, workspace, recovery
  <1>21. ASSUME NEW s \in Slots, RecoveryAborted(s) PROVE Series'
    <2>1. CASE undelivered' = TRUE
      BY <2>1 DEF Series
    <2>2. CASE UNCHANGED <<pending, queue, status, undelivered, operation, deferred>>
      BY <2>2, KeptSeries
    <2>3. QED
      BY <1>21, <2>1, <2>2 DEF RecoveryAborted
  <1>22. ASSUME NEW s \in Slots, RespondRetry(s) PROVE Series'
    <2>1. CASE /\ Becomes(s, "resuming")
               /\ operation' = Reserved(pending.thread, request[s].rt, pending.turn)
      <3>1. CASE Bound(request[s].id) /\ ForegroundFree
        <4>1. AsksHead(pending, queue) /\ UNCHANGED <<pending, queue>>
          BY <1>22, <3>1 DEF Bound, RespondRetry
        <4>2. QED
          BY <4>1 DEF Series
      <3>2. CASE ~(Bound(request[s].id) /\ ForegroundFree)
        <4>1. UNCHANGED <<pending, operation, queue, status, undelivered, deferred>>
          BY <1>22, <3>2 DEF RespondRetry
        <4>2. QED
          BY <4>1, KeptSeries
      <3>3. QED
        BY <3>1, <3>2
    <2>2. CASE Returns(s) /\ UNCHANGED operation
      BY <1>22, <2>2, <1>0, KeptSeries DEF RespondRetry, At, Answering, ForegroundFree
    <2>3. QED
      BY <1>22, <2>1, <2>2 DEF Answering, At, RespondRetry, workspace, recovery
  <1>23. ASSUME NEW s \in Slots, ClaimRecovery(s) PROVE Series'
    <2>1. Goes("starting") /\ operation.turn # NoTurn
      BY <1>23 DEF ClaimRecovery, Goes, Driven
    <2>2. operation'.stage = "starting" /\ operation'.turn = operation.turn
      BY <2>1, OperationEffects DEF SameWork
    <2>3. QED
      BY <2>1, <2>2 DEF Series
  <1>24. ASSUME NEW s \in Slots, RecoveryStarted(s) PROVE Series'
    <2>1. undelivered' = TRUE
      BY <1>24 DEF RecoveryStarted
    <2>2. QED
      BY <2>1 DEF Series
  <1>25. ASSUME NEW s \in Slots, ResumePublished(s) PROVE Series'
    <2>1. /\ request[s].stage = "resumed" /\ Published
          /\ UNCHANGED <<pending, queue, status, deferred>>
      BY <1>25 DEF ResumePublished, Published
    <2>2. operation'.stage = operation.stage /\ operation'.turn = operation.turn
      BY <2>1, OperationEffects DEF SameWork
    <2>3. operation.turn # NoTurn /\ operation.stage # "reserved"
      BY <2>1 DEF Queued
    <2>4. QED
      BY <2>2, <2>3 DEF Series
  <1>26. ASSUME NEW s \in Slots, Deliver(s) PROVE Series'
    <2>1. UNCHANGED <<queue, operation, status>>
      BY <1>26 DEF Deliver
    <2>2. CASE PresentNext(pending, queue, FALSE)
      BY <2>1, <2>2, PresentAsks DEF Series
    <2>3. CASE UNCHANGED <<pending, undelivered, deferred>>
      BY <2>1, <2>3, KeptSeries
    <2>4. QED
      BY <1>26, <2>2, <2>3 DEF Deliver
  <1>27. ASSUME NEW s \in Slots, StartFails(s) PROVE Series'
    <2>1. Returns(s) /\ operation' = NoOperation
      BY <1>27 DEF At, StartFails, workspace, recovery
    <2>2. QED
      BY <1>27, <2>1, NoOperationIs, <1>0, KeptSeries DEF StartFails, At, Driven
  <1>28. ASSUME NEW s \in Slots, PublishRetryFails(s) PROVE Series'
    <2>1. CASE Returns(s) /\ operation' = NoOperation
      BY <1>28, <2>1, NoOperationIs, <1>0, KeptSeries DEF PublishRetryFails, At, Driven
    <2>2. CASE Returns(s) /\ UNCHANGED operation
      BY <1>28, <2>2, <1>0, KeptSeries DEF PublishRetryFails, At, Driven
    <2>3. QED
      BY <1>28, <2>1, <2>2 DEF At, PublishRetryFails, workspace, recovery
  <1>29. ASSUME NEW s \in Slots, CommandFails(s) PROVE Series'
    <2>1. Returns(s) /\ UNCHANGED operation
      BY <1>29 DEF At, CommandFails, workspace, recovery
    <2>2. QED
      BY <1>29, <2>1, <1>0, KeptSeries DEF CommandFails, At
  <1>30. ASSUME NEW s \in Slots, RejectRecovery(s) PROVE Series'
    <2>1. PresentNext(Discarded(request[s].id), queue', undelivered) /\ UNCHANGED undelivered
      BY <1>30 DEF RejectRecovery
    <2>2. queue' = <<>> \/ undelivered \/ deferred' \/ AsksHead(pending', queue')
      BY <2>1, PresentAsks
    <2>3. QED
      BY <2>1, <2>2 DEF Series
  <1>31. ASSUME NEW s \in Slots, ResumeFails(s) PROVE Series'
    <2>1. Returns(s) /\ operation' = NoOperation
      BY <1>31 DEF At, ResumeFails, workspace, recovery
    <2>2. QED
      BY <1>31, <2>1, NoOperationIs, <1>0, KeptSeries DEF ResumeFails, At, Driven
  <1>32. ASSUME NEW s \in Slots, RecoveryStartFails(s) PROVE Series'
    <2>1. operation.turn \in Unfinished /\ operation.stage \in {"starting", "dying"}
      BY <1>32 DEF RecoveryStartFails, Driven, TypeOK, OperationType
    <2>2. operation.turn \notin ToSet(queue) /\ status[operation.turn] = "in_progress"
      BY <2>1 DEF Queued
    <2>3. operation'.turn = NoTurn /\ UNCHANGED <<queue, status>>
      BY <1>0, <1>32 DEF RecoveryStartFails
    <2>4. Away'
      BY <2>1, <2>2, <2>3
    <2>5. QED
      BY <2>4 DEF Series
  <1>33. ASSUME NEW c \in Capabilities, CallTool(c) PROVE Series'
    <2>1. CASE UNCHANGED request /\ Starts(c)
      BY <1>33, <2>1, OperationEffects, <1>0, KeptSeries DEF CallTool, OperationFrame,
         SameWork, SameCall
    <2>2. CASE UNCHANGED request /\ AsksFor(c, FreshId)
      BY <1>33, <2>2, OperationEffects, <1>0, KeptSeries DEF CallTool, OperationFrame,
         SameWork, SameCall
    <2>3. QED
      BY <1>33, <2>1, <2>2 DEF AsksFor, CallTool, OperationFrame, Starts, workspace,
         recovery
  <1>34. CASE HearDecision
    <2>1. /\ operation.stage = "asking" /\ pending.id = operation.question
          /\ UNCHANGED <<queue, undelivered, deferred, status>>
      BY <1>34 DEF HearDecision, OperationFrame
    <2>2. pending.kind # "recovery_decision"
      BY <2>1 DEF Asked, Admission
    <2>3. operation'.stage \in {"running", "tool"} /\ operation'.turn = operation.turn
      BY <1>34, CallEffects DEF HearDecision, Continues
    <2>4. QED
      BY <2>1, <2>2, <2>3, KeptSeries
  <1>35. CASE ToolEnds
    <2>1. UNCHANGED request /\ operation' = Resumed
      BY <1>35 DEF OperationFrame, ToolEnds, workspace, recovery
    <2>2. QED
      BY <1>35, <2>1, CallEffects, <1>0, KeptSeries DEF ToolEnds, OperationFrame,
         Continues
  <1>36. CASE RecoveryFinished
    BY <1>36, PresentedSeries DEF RecoveryFinished, OperationFrame
  <1>37. CASE OperationCancelled
    <2>1. /\ operation.stage \in {"running", "asking", "tool"} /\ Ends
          /\ UNCHANGED <<queue, undelivered, deferred>>
          /\ pending' = Discarded(operation.question)
      BY <1>37 DEF OperationCancelled, OperationFrame
    <2>2. pending' = pending \/ pending.kind # "recovery_decision"
      BY <1>0, <2>1 DEF Asked, Discarded
    <2>3. QED
      BY <2>1, <2>2, EndedSeries
  <1>38. CASE OperationFinishes
    <2>1. /\ operation.stage \in {"running", "asking", "tool"} /\ Ends
          /\ UNCHANGED <<queue, undelivered, deferred, pending>>
      BY <1>38 DEF OperationFinishes, OperationFrame
    <2>2. QED
      BY <2>1, EndedSeries
  <1>39. CASE AskFails
    <2>1. /\ operation.stage = "asking" /\ pending.id = operation.question
          /\ operation' = Resumed /\ UNCHANGED <<queue, undelivered, deferred, status>>
      BY <1>39 DEF AskFails, OperationFrame
    <2>2. pending.kind # "recovery_decision"
      BY <2>1 DEF Asked, Admission
    <2>3. operation'.stage = "running" /\ operation'.turn = operation.turn
      BY <2>1, CallEffects DEF Continues
    <2>4. QED
      BY <2>1, <2>2, <2>3, KeptSeries
  <1>40. CASE BarrierCancelled
    <2>1. operation' = NoOperation
      BY <1>40 DEF BarrierCancelled, OperationFrame, workspace, recovery
    <2>2. QED
      BY <1>40, <2>1, NoOperationIs, <1>0, KeptSeries DEF BarrierCancelled,
         OperationFrame
  <1>41. CASE StartCancelled
    <2>1. UNCHANGED request /\ Goes("dying")
      BY <1>41 DEF Goes, OperationFrame, StartCancelled, workspace, recovery
    <2>2. QED
      BY <1>41, <2>1, OperationEffects, <1>0, KeptSeries DEF StartCancelled,
         OperationFrame, SameWork, SameCall
  <1>42. CASE UNCHANGED vars
    BY <1>42, KeptSeries
  <1>43. ASSUME NEW s \in Slots, RecoveryRequeued(s) PROVE Series'
    <2>1. CASE PresentNext(pending, queue', undelivered)
      <3>1. queue' = <<>> \/ undelivered \/ deferred' \/ AsksHead(pending', queue')
        BY <2>1, PresentAsks
      <3>2. QED
        BY <1>43, <3>1 DEF Series, RecoveryRequeued
    <2>2. CASE status' = [status EXCEPT ![request[s].turn] = "stranded"]
      <3>1. request[s].turn \in Unfinished
        BY <1>43 DEF RecoveryRequeued, Queued
      <3>2. Stranded'
        BY <2>2, <3>1 DEF TypeOK
      <3>3. QED
        BY <3>2 DEF Series
    <2>3. QED
      BY <1>43, <2>1, <2>2 DEF RecoveryRequeued
  <1>44. QED
    BY <1>1, <1>2, <1>3, <1>4, <1>5, <1>6, <1>7, <1>8, <1>9, <1>10, <1>11, <1>12, <1>13,
       <1>14, <1>15, <1>16, <1>17, <1>18, <1>19, <1>20, <1>21, <1>22, <1>23, <1>24,
       <1>25, <1>26, <1>27, <1>28, <1>29, <1>30, <1>31, <1>32, <1>33, <1>34, <1>35,
       <1>36, <1>37, <1>38, <1>39, <1>40, <1>41, <1>42, <1>43, Moves DEF SlotMoves,
       RequestStep, RequestFails

------------------------------------------------------------------------------

\* The invariant
Sound ==
  /\ TypeOK /\ Shaped /\ Alone /\ Driven /\ Admission
  /\ Asked /\ Rights /\ Queued /\ Series

\* The invariant holds at activation.
LEMMA InitSound == Init => Sound
  <1> SUFFICES ASSUME Init PROVE Sound
    OBVIOUS
  <1> USE WorkspaceAssumption DEF Init
  <1>1. \A s \in Slots : request[s].kind = "none" /\ request[s].stage = "none"
    BY DEF NoRequest
  <1>2. /\ operation.stage = "none" /\ operation.turn = NoTurn /\ operation.question = 0
        /\ operation.heard = "none" /\ operation = NoOperation
    BY NoOperationIs
  <1>3. /\ permission.mode = "request_approval" /\ ~permission.writes
        /\ permission.network = {}
    BY DEF FreshPermission
  <1>4. queue # <<>> => Head(queue) \in Unfinished
    OBVIOUS
  <1>5. \/ queue = <<>> /\ pending = NoQuestion
        \/ /\ queue # <<>> /\ pending.id = 1 /\ pending.kind = "recovery_decision"
           /\ pending.thread = Home[Head(queue)] /\ pending.turn = Head(queue)
           /\ pending.decision = "none"
    BY QuestionIs
  <1>6. TypeOK
    <2>1. pending \in QuestionType
      BY <1>4 DEF NoQuestion, Question, QuestionType, Named
    <2>2. permission \in PermissionType
      BY DEF FreshPermission, PermissionType, Named, Modes
    <2>3. operation \in OperationType
      BY DEF NoOperation, OperationType, Named
    <2>4. NoRequest \in RequestType
      BY DEF NoRequest, RequestType, Named
    <2>5. request \in [Slots -> RequestType]
      BY <2>4
    <2>6. /\ runtime \in 0 .. MaxRuntime /\ selected \in [0 .. MaxRuntime -> Named]
          /\ queue \in Seq(Unfinished)
      BY DEF Named
    <2>7. status \in [Unfinished -> {"in_progress", "settled", "stranded"}]
      OBVIOUS
    <2>8. QED
      BY <2>1, <2>2, <2>3, <2>5, <2>6, <2>7 DEF TypeOK
  <1>7. Shaped
    BY <1>1 DEF Shaped, StartKinds, CommandKinds
  <1>8. \A s \in Slots : ~HoldsExclusive(s) /\ ~Drives(s) /\ ~Deciding(s)
    BY <1>1 DEF HoldsExclusive, Drives, Deciding, CommandKinds
  <1>9. Alone
    BY <1>8 DEF Alone, Busy
  <1>10. Driven
    BY <1>1, <1>8 DEF Driven
  <1>11. Admission
    BY <1>2 DEF Admission
  <1>12. Asked
    BY <1>1, <1>2, <1>4, <1>5, <1>8, QuestionIs DEF Asked
  <1>13. Rights
    BY <1>1, <1>2, <1>3 DEF Rights, Given
  <1>14. Queued
    <2>1. Distinct(queue) /\ \A u \in ToSet(queue) : u \in Unfinished
      BY DEF Distinct, Unfinished
    <2>2. QED
      BY <1>1, <1>2, <2>1 DEF Queued, Unfinished
  <1>15. Series
    BY <1>5 DEF Series, AsksHead
  <1>16. QED
    BY <1>6, <1>7, <1>9, <1>10, <1>11, <1>12, <1>13, <1>14, <1>15 DEF Sound

\* The inductive invariant, for any number of Threads, unfinished Turns and
\* concurrent requests.
THEOREM Invariant == Spec => []Sound
  <1>1. Sound /\ [Next]_vars => Sound'
    BY TypeStep, ShapedStep, AloneStep, DrivenStep, AdmissionStep, AskedStep, RightsStep,
       QueuedStep, SeriesStep DEF Sound
  <1>2. QED
    BY InitSound, <1>1, PTL DEF Spec

\* A raised mode or a grant belongs to the selected Thread, whatever selected
\* it, unless /retry selected it after its Operation had ended.
THEOREM Authority == Spec => []AuthorityFollowsThread
  <1>1. Sound => AuthorityFollowsThread
    BY DEF Sound, Rights, Given, AuthorityFollowsThread
  <1>2. QED
    BY Invariant, <1>1, PTL

\* Every unfinished Turn is queued, being resumed or on its way back to the queue
\* until it is settled or cannot be put back, and when nothing runs the head of the
\* queue is being asked unless the series of questions was interrupted.
THEOREM NoneForgotten == Spec => []NoRecoveryForgotten
  <1>1. ASSUME Sound PROVE NoRecoveryForgotten
    <2>1. Drained => /\ operation.turn = NoTurn
                     /\ \A s \in Slots : request[s].stage # "requeueing"
      BY NoOperationIs DEF Drained, NoRequest
    <2>2. Drained => ~Away
      BY <1>1, <2>1 DEF Sound, Queued, Away
    <2>3. Broken => Interrupted
      BY DEF Broken, Stranded, Interrupted
    <2>4. QED
      BY <1>1, <2>1, <2>2, <2>3 DEF Sound, Queued, Series, NoRecoveryForgotten
  <1>2. QED
    BY Invariant, <1>1, PTL

\* ConsentGiven, of one step
Consents ==
  ToolStarts =>
    \/ /\ operation.stage = "asking"
       /\ operation.heard \notin {"none", "deny"}
       /\ ~orphaned => operation.seen = operation.thread
    \/ /\ operation'.needs # "mcp"
       /\ permission.owner # NoThread
       /\ ~orphaned => permission.owner \in {operation.thread, selected[runtime]}

\* Only CallTool and HearDecision start a tool, both on the user's authority.
LEMMA ConsentStep ==
    Sound /\ [Next]_vars => Consents
  <1> SUFFICES ASSUME Sound, [Next]_vars
               PROVE  Consents
    OBVIOUS
  <1> USE WorkspaceAssumption DEF Sound, Consents, ToolStarts, workspace, vars
  <1>1. ASSUME NEW s \in Slots, SubmitRequest(s) PROVE Consents
    <2>1. Enters(s, "start", "checked", selected[runtime], 0, "none") /\ UNCHANGED operation
      BY <1>1 DEF Enters, SubmitRequest, workspace, recovery
    <2>2. QED
      BY <1>1, <2>1 DEF SubmitRequest
  <1>2. ASSUME NEW s \in Slots, NEW kind, NEW t, NEW mode, Commands(s, kind, t, mode)
        PROVE  Consents
    BY <1>2 DEF Command, Commands
  <1>3. ASSUME NEW s \in Slots, Initialize(s) PROVE Consents
    <2>1. CASE /\ Enters(s, "initialize", "flushing", NoThread, 0, "none")
               /\ UNCHANGED operation
      BY <1>3, <2>1 DEF Initialize
    <2>2. CASE UNCHANGED request /\ UNCHANGED operation
      BY <1>3, <2>2 DEF Initialize
    <2>3. QED
      BY <1>3, <2>1, <2>2 DEF Enters, Initialize, workspace, recovery
  <1>4. ASSUME NEW s \in Slots, NEW d \in Decisions, Respond(s, d) PROVE Consents
    <2>1. /\ Enters(s, "respond", "checked", selected[runtime], pending.id, d)
          /\ UNCHANGED operation
      BY <1>4 DEF Enters, Respond, workspace, recovery
    <2>2. QED
      BY <1>4, <2>1 DEF Respond
  <1>5. ASSUME NEW s \in Slots, Reserve(s) PROVE Consents
    <2>1. CASE /\ Becomes(s, "reserved")
               /\ operation' = Reserved(request[s].thread, request[s].rt, NoTurn)
      BY <1>5, <2>1, ReservedEffects DEF Reserve, At
    <2>2. CASE Returns(s) /\ UNCHANGED operation
      BY <1>5, <2>2 DEF Reserve, At
    <2>3. QED
      BY <1>5, <2>1, <2>2 DEF At, Reserve, workspace, recovery
  <1>6. ASSUME NEW s \in Slots, StartReserved(s) PROVE Consents
    <2>1. Becomes(s, "starting") /\ Goes("starting")
      BY <1>6 DEF At, Goes, StartReserved, workspace, recovery
    <2>2. QED
      BY <1>6, <2>1, OperationEffects DEF StartReserved, At, SameWork, SameCall
  <1>7. ASSUME NEW s \in Slots, Started(s) PROVE Consents
    <2>1. CASE UNCHANGED operation
      BY <1>7, <2>1 DEF Started
    <2>2. CASE Goes("barrier") \/ Goes("running")
      BY <1>7, <2>2, OperationEffects DEF Started, At, SameWork, SameCall
    <2>3. QED
      BY <1>7, <2>1, <2>2 DEF Goes, Started
  <1>8. ASSUME NEW s \in Slots, PublishRetry(s) PROVE Consents
    <2>1. CASE Returns(s) /\ Goes("running")
      BY <1>8, <2>1, OperationEffects DEF PublishRetry, At, SameWork, SameCall
    <2>2. CASE Returns(s) /\ UNCHANGED operation
      BY <1>8, <2>2 DEF PublishRetry, At
    <2>3. QED
      BY <1>8, <2>1, <2>2 DEF At, Goes, PublishRetry, workspace, recovery
  <1>9. ASSUME NEW s \in Slots, SelectThread(s) PROVE Consents
    <2>1. Returns(s) /\ UNCHANGED operation
      BY <1>9 DEF At, SelectThread, workspace, recovery
    <2>2. QED
      BY <1>9, <2>1 DEF SelectThread, At
  <1>10. ASSUME NEW s \in Slots, ChangeMode(s) PROVE Consents
    <2>1. Returns(s) /\ UNCHANGED operation
      BY <1>10 DEF At, ChangeMode, workspace, recovery
    <2>2. QED
      BY <1>10, <2>1 DEF ChangeMode, At
  <1>11. ASSUME NEW s \in Slots, AskFullAccess(s) PROVE Consents
    <2>1. CASE Asks(s, FreshId) /\ UNCHANGED operation
      BY <1>11, <2>1 DEF AskFullAccess, At
    <2>2. CASE Returns(s) /\ UNCHANGED operation
      BY <1>11, <2>2 DEF AskFullAccess, At
    <2>3. QED
      BY <1>11, <2>1, <2>2 DEF AskFullAccess, Asks, At, workspace, recovery
  <1>12. ASSUME NEW s \in Slots, FullAccessAsked(s) PROVE Consents
    <2>1. Returns(s) /\ UNCHANGED operation
      BY <1>12 DEF At, FullAccessAsked, workspace, recovery
    <2>2. QED
      BY <1>12, <2>1 DEF FullAccessAsked, At
  <1>13. ASSUME NEW s \in Slots, RevokeNetwork(s) PROVE Consents
    <2>1. Returns(s) /\ UNCHANGED operation
      BY <1>13 DEF At, RevokeNetwork, workspace, recovery
    <2>2. QED
      BY <1>13, <2>1 DEF RevokeNetwork, At
  <1>14. ASSUME NEW s \in Slots, BuildRuntime(s) PROVE Consents
    <2>1. /\ Builds(s, selected[runtime])
          /\ UNCHANGED operation
          /\ request[s].kind = "publish"
          /\ request[s].stage = "held"
          /\ UNCHANGED <<runtime, selected, permission, pending, queue, status, undelivered,
                         deferred, orphaned>>
      BY <1>14 DEF At, BuildRuntime, Builds, workspace, recovery
    <2>2. QED
      BY <2>1
  <1>15. ASSUME NEW s \in Slots, PublishRuntime(s) PROVE Consents
    <2>1. Returns(s) /\ UNCHANGED operation
      BY <1>15 DEF At, PublishRuntime, workspace, recovery
    <2>2. QED
      BY <1>15, <2>1 DEF PublishRuntime, At
  <1>16. ASSUME NEW s \in Slots, RespondNotFound(s) PROVE Consents
    <2>1. Returns(s) /\ UNCHANGED operation
      BY <1>16 DEF At, RespondNotFound, workspace, recovery
    <2>2. QED
      BY <1>16, <2>1 DEF RespondNotFound, At
  <1>17. ASSUME NEW s \in Slots, RespondToolApproval(s) PROVE Consents
    <2>1. CASE Returns(s) /\ Hears(request[s].decision, request[s].thread)
      BY <1>17, <2>1, OperationEffects DEF RespondToolApproval, At, Answering, SameWork,
         SameCall
    <2>2. CASE Returns(s) /\ UNCHANGED operation
      BY <1>17, <2>2 DEF RespondToolApproval, At, Answering
    <2>3. QED
      BY <1>17, <2>1, <2>2 DEF Answering, At, Hears, RespondToolApproval, workspace,
         recovery
  <1>18. ASSUME NEW s \in Slots, RespondFullAccess(s) PROVE Consents
    <2>1. CASE Becomes(s, "acknowledged") /\ UNCHANGED operation
      BY <1>18, <2>1 DEF RespondFullAccess, At, Answering
    <2>2. CASE Returns(s) /\ UNCHANGED operation
      BY <1>18, <2>2 DEF RespondFullAccess, At, Answering
    <2>3. QED
      BY <1>18, <2>1, <2>2 DEF Answering, At, RespondFullAccess, workspace, recovery
  <1>19. ASSUME NEW s \in Slots, EnableFullAccess(s) PROVE Consents
    <2>1. Returns(s) /\ UNCHANGED operation
      BY <1>19 DEF At, EnableFullAccess, workspace, recovery
    <2>2. QED
      BY <1>19, <2>1 DEF EnableFullAccess, At
  <1>20. ASSUME NEW s \in Slots, RespondAbort(s) PROVE Consents
    <2>1. CASE Becomes(s, "aborting") /\ UNCHANGED operation
      BY <1>20, <2>1 DEF RespondAbort, At, Answering
    <2>2. CASE Returns(s) /\ UNCHANGED operation
      BY <1>20, <2>2 DEF RespondAbort, At, Answering
    <2>3. QED
      BY <1>20, <2>1, <2>2 DEF Answering, At, RespondAbort, workspace, recovery
  <1>21. ASSUME NEW s \in Slots, RecoveryAborted(s) PROVE Consents
    <2>1. CASE Becomes(s, "aborted") /\ UNCHANGED operation
      BY <1>21, <2>1 DEF RecoveryAborted, At
    <2>2. CASE Returns(s) /\ UNCHANGED operation
      BY <1>21, <2>2 DEF RecoveryAborted, At
    <2>3. QED
      BY <1>21, <2>1, <2>2 DEF At, RecoveryAborted, workspace, recovery
  <1>22. ASSUME NEW s \in Slots, RespondRetry(s) PROVE Consents
    <2>1. CASE /\ Becomes(s, "resuming")
               /\ operation' = Reserved(pending.thread, request[s].rt, pending.turn)
      BY <1>22, <2>1, ReservedEffects DEF RespondRetry, At, Answering
    <2>2. CASE Returns(s) /\ UNCHANGED operation
      BY <1>22, <2>2 DEF RespondRetry, At, Answering
    <2>3. QED
      BY <1>22, <2>1, <2>2 DEF Answering, At, RespondRetry, workspace, recovery
  <1>23. ASSUME NEW s \in Slots, ClaimRecovery(s) PROVE Consents
    <2>1. Becomes(s, "starting_recovery") /\ Goes("starting")
      BY <1>23 DEF At, ClaimRecovery, Goes, workspace, recovery
    <2>2. QED
      BY <1>23, <2>1, OperationEffects DEF ClaimRecovery, At, SameWork, SameCall
  <1>24. ASSUME NEW s \in Slots, RecoveryStarted(s) PROVE Consents
    <2>1. CASE UNCHANGED operation
      BY <1>24, <2>1 DEF RecoveryStarted
    <2>2. CASE Goes("running")
      BY <1>24, <2>2, OperationEffects DEF RecoveryStarted, At, SameWork, SameCall
    <2>3. QED
      BY <1>24, <2>1, <2>2 DEF Goes, RecoveryStarted
  <1>25. ASSUME NEW s \in Slots, ResumePublished(s) PROVE Consents
    <2>1. Returns(s) /\ Published
      BY <1>25 DEF At, Published, ResumePublished, workspace, recovery
    <2>2. QED
      BY <1>25, <2>1, OperationEffects DEF ResumePublished, At, SameWork, SameCall
  <1>26. ASSUME NEW s \in Slots, Deliver(s) PROVE Consents
    <2>1. Returns(s) /\ UNCHANGED operation
      BY <1>26 DEF At, Deliver, workspace, recovery
    <2>2. QED
      BY <1>26, <2>1 DEF Deliver, At
  <1>27. ASSUME NEW s \in Slots, StartFails(s) PROVE Consents
    <2>1. Returns(s) /\ operation' = NoOperation
      BY <1>27 DEF At, StartFails, workspace, recovery
    <2>2. QED
      BY <1>27, <2>1, NoOperationIs DEF StartFails, At
  <1>28. ASSUME NEW s \in Slots, PublishRetryFails(s) PROVE Consents
    <2>1. CASE Returns(s) /\ operation' = NoOperation
      BY <1>28, <2>1, NoOperationIs DEF PublishRetryFails, At
    <2>2. CASE Returns(s) /\ UNCHANGED operation
      BY <1>28, <2>2 DEF PublishRetryFails, At
    <2>3. QED
      BY <1>28, <2>1, <2>2 DEF At, PublishRetryFails, workspace, recovery
  <1>29. ASSUME NEW s \in Slots, CommandFails(s) PROVE Consents
    <2>1. Returns(s) /\ UNCHANGED operation
      BY <1>29 DEF At, CommandFails, workspace, recovery
    <2>2. QED
      BY <1>29, <2>1 DEF CommandFails, At
  <1>30. ASSUME NEW s \in Slots, RejectRecovery(s) PROVE Consents
    <2>1. Returns(s) /\ operation' = NoOperation
      BY <1>30 DEF At, RejectRecovery, workspace, recovery
    <2>2. QED
      BY <1>30, <2>1, NoOperationIs DEF RejectRecovery, At
  <1>31. ASSUME NEW s \in Slots, ResumeFails(s) PROVE Consents
    <2>1. Returns(s) /\ operation' = NoOperation
      BY <1>31 DEF At, ResumeFails, workspace, recovery
    <2>2. QED
      BY <1>31, <2>1, NoOperationIs DEF ResumeFails, At
  <1>32. ASSUME NEW s \in Slots, RecoveryStartFails(s) PROVE Consents
    BY <1>32, NoOperationIs DEF RecoveryStartFails
  <1>33. ASSUME NEW c \in Capabilities, CallTool(c) PROVE Consents
    <2>1. CASE Standing(c, operation.thread) /\ Starts(c)
      <3>1. operation'.needs = c /\ c # "mcp"
        BY <2>1, OperationEffects DEF Standing
      <3>2. Given
        BY <2>1 DEF Standing, Given
      <3>3. permission.owner \in Threads /\ (~orphaned => permission.owner = selected[runtime])
        BY <3>2 DEF Rights
      <3>4. QED
        BY <3>1, <3>3
    <2>2. CASE AsksFor(c, FreshId)
      BY <2>2, OperationEffects
    <2>3. QED
      BY <1>33, <2>1, <2>2 DEF CallTool, Starts, AsksFor
  <1>34. CASE HearDecision
    <2>1. /\ operation.stage = "asking" /\ pending.id = operation.question
          /\ pending.decision # "none"
      BY <1>34 DEF HearDecision
    <2>2. operation.heard = pending.decision /\ (~orphaned => operation.seen = operation.thread)
      BY <2>1 DEF Asked, Admission, Rights
    <2>3. CASE operation' = Resumed
      BY <2>3, CallEffects DEF Continues
    <2>4. CASE pending.decision # "deny"
      BY <2>1, <2>2, <2>4
    <2>5. QED
      BY <1>34, <2>3, <2>4 DEF HearDecision
  <1>35. CASE ToolEnds
    <2>1. UNCHANGED request /\ operation' = Resumed
      BY <1>35 DEF OperationFrame, ToolEnds, workspace, recovery
    <2>2. QED
      BY <1>35, <2>1, CallEffects DEF ToolEnds, OperationFrame, Continues
  <1>36. CASE RecoveryFinished
    <2>1. UNCHANGED request /\ operation' = NoOperation
      BY <1>36 DEF OperationFrame, RecoveryFinished, workspace, recovery
    <2>2. QED
      BY <1>36, <2>1, NoOperationIs DEF RecoveryFinished, OperationFrame
  <1>37. CASE OperationCancelled
    <2>1. CASE UNCHANGED request /\ operation' = NoOperation
      BY <1>37, <2>1, NoOperationIs DEF OperationCancelled, OperationFrame, Ends
    <2>2. CASE UNCHANGED request /\ operation' = [Resumed EXCEPT !.stage = "finishing"]
      BY <1>37, <2>2, CallEffects DEF OperationCancelled, OperationFrame, Ends,
         Continues
    <2>3. QED
      BY <1>37, <2>1, <2>2 DEF Ends, OperationCancelled, OperationFrame, workspace,
         recovery
  <1>38. CASE OperationFinishes
    <2>1. CASE UNCHANGED request /\ operation' = NoOperation
      BY <1>38, <2>1, NoOperationIs DEF OperationFinishes, OperationFrame, Ends
    <2>2. CASE UNCHANGED request /\ operation' = [Resumed EXCEPT !.stage = "finishing"]
      BY <1>38, <2>2, CallEffects DEF OperationFinishes, OperationFrame, Ends, Continues
    <2>3. QED
      BY <1>38, <2>1, <2>2 DEF Ends, OperationFinishes, OperationFrame, workspace,
         recovery
  <1>39. CASE AskFails
    <2>1. UNCHANGED request /\ operation' = Resumed
      BY <1>39 DEF AskFails, OperationFrame, workspace, recovery
    <2>2. QED
      BY <1>39, <2>1, CallEffects DEF AskFails, OperationFrame, Continues
  <1>40. CASE BarrierCancelled
    <2>1. operation' = NoOperation
      BY <1>40 DEF BarrierCancelled, OperationFrame, workspace, recovery
    <2>2. QED
      BY <1>40, <2>1, NoOperationIs DEF BarrierCancelled, OperationFrame
  <1>41. CASE StartCancelled
    <2>1. UNCHANGED request /\ Goes("dying")
      BY <1>41 DEF Goes, OperationFrame, StartCancelled, workspace, recovery
    <2>2. QED
      BY <1>41, <2>1, OperationEffects DEF StartCancelled, OperationFrame, SameWork,
         SameCall
  <1>42. CASE UNCHANGED vars
    BY <1>42
  <1>43. ASSUME NEW s \in Slots, RecoveryRequeued(s) PROVE Consents
    BY <1>43 DEF RecoveryRequeued
  <1>44. QED
    BY <1>1, <1>2, <1>3, <1>4, <1>5, <1>6, <1>7, <1>8, <1>9, <1>10, <1>11, <1>12, <1>13,
       <1>14, <1>15, <1>16, <1>17, <1>18, <1>19, <1>20, <1>21, <1>22, <1>23, <1>24,
       <1>25, <1>26, <1>27, <1>28, <1>29, <1>30, <1>31, <1>32, <1>33, <1>34, <1>35,
       <1>36, <1>37, <1>38, <1>39, <1>40, <1>41, <1>42, <1>43, Moves DEF SlotMoves,
       RequestStep, RequestFails

\* A tool starts only on the user's authority: an answer to this very call, or
\* a mode or grant given for the Thread.
THEOREM Consent == Spec => ConsentGiven
  <1>1. Sound /\ [Next]_vars =>
          [ToolStarts =>
             \/ /\ operation.stage = "asking"
                /\ operation.heard \notin {"none", "deny"}
                /\ ~orphaned => operation.seen = operation.thread
             \/ /\ operation'.needs # "mcp"
                /\ permission.owner # NoThread
                /\ ~orphaned => permission.owner \in {operation.thread, selected[runtime]}]_vars
    BY ConsentStep DEF Consents
  <1>2. QED
    BY Invariant, <1>1, PTL DEF Spec, ConsentGiven
==============================================================================
