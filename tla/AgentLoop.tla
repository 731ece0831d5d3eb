------------------------------ MODULE AgentLoop ------------------------------
(***************************************************************************)
(* The agent graph: one Turn between its first context and its answer.     *)
(*                                                                         *)
(* The graph is a loop of nodes: prepare the context, call the model, run  *)
(* one tool call at a time, compress the context, finalize.  A node works  *)
(* on a copy of the state (state) and returns it as the next checkpoint    *)
(* (latest); checkpoints reach the database beside the next node, so a     *)
(* crash resumes from an earlier one (saved).  Everything a node awaits -  *)
(* the provider, a tool, the Conversation - is a step of its own.          *)
(*                                                                         *)
(* A process that restarts decides from the checkpoint whether the Turn is *)
(* already answered, has failed, or can go on, and asks the user before it *)
(* goes on.                                                                *)
(***************************************************************************)
EXTENDS ModelGateway, ContextAssembly

CONSTANTS
    ModelCalls, ToolCalls, Retries, Compressions,   \* the Turn's budget
    Replies,        \* the responses a provider may stream
    Threads,        \* the Threads a Turn may begin in
    Captures,       \* the sources a Turn may capture when it begins
    Replayable,     \* tool calls that may run again without harm
    CallSize, ResultSize,   \* tokens of an assistant message, an observation
    Distilling,     \* cloud memory is enabled: an answer may be distilled
    MaxMishaps      \* bound on crashes, foreign compactions, slow segments

ASSUME AgentAssumption ==
    /\ ModelCalls \in Nat \ {0}
    /\ {ToolCalls, Retries, Compressions, MaxMishaps} \subseteq Nat
    /\ {CallSize, ResultSize} \subseteq Nat \ {0}
    /\ Distilling \in BOOLEAN
    /\ None \notin {"automatic", "context_length", "model_budget_exhausted",
                    "tool_budget_exhausted", "active_time_budget_exhausted"}

\* However a reply is cut into chunks, its calls are a tuple.
ASSUME ReplyAssumption ==
    \A r \in Replies :
        LET calls == Attempt(r).calls IN calls \in Seq(ToSet(calls))

VARIABLES
    mode,       \* "up", "down", "asked" (recovery waits for the user), "done"
    node,       \* the node that runs, or is next to run
    step,       \* what the node waits for; "start" before it runs
    state,      \* the agent state the node works on
    scratch,    \* what the node keeps while it waits
    latest,     \* the last checkpoint the graph made: [state, node]
    saved,      \* the last one the database holds, or None
    thread,     \* the Thread the Turn belongs to
    captured,   \* the sources captured when the Turn began
    turn,       \* the Turn's record: [status, code, manifest]
    sent,       \* provider requests counted since the last checkpoint loaded
    acted,      \* calls that cannot be repeated and have acted
    repeated,   \* those that acted again
    consented,  \* those the user was told about before going on
    mishaps

vars == <<mode, node, step, state, scratch, latest, saved, thread, captured,
          turn, sent, acted, repeated, consented, mishaps>>

Unset == [retries |-> 0, limit |-> 0, reserved |-> FALSE, text |-> FALSE,
          from |-> NoSummary, plan |-> NoPlan, prepared |-> None]

NewState ==
    [items |-> <<>>, size |-> 0, wants |-> None, tail |-> <<>>,
     pending |-> <<>>, next |-> 0, results |-> <<>>,
     calls |-> 0, tools |-> 0, retries |-> 0, comps |-> 0, late |-> FALSE,
     answer |-> None, reason |-> None]

Current == Len(thread.entries)

Init ==
    /\ mode = "up" /\ node = "prepare" /\ step = "start"
    /\ state = NewState /\ scratch = Unset
    /\ latest = [state |-> NewState, node |-> "prepare"]
    /\ saved = None
    /\ thread \in Threads /\ captured \in Captures
    /\ turn = [status |-> "in_progress", code |-> None, manifest |-> <<>>]
    /\ sent = 0 /\ acted = {} /\ repeated = {} /\ consented = {}
    /\ mishaps = 0

(***************************************************************************)
(* The graph.                                                              *)
(***************************************************************************)
\* Faulty: without an answer the model is called again.
NextNode_Again(s) ==
    CASE node = "prepare" -> IF s.wants # None THEN "compress" ELSE "call"
      [] node = "compress" -> IF s.reason # None THEN "finalize" ELSE "call"
      [] node = "call" ->
            IF s.wants # None THEN "compress"
            ELSE IF s.pending # <<>> THEN "tool"
            ELSE IF s.answer # None THEN "finalize" ELSE "call"
      [] node = "tool" ->
            IF s.next < Len(s.pending) THEN "tool" ELSE "call"
      [] node = "finalize" -> "end"

\* Where the graph goes after a node returned the state s.
NextNode(s) ==
    CASE node = "prepare" -> IF s.wants # None THEN "compress" ELSE "call"
      [] node = "compress" -> IF s.reason # None THEN "finalize" ELSE "call"
      [] node = "call" ->
            IF s.wants # None THEN "compress"
            ELSE IF s.pending # <<>> THEN "tool"
            ELSE "finalize"
      [] node = "tool" ->
            IF s.next < Len(s.pending) THEN "tool" ELSE "call"
      [] node = "finalize" -> "end"

\* The node returns: its state is the next checkpoint.
Return(s) ==
    /\ state' = s
    /\ latest' = [state |-> s, node |-> NextNode(s)]
    /\ node' = NextNode(s)
    /\ step' = "start"
    /\ scratch' = Unset

Runs(n, at) == mode = "up" /\ node = n /\ step = at

\* The node waits for something, with the state s so far.
Wait(at, s, kept) ==
    /\ step' = at /\ state' = s /\ scratch' = kept
    /\ UNCHANGED <<node, latest>>

\* A checkpoint reaches the database, at any time after it was made.
CheckpointSaved ==
    /\ mode = "up" /\ saved # latest
    /\ saved' = latest
    /\ UNCHANGED <<mode, node, step, state, scratch, latest, thread, captured,
                   turn, sent, acted, repeated, consented, mishaps>>

outside == <<mode, saved, thread, captured, acted, repeated, consented>>

(***************************************************************************)
(* prepare_context.                                                        *)
(***************************************************************************)
Adopt(s, prepared, tail) ==
    [s EXCEPT !.items = prepared.items,
              !.size = prepared.size + SizeOf(tail)]

\* The context is built from what was captured and the history, and its
\* manifest is recorded on the Turn.
PrepareContext ==
    /\ Runs("prepare", "start")
    /\ LET built == Prepare(captured \cup HistorySources(thread, Current), 0)
       IN  IF built.fits
           THEN /\ Wait("record", state, [scratch EXCEPT !.prepared = built])
                /\ turn' = [turn EXCEPT !.manifest = built.items]
                /\ UNCHANGED mode
           ELSE \* ContextOverflow ends the execution.
                /\ turn' = [turn EXCEPT !.status = "failed",
                                        !.code = "agent_execution_failed"]
                /\ mode' = "done"
                /\ UNCHANGED <<node, step, state, scratch, latest>>
    /\ UNCHANGED <<saved, thread, captured, sent, acted, repeated, consented,
                   mishaps>>

ContextRecorded ==
    /\ Runs("prepare", "record")
    /\ LET built == scratch.prepared
       IN  Return([Adopt(state, built, <<>>) EXCEPT
                     !.wants = IF built.wants THEN "automatic" ELSE None])
    /\ UNCHANGED <<outside, turn, sent, mishaps>>

(***************************************************************************)
(* Budgets.                                                                *)
(***************************************************************************)
LoopExhaustion(s) ==
    IF s.calls >= ModelCalls THEN "model_budget_exhausted"
    ELSE IF s.tools >= ToolCalls THEN "tool_budget_exhausted"
    ELSE IF s.late THEN "active_time_budget_exhausted"
    ELSE None

\* The last call of the budget, and one after the time ran out, gets no tools.
Reserved(s) == LoopExhaustion(s) # None \/ s.calls = ModelCalls - 1

\* One more model call than the retries of it.
ChargeAttempt(s, retries) ==
    [s EXCEPT !.calls = @ + 1 + retries, !.retries = @ + retries]

ChargeRetry(s) == [s EXCEPT !.calls = @ + 1, !.retries = @ + 1]

ChargeTool(s) == [s EXCEPT !.tools = @ + 1]

(***************************************************************************)
(* call_model.                                                             *)
(***************************************************************************)
\* The batch of calls that has been observed is closed.
CloseBatch(s) ==
    IF s.next >= Len(s.pending) THEN [s EXCEPT !.pending = <<>>, !.next = 0]
    ELSE s

\* With the model budget spent no request is made.  The last call of the
\* budget, and any call after another limit is reached, is reserved for an
\* answer: no tools are offered.
CallModel ==
    /\ Runs("call", "start")
    /\ LET s == CloseBatch(state)
           spent == LoopExhaustion(s)
           reserved == Reserved(s)
       IN  IF s.calls >= ModelCalls
           THEN /\ Return([s EXCEPT !.reason = "model_budget_exhausted"])
                /\ UNCHANGED sent
           ELSE /\ Wait("stream",
                        ChargeAttempt(
                          [s EXCEPT !.reason =
                             IF ~reserved THEN @
                             ELSE IF spent # None THEN spent
                             ELSE "budget_final_response"], 0),
                        [scratch EXCEPT !.reserved = reserved])
                /\ sent' = sent + 1
    /\ UNCHANGED <<outside, turn, mishaps>>

\* A Turn that ends here keeps the text that was shown.
EndWith(reason, text) ==
    Return([state EXCEPT !.reason = reason,
                         !.answer = IF text THEN "partial" ELSE @])

\* The identities of a message's calls are distinct and not yet answered.
FreshCalls(s, calls) ==
    /\ IsInjective(calls)
    /\ \A i \in DOMAIN calls : \A k \in DOMAIN s.results :
           s.results[k].call # calls[i]

Emit(s, calls) ==
    [s EXCEPT !.tail = Append(@, [role |-> "assistant", calls |-> calls,
                                  size |-> CallSize]),
              !.size = @ + CallSize]

Completed(a) ==
    LET s == Emit(state, a.calls)
    IN  IF ~FreshCalls(state, a.calls)
        THEN EndWith("provider_protocol", a.text)
        ELSE IF scratch.reserved
        THEN Return([s EXCEPT !.pending = <<>>, !.next = 0,
                       !.answer = IF a.text THEN "full" ELSE "empty"])
        ELSE IF a.calls # <<>>
        THEN Return([s EXCEPT !.pending = a.calls, !.next = 0])
        ELSE Return([s EXCEPT !.pending = <<>>, !.next = 0,
                       !.answer = IF a.text THEN "full" ELSE "empty",
                       !.reason = a.finish])
\* The gateway announces a retry: it is charged, unless a budget is spent,
\* and then the stream is left.
RetryAnnounced ==
    IF state.calls >= ModelCalls
    THEN EndWith("model_budget_exhausted", FALSE) /\ UNCHANGED sent
    ELSE IF state.retries >= Retries
    THEN EndWith("provider_retry_budget_exhausted", FALSE) /\ UNCHANGED sent
    ELSE /\ Wait("stream", ChargeRetry(state),
                 [scratch EXCEPT !.retries = @ + 1])
         /\ sent' = sent + 1

\* The provider answers the request the model call waits for.
ModelReplies(chunks) ==
    /\ Runs("call", "stream")
    /\ LET a == Attempt(chunks)
       IN  IF GatewayRetries(a, scratch.retries) THEN RetryAnnounced
           ELSE /\ UNCHANGED sent
                /\ IF a.kind = "completed" THEN Completed(a)
                   ELSE IF a.code = "context_length"
                   THEN Return([state EXCEPT !.wants = "context_length",
                                             !.reason = None])
                   ELSE EndWith(a.code, a.text)
    /\ UNCHANGED <<outside, turn, mishaps>>

(***************************************************************************)
(* execute_one_tool.                                                       *)
(***************************************************************************)
\* Faulty: an observation is not counted in the estimate.
Observe_Uncounted(s, ran, error) ==
    LET call == s.pending[s.next + 1]
    IN  [s EXCEPT
           !.results = Append(@, [call |-> call, ran |-> ran, error |-> error,
                                  reason |-> s.reason]),
           !.tail = Append(@, [role |-> "tool", call |-> call,
                               error |-> error, size |-> ResultSize]),
           !.next = @ + 1]

\* The observation of the next pending call joins the chain.
Observe(s, ran, error) ==
    LET call == s.pending[s.next + 1]
    IN  [s EXCEPT
           !.results = Append(@, [call |-> call, ran |-> ran, error |-> error,
                                  reason |-> s.reason]),
           !.tail = Append(@, [role |-> "tool", call |-> call,
                               error |-> error, size |-> ResultSize]),
           !.size = @ + ResultSize,
           !.next = @ + 1]
\* Faulty: a call beyond the budget is dropped.
ExecuteOneTool_Dropped ==
    /\ Runs("tool", "start")
    /\ LET spent == LoopExhaustion(state)
           call == state.pending[state.next + 1]
       IN  IF spent # None
           THEN /\ Return([state EXCEPT !.reason = spent, !.next = @ + 1])
                /\ UNCHANGED acted
           ELSE /\ Wait("tool", ChargeTool(state), scratch)
                /\ acted' = acted \cup ({call} \ Replayable)
    /\ UNCHANGED <<mode, saved, thread, captured, turn, sent, repeated,
                   consented, mishaps>>

\* A call beyond the budget is observed as an error and does not run.
\* Arguments are a JSON object here: the adapters refuse any other.
ExecuteOneTool ==
    /\ Runs("tool", "start")
    /\ LET spent == LoopExhaustion(state)
           call == state.pending[state.next + 1]
           again == acted \cap ({call} \ Replayable)
       IN  IF spent # None
           THEN /\ Return(Observe([state EXCEPT !.reason = spent], FALSE, TRUE))
                /\ UNCHANGED <<acted, repeated>>
           ELSE /\ Wait("tool", ChargeTool(state), scratch)
                /\ acted' = acted \cup ({call} \ Replayable)
                /\ repeated' = repeated \cup again
    /\ UNCHANGED <<mode, saved, thread, captured, turn, sent, consented,
                   mishaps>>

ToolReturns(error) ==
    /\ Runs("tool", "tool")
    /\ Return(Observe(state, TRUE, error))
    /\ UNCHANGED <<outside, turn, sent, mishaps>>

(***************************************************************************)
(* compress_context.                                                       *)
(***************************************************************************)
NoCompression(s) == [s EXCEPT !.wants = None]

\* Compression is skipped when only the reserved call is left or its budget
\* is spent; a context the provider refused cannot go on without it.
SkipCompression ==
    /\ Runs("compress", "start")
    /\ state.calls >= ModelCalls - 1 \/ state.comps >= Compressions
    /\ Return([NoCompression(state) EXCEPT
                 !.reason = IF state.wants = "context_length"
                            THEN "context_unrecoverable" ELSE @])
    /\ UNCHANGED <<outside, turn, sent, mishaps>>

\* A compression that failed: the Turn goes on only with a context that was
\* not refused and still fits.
CompressionFailed(s, code) ==
    Return([NoCompression(s) EXCEPT
              !.reason = IF \/ code = "context_unrecoverable"
                            \/ s.wants = "context_length"
                            \/ s.size > InputLimit
                         THEN "context_unrecoverable" ELSE @])

Min0(n) == IF n < 0 THEN 0 ELSE n

\* The open chain is checked and the Thread is read; then the model is asked
\* for a summary of what the plan covers, if there is anything to cover.
CompressContext ==
    /\ Runs("compress", "start")
    /\ state.calls < ModelCalls - 1 /\ state.comps < Compressions
    /\ LET plan == PlanCompression(thread)
           limit == Min({Min0(Retries - state.retries),
                         Min0(ModelCalls - state.calls - 2)})
       IN  IF ~TailValid(state.tail, state.pending, state.next, state.results)
           THEN CompressionFailed(state, "context_unrecoverable")
                /\ UNCHANGED sent
           ELSE IF plan.entries = {}
           THEN CompressionFailed(state, "compression_unavailable")
                /\ UNCHANGED sent
           ELSE /\ Wait("summary", state,
                        [scratch EXCEPT !.limit = limit,
                                        !.from = thread.summary,
                                        !.plan = plan])
                /\ sent' = sent + 1
    /\ UNCHANGED <<outside, turn, mishaps>>
\* Faulty: the retries of a summary are not charged.
ChargeCompression_Once(s, retries) ==
    ChargeAttempt([s EXCEPT !.comps = @ + 1], 0)

ChargeCompression(s, retries) ==
    ChargeAttempt([s EXCEPT !.comps = @ + 1], retries)

\* The summary arrives, or the bounded request fails.
SummaryReplies(chunks) ==
    /\ Runs("compress", "summary")
    /\ LET a == Attempt(chunks)
       IN  IF GatewayRetries(a, scratch.retries)
              /\ scratch.retries < scratch.limit
           THEN /\ Wait("summary", state, [scratch EXCEPT !.retries = @ + 1])
                /\ sent' = sent + 1
           ELSE /\ UNCHANGED sent
                /\ IF a.kind = "completed" /\ a.text
                   THEN Wait("store", state, scratch)
                   ELSE CompressionFailed(
                          ChargeCompression(state, scratch.retries),
                          "compression_failed")
    /\ UNCHANGED <<outside, turn, mishaps>>

\* The summary replaces the one the plan was made from, or conflicts.
StoreSummary ==
    /\ Runs("compress", "store")
    /\ IF thread.summary = scratch.from
       THEN /\ thread' = [thread EXCEPT
                            !.summary = Summarize(thread, scratch.plan)]
            /\ Wait("rebuild", state, scratch)
       ELSE /\ CompressionFailed(ChargeCompression(state, scratch.retries),
                                 "compression_conflict")
            /\ UNCHANGED thread
    /\ UNCHANGED <<mode, saved, captured, turn, sent, acted, repeated,
                   consented, mishaps>>

\* The context is rebuilt around the open chain, from what was captured or,
\* after a restart, from the manifest; the new manifest is recorded.
RebuildContext ==
    /\ Runs("compress", "rebuild")
    /\ LET base == IF captured # None THEN captured ELSE Anchors(state.items)
           chain == SizeOf(state.tail)
           built == Prepare(base \cup HistorySources(thread, Current), chain)
           s == ChargeCompression(state, scratch.retries)
       IN  IF built.fits
           THEN /\ Wait("record", Adopt(NoCompression(s), built, state.tail),
                        scratch)
                /\ turn' = [turn EXCEPT !.manifest = built.items]
           ELSE /\ CompressionFailed(s, "context_unrecoverable")
                /\ UNCHANGED turn
    /\ UNCHANGED <<outside, sent, mishaps>>

CompressionRecorded ==
    /\ Runs("compress", "record")
    /\ Return(state)
    /\ UNCHANGED <<outside, turn, sent, mishaps>>

(***************************************************************************)
(* finalize.                                                               *)
(***************************************************************************)
ErrorCodes == RetryableCodes \cup
    {"authentication", "invalid_request", "context_length",
     "provider_protocol"}

\* The reasons that start with "model_", and context_unrecoverable: the text
\* of such a Turn is not worked on any further.
FailedTermination(s) ==
    s.reason \in ErrorCodes \cup
        {"model_budget_exhausted", "context_unrecoverable"}

RemainingCalls(s) == IF s.late THEN 0 ELSE Min0(ModelCalls - s.calls)

Finished(s) == [s EXCEPT !.reason = IF @ = None THEN "completed" ELSE @]

\* distill skips a Turn without an answer and one without a model call left.
Distills(s) == RemainingCalls(s) > 0 /\ s.answer \in {"partial", "full"}

\* With cloud memory, an answer is distilled.
Finalize ==
    /\ Runs("finalize", "start")
    /\ IF Distilling /\ Distills(state) /\ ~FailedTermination(state)
       THEN Wait("distil", state, scratch) /\ sent' = sent + 1
       ELSE Return(Finished(state)) /\ UNCHANGED sent
    /\ UNCHANGED <<outside, turn, mishaps>>

MoreDistillation(s, retries) ==
    /\ retries < Retries - s.retries
    /\ 1 + retries < RemainingCalls(s)

\* One call and its retries, whether candidates came of it or a warning.
Distilled(s, retries) == ChargeAttempt(s, retries)

\* The distillation is bounded by what the Turn has left, and charged even
\* when it fails; the answer stands.
DistillationReplies(chunks) ==
    /\ Runs("finalize", "distil")
    /\ LET a == Attempt(chunks)
       IN  IF /\ GatewayRetries(a, scratch.retries)
              /\ MoreDistillation(state, scratch.retries)
           THEN /\ Wait("distil", state, [scratch EXCEPT !.retries = @ + 1])
                /\ sent' = sent + 1
           ELSE /\ Return(Finished(Distilled(state, scratch.retries)))
                /\ UNCHANGED sent
    /\ UNCHANGED <<outside, turn, mishaps>>

\* The coordinator records how the graph ended, and the checkpoint goes.
Conclude ==
    /\ Runs("end", "start")
    /\ turn' = IF state.answer = None
               THEN [turn EXCEPT !.status = "failed", !.code = state.reason]
               ELSE [turn EXCEPT !.status = "completed", !.code = state.reason]
    /\ saved' = None /\ mode' = "done"
    /\ UNCHANGED <<node, step, state, scratch, latest, thread, captured, sent,
                   acted, repeated, consented, mishaps>>

(***************************************************************************)
(* Recovery.                                                               *)
(***************************************************************************)
ResumableReasons == {"model_budget_exhausted", "tool_budget_exhausted",
                     "active_time_budget_exhausted"}

\* Results of calls that did not run come last, and say the reason the Turn
\* is ending for; the counters are within the budget.
CheckpointCounts(s) ==
    LET ran == {k \in DOMAIN s.results : s.results[k].ran}
        skipped == DOMAIN s.results \ ran
    IN  /\ \A k \in skipped : /\ s.results[k].reason = s.reason
                              /\ s.reason \in ResumableReasons
                              /\ \A j \in ran : j < k
        /\ s.calls <= ModelCalls /\ s.tools <= ToolCalls
        /\ s.retries <= Retries /\ s.comps <= Compressions
        /\ s.tools >= Cardinality(ran)

SharesLineage(s) ==
    turn.manifest = <<>> \/ Anchors(s.items) = Anchors(turn.manifest)

\* The Turn stopped in the middle of skipping calls beyond its budget.
BudgetInterrupted(s) ==
    /\ s.reason \in ResumableReasons
    /\ s.calls < ModelCalls
    /\ s.pending # <<>>
    /\ \E k \in DOMAIN s.results : ~s.results[k].ran

\* The next pending call may have acted, and cannot be repeated.
UncertainCalls(s) ==
    IF s.next >= Len(s.pending) THEN {}
    ELSE LET call == s.pending[s.next + 1]
         IN  IF \E k \in DOMAIN s.results : s.results[k].call = call
             THEN {} ELSE {call} \ Replayable

Verdict(checkpoint) ==
    IF checkpoint = None THEN "checkpoint_missing"
    ELSE LET s == checkpoint.state
         IN  IF ~CheckpointCounts(s) THEN "checkpoint_corrupt"
             ELSE IF ~SnapshotValid(s.items, s.size, s.tail, s.pending,
                                    s.next, s.results)
                     \/ ~SharesLineage(s)
             THEN "context_snapshot_missing"
             ELSE IF s.answer # None THEN "finalized"
             ELSE IF s.reason # None /\ ~BudgetInterrupted(s)
             THEN s.reason
             ELSE "resumable"

\* The process dies: what it held in memory is gone.
Crash ==
    /\ mode = "up" /\ mishaps < MaxMishaps
    /\ mishaps' = mishaps + 1
    /\ mode' = "down" /\ captured' = None
    /\ UNCHANGED <<node, step, state, scratch, latest, saved, thread, turn,
                   sent, acted, repeated, consented>>

\* Only the calls the checkpoint knows of are remembered: a call emitted
\* after it is emitted anew, as another call.
Remembered ==
    IF saved = None THEN {}
    ELSE LET s == saved.state
         IN  {s.results[k].call : k \in DOMAIN s.results} \cup UncertainCalls(s)

\* A new process judges the checkpoint.
Recover ==
    /\ mode = "down"
    /\ LET verdict == Verdict(saved)
       IN  /\ turn' = CASE verdict = "resumable" ->
                             [turn EXCEPT !.manifest = saved.state.items]
                        [] verdict = "finalized" ->
                             [turn EXCEPT !.status = "completed",
                                          !.code = saved.state.reason]
                        [] OTHER ->
                             [turn EXCEPT !.status = "failed",
                                          !.code = verdict]
           /\ mode' = IF verdict = "resumable" THEN "asked" ELSE "done"
    /\ acted' = acted \cap Remembered
    /\ UNCHANGED <<node, step, state, scratch, latest, saved, thread, captured,
                   sent, repeated, consented, mishaps>>

\* The user goes on with the Turn, knowing which call may have acted.
UserRetries ==
    /\ mode = "asked"
    /\ mode' = "up"
    /\ state' = saved.state /\ node' = saved.node /\ latest' = saved
    /\ step' = "start" /\ scratch' = Unset
    /\ sent' = saved.state.calls
    /\ consented' = consented \cup
         IF BudgetInterrupted(saved.state) THEN {}
         ELSE UncertainCalls(saved.state)
    /\ UNCHANGED <<saved, thread, captured, turn, acted, repeated, mishaps>>

UserAborts ==
    /\ mode = "asked"
    /\ mode' = "done" /\ saved' = None
    /\ turn' = [turn EXCEPT !.status = "failed", !.code = "recovery_aborted"]
    /\ UNCHANGED <<node, step, state, scratch, latest, thread, captured, sent,
                   acted, repeated, consented, mishaps>>

(***************************************************************************)
(* The surroundings.                                                       *)
(***************************************************************************)
\* A model or tool segment uses up the active time.
TimeRunsOut ==
    /\ mode = "up" /\ step \in {"stream", "tool"}
    /\ ~state.late /\ mishaps < MaxMishaps
    /\ state' = [state EXCEPT !.late = TRUE]
    /\ mishaps' = mishaps + 1
    /\ UNCHANGED <<mode, node, step, scratch, latest, saved, thread, captured,
                   turn, sent, acted, repeated, consented>>

\* Another process that shares the database compacts the Thread.
OtherCompacts ==
    /\ mode # "done" /\ mishaps < MaxMishaps
    /\ PlanCompression(thread).entries # {}
    /\ thread' = [thread EXCEPT
                    !.summary = Summarize(thread, PlanCompression(thread))]
    /\ mishaps' = mishaps + 1
    /\ UNCHANGED <<mode, node, step, state, scratch, latest, saved, captured,
                   turn, sent, acted, repeated, consented>>

GraphStep ==
    \/ PrepareContext \/ ContextRecorded
    \/ CallModel \/ \E r \in Replies : ModelReplies(r)
    \/ ExecuteOneTool \/ \E error \in BOOLEAN : ToolReturns(error)
    \/ SkipCompression \/ CompressContext
    \/ \E r \in Replies : SummaryReplies(r)
    \/ StoreSummary \/ RebuildContext \/ CompressionRecorded
    \/ Finalize \/ \E r \in Replies : DistillationReplies(r)
    \/ Conclude

RecoveryStep == Recover \/ UserRetries \/ UserAborts

Done == mode = "done" /\ UNCHANGED vars

Next ==
    \/ GraphStep \/ RecoveryStep \/ CheckpointSaved
    \/ Crash \/ TimeRunsOut \/ OtherCompacts
    \/ Done

\* The event loop runs every node on, provider requests and tools have
\* deadlines, and the user answers a recovery.
Spec == Init /\ [][Next]_vars /\ WF_vars(GraphStep) /\ WF_vars(RecoveryStep)

(***************************************************************************)
(* Properties.                                                             *)
(***************************************************************************)
\* The observations of the calls emitted at i follow it, in their order.
Answered(tail, i) ==
    \A k \in DOMAIN tail[i].calls :
        /\ i + k \in DOMAIN tail
        /\ tail[i + k].role = "tool" /\ tail[i + k].call = tail[i].calls[k]

EveryCallObserved(tail) ==
    /\ \A i \in Batches(tail) : Answered(tail, i)
    /\ \A n \in DOMAIN tail \ Batches(tail) :
          \E i \in Batches(tail) : n - i \in DOMAIN tail[i].calls
    /\ \A m, n \in DOMAIN tail \ Batches(tail) :
          tail[m].call = tail[n].call => m = n

\* Whenever the provider is asked, every tool call an earlier answer emitted
\* has exactly one observation, in the order of the calls and before the
\* next answer - also the calls a spent budget kept from running, and those
\* of a Turn that was resumed or compressed in between.
RequestsWellFormed ==
    Runs("call", "stream") => EveryCallObserved(state.tail)

\* Every request to the provider - retries, summaries and distillations
\* included - is charged, no budget is exceeded, and a compression leaves
\* one call for the answer.
BudgetsKept ==
    mode = "up" =>
        /\ sent <= ModelCalls
        /\ step = "start" => sent = state.calls
        /\ state.tools <= ToolCalls
        /\ state.retries <= Retries
        /\ state.comps <= Compressions
        /\ step = "summary" => sent < ModelCalls

\* The entries the model has to know of: the completed Turns and the direct
\* commands before the current input.
Due ==
    {n \in 1..Current - 1 :
        \/ thread.entries[n].kind = "direct"
        \/ n \in EntriesOf(thread, CompletedTurns(thread))}

Verbatim(items) ==
    {i.seq : i \in {j \in ToSet(items) : j.kind = "recent_turns"}}

Told(items) ==
    UNION {i.text : i \in {j \in ToSet(items) : j.kind = "thread_summary"}}

LatestCompleted ==
    {t \in CompletedTurns(thread) :
        Cardinality({u \in CompletedTurns(thread) : u > t}) < RecentTurns}

\* No compression loses or repeats history: each entry that is due is in the
\* context once, verbatim or through the summary, unless there is no room
\* for it, and the most recent Turns are never only summarised.
HistoryWhole ==
    (mode = "up" /\ state.items # <<>>) =>
        LET items == state.items
        IN  /\ Verbatim(items) \cap Told(items) = {}
            /\ Told(items) \cap EntriesOf(thread, LatestCompleted) = {}
            /\ \/ Due \subseteq Verbatim(items) \cup Told(items)
               \/ state.size + EntrySize > InputLimit

\* A call that acted and cannot be repeated acts again only when the user was
\* told.
RepeatsConsented == repeated \subseteq consented

\* A Turn that was going on when its process died can go on: its checkpoint
\* is accepted, and no call is repeated behind the user's back.
SafeToResume ==
    /\ RepeatsConsented
    /\ (/\ mode = "down" /\ saved # None
        /\ saved.state.items # <<>>
        /\ saved.state.reason = None
        /\ saved.state.wants # "context_length"
        /\ saved.state.size <= InputLimit)
       => Verdict(saved) \in {"resumable", "finalized"}

\* The loop ends: every Turn is completed or failed in the end, whatever the
\* provider answers and however often the process dies.
TurnSettles == <>(turn.status # "in_progress")
=============================================================================
