---------------------------- MODULE AgentLoop_proofs ----------------------------
(***************************************************************************)
(* The tool calls and the budgets of the agent graph, for any budget, any  *)
(* replies of the provider, and any number of crashes: what a checkpoint   *)
(* keeps (Resumable) holds of the state a node works on, of the last       *)
(* checkpoint and of the one in the database, so that a Turn goes on from  *)
(* any of them as if it had never stopped.                                 *)
(***************************************************************************)
EXTENDS AgentLoop, SequenceTheorems, TLAPS

StateFields == {"items", "size", "wants", "tail", "pending", "next", "results", "calls",
                "tools", "retries", "comps", "late", "answer", "reason"}
ScratchFields == {"retries", "limit", "reserved", "text", "from", "plan", "prepared"}
Nodes == {"prepare", "call", "tool", "compress", "finalize", "end"}
Ending == {"finalize", "end"}

IsTuple(s) == s \in Seq(ToSet(s))

Counted(s) ==
    /\ s.calls \in 0..ModelCalls /\ s.tools \in 0..ToolCalls
    /\ s.retries \in 0..Retries /\ s.comps \in 0..Compressions
    /\ s.late \in BOOLEAN

Typed(s) ==
    /\ DOMAIN s = StateFields /\ Counted(s)
    /\ IsTuple(s.tail) /\ IsTuple(s.pending) /\ IsTuple(s.results)
    /\ s.next \in 0..Len(s.pending)

\* The batch at i is the one that is pending: its first calls are observed.
Open(s, i) ==
    /\ i \in Batches(s.tail) /\ i + s.next = Len(s.tail)
    /\ s.tail[i].calls = s.pending /\ s.pending # <<>>
    /\ \A k \in 1..s.next : s.tail[i + k].role = "tool" /\ s.tail[i + k].call = s.pending[k]

\* Every batch is answered but the one that is pending, every observation
\* belongs to a batch and is in the results, and no call is observed twice.
Chained(s) ==
    /\ \A i \in Batches(s.tail) : Answered(s.tail, i) \/ Open(s, i)
    /\ \A n \in DOMAIN s.tail \ Batches(s.tail) :
          /\ \E i \in Batches(s.tail) : n - i \in DOMAIN s.tail[i].calls
          /\ \E k \in DOMAIN s.results : s.results[k].call = s.tail[n].call
    /\ \A m, n \in DOMAIN s.tail \ Batches(s.tail) :
          s.tail[m].call = s.tail[n].call => m = n
    /\ s.next < Len(s.pending) => Open(s, Len(s.tail) - s.next)

\* The pending calls that have no observation yet have no result either.
Unanswered(s) ==
    /\ IsInjective(s.pending)
    /\ \A i \in s.next + 1..Len(s.pending), k \in DOMAIN s.results :
          s.results[k].call # s.pending[i]

\* A call is kept from running only when the loop is exhausted.
Skipped(s) == (\E k \in DOMAIN s.results : ~s.results[k].ran) => LoopExhaustion(s) # None

\* What the node n is entered with.
Resumable(s, n) ==
    /\ n \in Nodes /\ Typed(s) /\ Unanswered(s) /\ Skipped(s)
    /\ n = "tool" <=> s.next < Len(s.pending)
    /\ n \in {"call", "tool"} => s.wants = None
    /\ n \notin Ending => Chained(s)

\* Every request that was sent is charged, or will be when the node returns.
Charged ==
    /\ step \in {"start", "record", "stream", "tool"} => sent = state.calls
    /\ step \in {"summary", "store", "rebuild"} =>
          /\ sent = state.calls + 1 + scratch.retries /\ sent < ModelCalls
          /\ state.retries + scratch.retries <= Retries /\ state.comps < Compressions
    /\ step = "summary" =>
          /\ scratch.limit \in Nat /\ scratch.retries <= scratch.limit
          /\ scratch.limit <= Retries - state.retries
          /\ scratch.limit <= ModelCalls - state.calls - 2
    /\ step = "distil" =>
          /\ sent = state.calls + 1 + scratch.retries /\ sent <= ModelCalls
          /\ state.retries + scratch.retries <= Retries

\* What each node may wait for.
Waiting ==
    /\ step \in {"start", "record", "stream", "tool", "summary", "store", "rebuild", "distil"}
    /\ step = "stream" => node = "call" /\ state.pending = <<>>
    /\ step = "tool" => node = "tool"
    /\ step \in {"summary", "store", "rebuild"} => node = "compress"
    /\ step = "distil" => node = "finalize"
    /\ step = "record" => node \in {"prepare", "compress"}
    /\ step = "record" /\ node = "compress" => state.wants = None
    /\ DOMAIN scratch = ScratchFields /\ scratch.retries \in Nat
    /\ step = "start" => scratch.retries = 0

ResultCalls(s) == {s.results[k].call : k \in DOMAIN s.results}

\* A call that acted and cannot be repeated has a result, or the user knows of
\* it, or it is the next one and runs now or is not going to run.
Known ==
    \A c \in acted :
        \/ c \in ResultCalls(state) \cup consented
        \/ /\ state.next < Len(state.pending) /\ c = state.pending[state.next + 1]
           /\ step = "tool" \/ LoopExhaustion(state) # None

Places ==
    /\ Resumable(state, node) /\ Resumable(latest.state, latest.node)
    /\ saved # None => Resumable(saved.state, saved.node)

Judged == mode = "asked" => saved # None /\ acted \subseteq Remembered

AgentInv == Places /\ Charged /\ Waiting /\ Known /\ RepeatsConsented /\ Judged

-----------------------------------------------------------------------------
(* Sequences and counters.                                                 *)

LEMMA TupleFacts ==
    ASSUME NEW s, IsTuple(s)
    PROVE  Len(s) \in Nat /\ DOMAIN s = 1..Len(s) /\ (s = <<>> <=> Len(s) = 0)
  BY DEF IsTuple

LEMMA EmptyTuple == IsTuple(<<>>) /\ Len(<<>>) = 0 /\ DOMAIN <<>> = {}
  BY DEF IsTuple, ToSet

LEMMA AppendTuple ==
    ASSUME NEW s, NEW e, IsTuple(s)
    PROVE  /\ IsTuple(Append(s, e)) /\ Len(Append(s, e)) = Len(s) + 1
           /\ DOMAIN Append(s, e) = 1..Len(s) + 1
           /\ \A i \in 1..Len(s) : Append(s, e)[i] = s[i]
           /\ Append(s, e)[Len(s) + 1] = e
  <1> DEFINE S == ToSet(s) \cup {e}
             t == Append(s, e)
  <1>1. s \in Seq(S) /\ e \in S /\ Len(s) \in Nat
    BY SeqDef DEF IsTuple
  <1>2. /\ t \in Seq(S) /\ Len(t) = Len(s) + 1
        /\ \A i \in 1..Len(s) : t[i] = s[i]
        /\ t[Len(s) + 1] = e
    BY <1>1, AppendProperties
  <1>3. DOMAIN t = 1..Len(s) + 1
    BY <1>2, <1>1
  <1>4. \A i \in 1..Len(t) : t[i] \in ToSet(t)
    BY <1>3, <1>2, <1>1 DEF ToSet
  <1>5. t \in Seq(ToSet(t))
    <2> HIDE DEF t
    <2>1. \E n \in Nat : t \in [1..n -> ToSet(t)]
      BY <1>1, <1>2, <1>4
    <2>2. QED
      BY <2>1, SeqDef
  <1>6. QED
    BY <1>2, <1>3, <1>5 DEF IsTuple

\* An exhausted loop stays exhausted.
LEMMA ExhaustionStays ==
    ASSUME NEW s, NEW t, Counted(s), Counted(t),
           s.calls <= t.calls, s.tools <= t.tools, s.late => t.late,
           LoopExhaustion(s) # None
    PROVE  LoopExhaustion(t) # None
  BY AgentAssumption DEF LoopExhaustion, Counted

\* A state that is not exhausted has a model call and a tool call left.
LEMMA NotExhausted ==
    ASSUME NEW s, Counted(s), LoopExhaustion(s) = None
    PROVE  s.calls < ModelCalls /\ s.tools < ToolCalls /\ ~s.late
  BY AgentAssumption DEF LoopExhaustion, Counted

\* t is s further on, with the same chain.
Carries(s, t) ==
    /\ DOMAIN t = StateFields /\ Counted(t)
    /\ t.tail = s.tail /\ t.pending = s.pending
    /\ t.next = s.next /\ t.results = s.results
    /\ s.calls <= t.calls /\ s.tools <= t.tools /\ (s.late => t.late)

LEMMA CarriesResumable ==
    ASSUME NEW s, NEW t, NEW n, NEW n2 \in Nodes, Resumable(s, n), Carries(s, t),
           n2 = "tool" <=> n = "tool",
           n2 \in {"call", "tool"} => t.wants = None,
           n2 \notin Ending => n \notin Ending
    PROVE  Resumable(t, n2)
  <1>1. Typed(t) /\ Unanswered(t)
    BY DEF Resumable, Typed, Unanswered, Carries
  <1>2. Skipped(t)
    BY ExhaustionStays DEF Resumable, Typed, Skipped, Carries
  <1>3. Chained(s) => Chained(t)
    BY DEF Chained, Open, Carries
  <1>4. QED
    BY <1>1, <1>2, <1>3 DEF Resumable, Carries

\* The node call_model starts from an empty batch.
LEMMA CloseBatchResumable ==
    ASSUME NEW s, Resumable(s, "call")
    PROVE  /\ Resumable(CloseBatch(s), "call") /\ CloseBatch(s).pending = <<>>
           /\ CloseBatch(s).next = 0 /\ CloseBatch(s).results = s.results
           /\ CloseBatch(s).calls = s.calls /\ CloseBatch(s).wants = None
           /\ DOMAIN CloseBatch(s) = StateFields
  <1> DEFINE t == CloseBatch(s)
  <1>1. DOMAIN s = StateFields /\ s.next = Len(s.pending) /\ s.wants = None
    BY TupleFacts DEF Resumable, Typed
  <1>2. t = [s EXCEPT !.pending = <<>>, !.next = 0]
    BY <1>1, TupleFacts DEF CloseBatch, Resumable, Typed
  <1>3. /\ DOMAIN t = StateFields /\ t.pending = <<>> /\ t.next = 0
        /\ t.tail = s.tail /\ t.results = s.results /\ t.wants = None
        /\ t.calls = s.calls /\ t.tools = s.tools /\ t.retries = s.retries
        /\ t.comps = s.comps /\ t.late = s.late
    BY <1>1, <1>2 DEF StateFields
  <1> HIDE DEF t
  <1>4. Typed(t) /\ Unanswered(t) /\ Skipped(t)
    BY <1>3, EmptyTuple DEF Resumable, Typed, Counted, Unanswered, IsInjective, Skipped,
       LoopExhaustion
  <1>5. Chained(t)
    <2>1. Chained(s) /\ IsTuple(s.pending)
      BY DEF Resumable, Typed, Ending
    <2>2. ASSUME NEW i \in Batches(s.tail), Open(s, i) PROVE Answered(s.tail, i)
      <3>1. IsTuple(s.tail) /\ i \in 1..Len(s.tail) /\ Len(s.tail) \in Nat
        BY TupleFacts DEF Resumable, Typed, Batches
      <3>2. DOMAIN s.tail[i].calls = 1..s.next /\ i + s.next = Len(s.tail)
        BY <2>1, <2>2, <1>1, TupleFacts DEF Open
      <3>3. s.next \in Nat /\ DOMAIN s.tail = 1..Len(s.tail)
        BY <2>1, <1>1, <3>1, TupleFacts
      <3>4. \A m, j, k \in Nat : j + k <= m /\ j >= 1 => j + k \in 1..m
        OBVIOUS
      <3>6. \A k \in 1..s.next : i + k \in DOMAIN s.tail
        BY <3>1, <3>2, <3>3, <3>4
      <3>5. QED
        BY <3>2, <3>6, <2>2 DEF Open, Answered
    <2>3. \A i \in Batches(t.tail) : Answered(t.tail, i)
      BY <2>1, <2>2, <1>3 DEF Chained
    <2>4. QED
      BY <2>1, <2>3, <1>3, EmptyTuple DEF Chained
  <1>6. QED
    BY <1>3, <1>4, <1>5, EmptyTuple DEF Resumable, Ending, Nodes, t

\* A longer chain: what was in it stays, and what was answered stays answered.
LEMMA TailGrows ==
    ASSUME NEW tail, NEW m, IsTuple(tail)
    PROVE  LET longer == Append(tail, m)
           IN  /\ \A i \in DOMAIN tail : longer[i] = tail[i] /\ i \in DOMAIN longer
               /\ \A i \in Batches(longer) : i \in Batches(tail) \/ i = Len(tail) + 1
               /\ \A i \in Batches(tail) : i \in Batches(longer)
               /\ \A i \in DOMAIN tail : i \in Batches(longer) => i \in Batches(tail)
               /\ Len(tail) + 1 \in Batches(longer) <=> m.role = "assistant"
               /\ \A i \in Batches(tail) : Answered(tail, i) => Answered(longer, i)
  <1> DEFINE longer == Append(tail, m)
  <1>1. /\ Len(tail) \in Nat /\ DOMAIN tail = 1..Len(tail)
        /\ DOMAIN longer = 1..Len(tail) + 1 /\ longer[Len(tail) + 1] = m
        /\ \A i \in DOMAIN tail : longer[i] = tail[i]
    BY TupleFacts, AppendTuple
  <1> HIDE DEF longer
  <1>2. \A i \in DOMAIN tail : longer[i] = tail[i] /\ i \in DOMAIN longer
    BY <1>1
  <1>3. \A i \in DOMAIN longer : i \in DOMAIN tail \/ i = Len(tail) + 1
    BY <1>1
  <1>4. /\ \A i \in Batches(longer) : i \in Batches(tail) \/ i = Len(tail) + 1
        /\ \A i \in Batches(tail) : i \in Batches(longer)
        /\ \A i \in DOMAIN tail : i \in Batches(longer) => i \in Batches(tail)
        /\ Len(tail) + 1 \in Batches(longer) <=> m.role = "assistant"
    BY <1>1, <1>2, <1>3 DEF Batches
  <1>5. \A i \in Batches(tail) : Answered(tail, i) => Answered(longer, i)
    BY <1>2 DEF Answered, Batches
  <1>6. QED
    BY <1>2, <1>4, <1>5 DEF longer

\* A complete answer: its calls, if they are new, are pending; or the loop ends.
LEMMA EmitResumable ==
    ASSUME NEW s, NEW t, NEW calls,
           Resumable(s, "call"), s.pending = <<>>, IsTuple(calls), FreshCalls(s, calls),
           DOMAIN t = StateFields, Counted(t), t.tail = Emit(s, calls).tail,
           t.next = 0, t.results = s.results, t.wants = s.wants,
           t.calls = s.calls, t.tools = s.tools, t.late = s.late
    PROVE  /\ t.pending = calls /\ calls # <<>> => Resumable(t, "tool")
           /\ t.pending = <<>> => Resumable(t, "finalize")
  <1> DEFINE m == [role |-> "assistant", calls |-> calls, size |-> CallSize]
             end == Len(s.tail) + 1
  <1>1. /\ DOMAIN s = StateFields /\ IsTuple(s.tail) /\ IsTuple(s.results) /\ s.wants = None
        /\ Chained(s) /\ Skipped(s)
    BY DEF Resumable, Typed, Ending
  <1>2. t.tail = Append(s.tail, m) /\ m.role = "assistant" /\ m.calls = calls
    BY <1>1 DEF Emit, StateFields
  <1> HIDE DEF m
  <1>3. /\ IsTuple(t.tail) /\ Len(t.tail) = end /\ t.tail[end] = m /\ Len(s.tail) \in Nat
        /\ DOMAIN s.tail = 1..Len(s.tail) /\ DOMAIN t.tail = 1..end
    BY <1>1, <1>2, AppendTuple, TupleFacts
  <1>4. Skipped(t)
    BY <1>1 DEF Skipped, LoopExhaustion
  <1>5. t.pending = <<>> => Typed(t) /\ Unanswered(t)
    BY <1>1, <1>3, EmptyTuple DEF Typed, Unanswered, IsInjective
  <1>6. t.pending = calls => Typed(t) /\ Unanswered(t)
    BY <1>1, <1>3, TupleFacts DEF Typed, Unanswered, FreshCalls
  <1>7. ASSUME t.pending = calls, calls # <<>> PROVE Chained(t)
    <2>1. /\ \A i \in DOMAIN s.tail : t.tail[i] = s.tail[i]
          /\ \A i \in Batches(t.tail) : i \in Batches(s.tail) \/ i = end
          /\ \A i \in Batches(s.tail) : i \in Batches(t.tail)
          /\ \A i \in DOMAIN s.tail : i \in Batches(t.tail) => i \in Batches(s.tail)
          /\ end \in Batches(t.tail)
          /\ \A i \in Batches(s.tail) : Answered(s.tail, i) => Answered(t.tail, i)
      BY <1>1, <1>2, TailGrows
    <2>2. Open(t, end)
      BY <1>2, <1>3, <1>7, <2>1 DEF Open
    <2>3. \A i \in Batches(s.tail) : Answered(s.tail, i)
      BY <1>1 DEF Chained, Open
    <2>4. \A n \in DOMAIN t.tail \ Batches(t.tail) :
             n \in DOMAIN s.tail \ Batches(s.tail) /\ t.tail[n] = s.tail[n]
      BY <1>3, <2>1
    <2>5. \A i \in Batches(s.tail) : t.tail[i] = s.tail[i]
      BY <2>1 DEF Batches
    <2>6. \A n \in DOMAIN t.tail \ Batches(t.tail) :
             /\ \E i \in Batches(t.tail) : n - i \in DOMAIN t.tail[i].calls
             /\ \E k \in DOMAIN t.results : t.results[k].call = t.tail[n].call
      BY <1>1, <2>1, <2>4, <2>5 DEF Chained
    <2>7. \A k, n \in DOMAIN t.tail \ Batches(t.tail) :
             t.tail[k].call = t.tail[n].call => k = n
      BY <1>1, <2>4 DEF Chained
    <2>8. Len(t.tail) - t.next = end
      BY <1>3
    <2>9. QED
      BY <2>1, <2>2, <2>3, <2>6, <2>7, <2>8 DEF Chained
  <1>8. t.pending = calls /\ calls # <<>> => t.next < Len(t.pending)
    BY TupleFacts
  <1>9. QED
    BY <1>1, <1>4, <1>5, <1>6, <1>7, <1>8, EmptyTuple DEF Resumable, Nodes, Ending

\* The observation of the next pending call.
LEMMA ObserveResumable ==
    ASSUME NEW s, NEW ran \in BOOLEAN, NEW error, NEW n,
           Resumable(s, "tool"), ran \/ LoopExhaustion(s) # None,
           n = IF s.next + 1 < Len(s.pending) THEN "tool" ELSE "call"
    PROVE  LET t == Observe(s, ran, error)
           IN  /\ Resumable(t, n)
               /\ t.calls = s.calls /\ t.next = s.next + 1 /\ t.pending = s.pending
               /\ ResultCalls(t) = ResultCalls(s) \cup {s.pending[s.next + 1]}
  <1> DEFINE t == Observe(s, ran, error)
             call == s.pending[s.next + 1]
             m == [role |-> "tool", call |-> call, error |-> error, size |-> ResultSize]
             r == [call |-> call, ran |-> ran, error |-> error, reason |-> s.reason]
             end == Len(s.tail) + 1
             b == Len(s.tail) - s.next
  <1>1. /\ DOMAIN s = StateFields /\ IsTuple(s.tail) /\ IsTuple(s.results) /\ IsTuple(s.pending)
        /\ s.wants = None /\ Chained(s) /\ Skipped(s) /\ Unanswered(s) /\ Counted(s)
        /\ s.next \in Nat /\ s.next < Len(s.pending) /\ Open(s, b)
        /\ Len(s.pending) \in Nat /\ Len(s.tail) \in Nat /\ Len(s.results) \in Nat
        /\ DOMAIN s.pending = 1..Len(s.pending) /\ DOMAIN s.tail = 1..Len(s.tail)
        /\ DOMAIN s.results = 1..Len(s.results)
    BY TupleFacts DEF Resumable, Typed, Ending, Chained
  <1>2. /\ DOMAIN t = StateFields /\ t.pending = s.pending /\ t.next = s.next + 1
        /\ t.tail = Append(s.tail, m) /\ t.results = Append(s.results, r)
        /\ t.wants = None /\ t.calls = s.calls /\ t.tools = s.tools
        /\ t.retries = s.retries /\ t.comps = s.comps /\ t.late = s.late
    BY <1>1 DEF Observe, StateFields
  <1>3. m.role = "tool" /\ m.call = call /\ r.call = call /\ r.ran = ran
    OBVIOUS
  <1> HIDE DEF m, r, t
  <1>4. /\ IsTuple(t.tail) /\ Len(t.tail) = end /\ t.tail[end] = m /\ DOMAIN t.tail = 1..end
        /\ IsTuple(t.results) /\ DOMAIN t.results = 1..Len(s.results) + 1
        /\ \A k \in DOMAIN s.results : t.results[k] = s.results[k]
        /\ t.results[Len(s.results) + 1] = r
    BY <1>1, <1>2, AppendTuple
  <1>5. \A k \in DOMAIN t.results : k \in DOMAIN s.results \/ k = Len(s.results) + 1
    BY <1>1, <1>4
  <1>5a. \A k \in DOMAIN s.results : k \in DOMAIN t.results
    BY <1>1, <1>4
  <1>5b. Len(s.results) + 1 \in DOMAIN t.results
    BY <1>1, <1>4
  <1>6. Typed(t)
    BY <1>1, <1>2, <1>4 DEF Typed, Counted
  <1>7. Skipped(t)
    BY <1>1, <1>2, <1>3, <1>4, <1>5 DEF Skipped, LoopExhaustion
  <1>8. call \in ToSet(s.pending) /\ s.next + 1 \in DOMAIN s.pending
    BY <1>1 DEF ToSet
  <1>9. Unanswered(t)
    <2>1. ASSUME NEW i \in t.next + 1..Len(t.pending), NEW k \in DOMAIN t.results
          PROVE  t.results[k].call # t.pending[i]
      <3>1. i \in s.next + 1..Len(s.pending) /\ i # s.next + 1 /\ i \in DOMAIN s.pending
        BY <1>1, <1>2
      <3>2. CASE k \in DOMAIN s.results
        BY <1>1, <1>2, <1>4, <3>1, <3>2 DEF Unanswered
      <3>3. CASE k = Len(s.results) + 1
        <4>1. t.results[k].call = call
          BY <1>3, <1>4, <3>3
        <4>2. call # s.pending[i]
          BY <1>1, <1>8, <3>1 DEF Unanswered, IsInjective
        <4>3. QED
          BY <4>1, <4>2, <1>2
      <3>4. QED
        BY <3>2, <3>3, <1>5
    <2>2. QED
      BY <1>1, <1>2, <2>1 DEF Unanswered
  <1>10. Chained(t)
    <2>1. /\ \A i \in DOMAIN s.tail : t.tail[i] = s.tail[i]
          /\ \A i \in Batches(t.tail) : i \in Batches(s.tail) \/ i = end
          /\ \A i \in Batches(s.tail) : i \in Batches(t.tail)
          /\ \A i \in DOMAIN s.tail : i \in Batches(t.tail) => i \in Batches(s.tail)
          /\ end \notin Batches(t.tail)
          /\ \A i \in Batches(s.tail) : Answered(s.tail, i) => Answered(t.tail, i)
      BY <1>1, <1>2, <1>3, TailGrows
    <2>2. /\ b \in Batches(s.tail) /\ b \in DOMAIN s.tail /\ s.tail[b].calls = s.pending
          /\ b + s.next = Len(s.tail) /\ b + t.next = end /\ s.pending # <<>>
      BY <1>1, <1>2 DEF Open, Batches
    <2>3. Open(t, b)
      <3>1. ASSUME NEW k \in 1..t.next
            PROVE  t.tail[b + k].role = "tool" /\ t.tail[b + k].call = t.pending[k]
        <4>1. CASE k = t.next
          BY <4>1, <2>2, <1>2, <1>3, <1>4
        <4>2. CASE k # t.next
          <5>1. k \in 1..s.next
            BY <4>2, <1>1, <1>2
          <5>2. \A i, j, l \in Nat : i >= 1 /\ i + j <= l => i + j \in 1..l
            OBVIOUS
          <5>3. b \in Nat /\ b >= 1 /\ b + k <= Len(s.tail)
            BY <5>1, <1>1, <2>2
          <5>4. b + k \in DOMAIN s.tail
            BY <5>1, <5>2, <5>3, <1>1
          <5>5. QED
            BY <5>1, <5>4, <1>1, <1>2, <2>1 DEF Open
        <4>3. QED
          BY <4>1, <4>2
      <3>2. QED
        BY <3>1, <2>1, <2>2, <1>2, <1>4 DEF Open
    <2>4. \A i \in Batches(s.tail) : Open(s, i) => i = b
      BY <1>1 DEF Open, Batches
    <2>5. \A i \in Batches(t.tail) : Answered(t.tail, i) \/ Open(t, i)
      <3>1. \A i \in Batches(t.tail) : i \in Batches(s.tail)
        BY <2>1
      <3>2. QED
        BY <3>1, <2>1, <2>3, <2>4, <1>1 DEF Chained
    <2>6. \A k \in DOMAIN t.tail \ Batches(t.tail) :
             \/ k \in DOMAIN s.tail \ Batches(s.tail) /\ t.tail[k] = s.tail[k]
             \/ k = end
      BY <1>1, <1>4, <2>1
    <2>7. \A i \in Batches(s.tail) : t.tail[i] = s.tail[i]
      BY <2>1 DEF Batches
    <2>8. \A k \in DOMAIN s.tail \ Batches(s.tail) :
             /\ \E i \in Batches(t.tail) : k - i \in DOMAIN t.tail[i].calls
             /\ \E j \in DOMAIN t.results : t.results[j].call = s.tail[k].call
             /\ s.tail[k].call # call
      <3>1. TAKE k \in DOMAIN s.tail \ Batches(s.tail)
      <3>2. \E i \in Batches(t.tail) : k - i \in DOMAIN t.tail[i].calls
        BY <1>1, <2>1, <2>7 DEF Chained
      <3>3. PICK j \in DOMAIN s.results : s.results[j].call = s.tail[k].call
        BY <1>1 DEF Chained
      <3>4. j \in DOMAIN t.results /\ t.results[j].call = s.tail[k].call
        BY <3>3, <1>4, <1>5a
      <3>5. s.results[j].call # s.pending[s.next + 1]
        <4>1. s.next + 1 \in s.next + 1..Len(s.pending)
          BY <1>1
        <4>2. QED
          BY <4>1, <1>1 DEF Unanswered
      <3>6. QED
        BY <3>2, <3>3, <3>4, <3>5
    <2>9. /\ \E i \in Batches(t.tail) : end - i \in DOMAIN t.tail[i].calls
          /\ \E j \in DOMAIN t.results : t.results[j].call = t.tail[end].call
      <3>1. end - b = s.next + 1
        BY <2>2, <1>1
      <3>2. QED
        BY <3>1, <2>1, <2>2, <2>7, <1>8, <1>3, <1>4, <1>5b
    <2>10. \A k \in DOMAIN t.tail \ Batches(t.tail) :
             /\ \E i \in Batches(t.tail) : k - i \in DOMAIN t.tail[i].calls
             /\ \E j \in DOMAIN t.results : t.results[j].call = t.tail[k].call
      BY <2>6, <2>8, <2>9
    <2>11. \A k, j \in DOMAIN t.tail \ Batches(t.tail) :
             t.tail[k].call = t.tail[j].call => k = j
      <3>1. t.tail[end].call = call
        BY <1>3, <1>4
      <3>2. \A k, j \in DOMAIN s.tail \ Batches(s.tail) :
               s.tail[k].call = s.tail[j].call => k = j
        BY <1>1 DEF Chained
      <3>3. QED
        BY <3>1, <3>2, <2>6, <2>8
    <2>12. Len(t.tail) - t.next = b
      BY <1>1, <1>2, <1>4
    <2>13. QED
      BY <2>3, <2>5, <2>10, <2>11, <2>12 DEF Chained
  <1>11. ResultCalls(t) = ResultCalls(s) \cup {call}
    BY <1>3, <1>4, <1>5, <1>5a, <1>5b DEF ResultCalls
  <1>12. n = "tool" <=> t.next < Len(t.pending)
    BY <1>1, <1>2
  <1>13. Resumable(t, n)
    BY <1>2, <1>6, <1>7, <1>9, <1>10, <1>12 DEF Resumable, Nodes, Ending
  <1>14. QED
    BY <1>2, <1>11, <1>13 DEF t

-----------------------------------------------------------------------------
(* How a step ends: a node returns, or waits, or nothing of the graph moves. *)

LEMMA Returned ==
    ASSUME AgentInv, mode = "up", mode' = mode,
           UNCHANGED <<saved, acted, repeated, consented>>,
           NEW s, Return(s), Resumable(s, NextNode(s)), sent' = s.calls,
           ResultCalls(state) \subseteq ResultCalls(s),
           node = "tool" => state.pending[state.next + 1] \in ResultCalls(s)
    PROVE  AgentInv'
  <1>1. /\ state' = s /\ node' = NextNode(s) /\ step' = "start" /\ scratch' = Unset
        /\ latest' = [state |-> s, node |-> NextNode(s)]
    BY DEF Return
  <1>2. Places'
    BY <1>1 DEF AgentInv, Places
  <1>3. Charged'
    BY <1>1 DEF Charged
  <1>4. Waiting'
    BY <1>1 DEF Waiting, Unset, ScratchFields
  <1>5. \A c \in acted : c \in ResultCalls(s) \cup consented
    BY DEF AgentInv, Known, Places, Resumable
  <1>6. Known'
    BY <1>1, <1>5 DEF Known
  <1>7. RepeatsConsented' /\ Judged'
    BY DEF AgentInv, RepeatsConsented, Judged
  <1>8. QED
    BY <1>2, <1>3, <1>4, <1>6, <1>7 DEF AgentInv

LEMMA Waited ==
    ASSUME AgentInv, mode = "up", mode' = mode, node # "tool",
           UNCHANGED <<saved, acted, repeated, consented>>,
           NEW at, NEW s, NEW kept, Wait(at, s, kept), Resumable(s, node),
           ResultCalls(state) \subseteq ResultCalls(s), Charged', Waiting'
    PROVE  AgentInv'
  <1>1. state' = s /\ node' = node /\ latest' = latest
    BY DEF Wait
  <1>2. Places'
    BY <1>1 DEF AgentInv, Places
  <1>3. \A c \in acted : c \in ResultCalls(s) \cup consented
    BY DEF AgentInv, Known, Places, Resumable
  <1>4. Known'
    BY <1>1, <1>3 DEF Known
  <1>5. RepeatsConsented' /\ Judged'
    BY DEF AgentInv, RepeatsConsented, Judged
  <1>6. QED
    BY <1>2, <1>4, <1>5 DEF AgentInv

LEMMA Unmoved ==
    ASSUME AgentInv, UNCHANGED <<node, step, state, scratch, latest, sent, repeated, consented>>,
           saved' \in {saved, latest, None}, acted' \subseteq acted, Judged'
    PROVE  AgentInv'
  <1>1. Places'
    BY DEF AgentInv, Places
  <1>2. Charged' /\ Waiting' /\ RepeatsConsented'
    BY DEF AgentInv, Charged, Waiting, RepeatsConsented
  <1>3. Known'
    BY DEF AgentInv, Known
  <1>4. QED
    BY <1>1, <1>2, <1>3 DEF AgentInv

-----------------------------------------------------------------------------
(* The nodes.                                                              *)

LEMMA PrepareContextInv == ASSUME AgentInv, PrepareContext PROVE AgentInv'
  <1> DEFINE built == Prepare(captured \cup HistorySources(thread, Current), 0)
  <1>1. Runs("prepare", "start") /\ UNCHANGED <<saved, acted, repeated, consented, sent>>
    BY DEF PrepareContext
  <1>2. \/ mode' = mode /\ Wait("record", state, [scratch EXCEPT !.prepared = built])
        \/ mode' = "done" /\ UNCHANGED <<node, step, state, scratch, latest>>
    BY DEF PrepareContext
  <1> HIDE DEF built
  <1>3. CASE mode' = mode /\ Wait("record", state, [scratch EXCEPT !.prepared = built])
    <2>1. Charged'
      BY <1>1, <1>3 DEF AgentInv, Charged, Wait, Runs
    <2>2. Waiting'
      BY <1>1, <1>3 DEF AgentInv, Waiting, Wait, Runs, ScratchFields
    <2>3. Resumable(state, node) /\ mode = "up" /\ node # "tool"
      BY <1>1 DEF AgentInv, Places, Runs
    <2>4. QED
      BY <1>1, <1>3, <2>1, <2>2, <2>3, Waited
  <1>4. CASE mode' = "done" /\ UNCHANGED <<node, step, state, scratch, latest>>
    BY <1>1, <1>4, Unmoved DEF Judged
  <1>5. QED
    BY <1>2, <1>3, <1>4

LEMMA ContextRecordedInv == ASSUME AgentInv, ContextRecorded PROVE AgentInv'
  <1> DEFINE built == scratch.prepared
             s == [Adopt(state, built, <<>>) EXCEPT
                     !.wants = IF built.wants THEN "automatic" ELSE None]
  <1>1. /\ mode = "up" /\ node = "prepare" /\ mode' = mode
        /\ UNCHANGED <<saved, acted, repeated, consented, sent>> /\ Return(s)
        /\ Resumable(state, node) /\ sent = state.calls
    BY DEF ContextRecorded, Runs, outside, AgentInv, Places, Charged
  <1>2. Carries(state, s) /\ s.wants \in {"automatic", None}
    BY <1>1 DEF Carries, Adopt, Resumable, Typed, Counted, StateFields
  <1> HIDE DEF s
  <1>3. NextNode(s) = IF s.wants # None THEN "compress" ELSE "call"
    BY <1>1 DEF NextNode
  <1>4. Resumable(s, NextNode(s))
    BY <1>1, <1>2, <1>3, CarriesResumable DEF Nodes, Ending
  <1>5. s.calls = state.calls /\ ResultCalls(state) \subseteq ResultCalls(s)
    BY <1>1, <1>2 DEF Carries, ResultCalls, s, Adopt, Resumable, Typed, StateFields
  <1>6. QED
    BY <1>1, <1>4, <1>5, Returned

LEMMA CallModelInv == ASSUME AgentInv, CallModel PROVE AgentInv'
  <1> DEFINE s == CloseBatch(state)
             reserved == Reserved(s)
             u == [s EXCEPT !.reason = "model_budget_exhausted"]
             reason == IF ~reserved THEN s.reason
                       ELSE IF LoopExhaustion(s) # None THEN LoopExhaustion(s)
                       ELSE "budget_final_response"
             t == ChargeAttempt([s EXCEPT !.reason = reason], 0)
             kept == [scratch EXCEPT !.reserved = reserved]
  <1>1. /\ mode = "up" /\ node = "call" /\ step = "start" /\ mode' = mode
        /\ UNCHANGED <<saved, acted, repeated, consented>>
        /\ Resumable(state, "call") /\ sent = state.calls
    BY DEF CallModel, Runs, outside, AgentInv, Places, Charged
  <1>2. \/ s.calls >= ModelCalls /\ Return(u) /\ UNCHANGED sent
        \/ ~(s.calls >= ModelCalls) /\ Wait("stream", t, kept) /\ sent' = sent + 1
    BY DEF CallModel
  <1> HIDE DEF reserved, reason
  <1>3. /\ Resumable(s, "call") /\ s.pending = <<>> /\ s.results = state.results
        /\ s.calls = state.calls /\ s.wants = None /\ DOMAIN s = StateFields
    BY <1>1, CloseBatchResumable
  <1>4. Counted(s) /\ IsTuple(s.pending) /\ Len(s.pending) = 0
    BY <1>3, EmptyTuple DEF Resumable, Typed
  <1> HIDE DEF s
  <1>5. CASE s.calls >= ModelCalls /\ Return(u) /\ UNCHANGED sent
    <2>1. Carries(s, u) /\ u.pending = <<>> /\ u.wants = None /\ u.calls = s.calls
      BY <1>3, <1>4 DEF Carries, Counted, StateFields
    <2>2. NextNode(u) = "finalize"
      BY <1>1, <2>1 DEF NextNode
    <2> HIDE DEF u
    <2>3. Resumable(u, NextNode(u))
      BY <1>3, <2>1, <2>2, CarriesResumable DEF Nodes, Ending
    <2>4. ResultCalls(state) \subseteq ResultCalls(u)
      BY <1>3, <2>1 DEF Carries, ResultCalls
    <2>5. QED
      BY <1>1, <1>3, <1>5, <2>1, <2>3, <2>4, Returned
  <1>6. CASE ~(s.calls >= ModelCalls) /\ Wait("stream", t, kept) /\ sent' = sent + 1
    <2>1. t.calls = s.calls + 1 /\ t.pending = <<>> /\ t.wants = None /\ Carries(s, t)
      BY <1>3, <1>4, <1>6, AgentAssumption DEF ChargeAttempt, Carries, Counted, StateFields
    <2> HIDE DEF t
    <2>2. Resumable(t, "call")
      BY <1>3, <2>1, CarriesResumable DEF Nodes, Ending
    <2>3. ResultCalls(state) \subseteq ResultCalls(t)
      BY <1>3, <2>1 DEF Carries, ResultCalls
    <2>4. Charged'
      BY <1>1, <1>3, <1>6, <2>1 DEF Charged, Wait
    <2>5. Waiting'
      BY <1>1, <1>6, <2>1 DEF AgentInv, Waiting, Wait, ScratchFields
    <2>6. QED
      BY <1>1, <1>6, <2>2, <2>3, <2>4, <2>5, Waited
  <1>7. QED
    BY <1>2, <1>5, <1>6

\* The stream ends without calls to run: the Turn is finalized.
LEMMA EndWithInv ==
    ASSUME AgentInv, Runs("call", "stream"), mode' = mode,
           UNCHANGED <<saved, acted, repeated, consented, sent>>,
           NEW reason, NEW text, EndWith(reason, text)
    PROVE  AgentInv'
  <1> DEFINE s == [state EXCEPT !.reason = reason,
                                !.answer = IF text THEN "partial" ELSE @]
  <1>1. /\ mode = "up" /\ node = "call" /\ Resumable(state, "call") /\ sent = state.calls
        /\ state.pending = <<>> /\ state.wants = None /\ Return(s)
    BY DEF Runs, AgentInv, Places, Charged, Waiting, Resumable, EndWith
  <1>2. /\ Carries(state, s) /\ s.pending = <<>> /\ s.wants = None /\ s.calls = state.calls
    BY <1>1 DEF Carries, Resumable, Typed, Counted, StateFields
  <1> HIDE DEF s
  <1>3. NextNode(s) = "finalize"
    BY <1>1, <1>2 DEF NextNode
  <1>4. Resumable(s, NextNode(s))
    BY <1>1, <1>2, <1>3, CarriesResumable DEF Nodes, Ending
  <1>5. ResultCalls(state) \subseteq ResultCalls(s)
    BY <1>2 DEF Carries, ResultCalls
  <1>6. QED
    BY <1>1, <1>2, <1>4, <1>5, Returned

\* The answer is complete: a faulty one ends the Turn, calls are pending, or
\* the answer is final.
LEMMA CompletedInv ==
    ASSUME AgentInv, Runs("call", "stream"), mode' = mode,
           UNCHANGED <<saved, acted, repeated, consented, sent>>,
           NEW a, IsTuple(a.calls), Completed(a)
    PROVE  AgentInv'
  <1> DEFINE e == Emit(state, a.calls)
             answer == IF a.text THEN "full" ELSE "empty"
             s1 == [e EXCEPT !.pending = <<>>, !.next = 0, !.answer = answer]
             s2 == [e EXCEPT !.pending = a.calls, !.next = 0]
             s3 == [e EXCEPT !.pending = <<>>, !.next = 0, !.answer = answer,
                             !.reason = a.finish]
  <1>1. /\ mode = "up" /\ node = "call" /\ Resumable(state, "call") /\ sent = state.calls
        /\ state.pending = <<>> /\ state.wants = None
    BY DEF Runs, AgentInv, Places, Charged, Waiting, Resumable
  <1>2. \/ EndWith("provider_protocol", a.text)
        \/ FreshCalls(state, a.calls) /\ Return(s1)
        \/ FreshCalls(state, a.calls) /\ a.calls # <<>> /\ Return(s2)
        \/ FreshCalls(state, a.calls) /\ Return(s3)
    BY DEF Completed
  <1>3. DOMAIN state = StateFields /\ Counted(state)
    BY <1>1 DEF Resumable, Typed
  <1>4. ASSUME NEW s, FreshCalls(state, a.calls), Return(s), DOMAIN s = StateFields,
               s.tail = e.tail, s.next = 0, s.results = state.results, s.wants = state.wants,
               s.calls = state.calls, s.tools = state.tools, s.retries = state.retries,
               s.comps = state.comps, s.late = state.late,
               s.pending = <<>> \/ (s.pending = a.calls /\ a.calls # <<>>)
        PROVE  AgentInv'
    <2>1. Counted(s)
      BY <1>3, <1>4 DEF Counted
    <2>2. Resumable(s, IF s.pending = <<>> THEN "finalize" ELSE "tool")
      BY <1>1, <1>4, <2>1, EmitResumable
    <2>3. NextNode(s) = IF s.pending = <<>> THEN "finalize" ELSE "tool"
      BY <1>1, <1>4 DEF NextNode
    <2>4. ResultCalls(state) \subseteq ResultCalls(s)
      BY <1>4 DEF ResultCalls
    <2>5. QED
      BY <1>1, <1>4, <2>2, <2>3, <2>4, Returned
  <1>5. /\ DOMAIN e = StateFields /\ e.results = state.results /\ e.wants = state.wants
        /\ e.calls = state.calls /\ e.tools = state.tools /\ e.retries = state.retries
        /\ e.comps = state.comps /\ e.late = state.late
    BY <1>3 DEF Emit, StateFields
  <1> HIDE DEF e, answer
  <1>6. ASSUME FreshCalls(state, a.calls), Return(s1) PROVE AgentInv'
    BY <1>4, <1>5, <1>6 DEF StateFields
  <1>7. ASSUME FreshCalls(state, a.calls), a.calls # <<>>, Return(s2) PROVE AgentInv'
    BY <1>4, <1>5, <1>7 DEF StateFields
  <1>8. ASSUME FreshCalls(state, a.calls), Return(s3) PROVE AgentInv'
    BY <1>4, <1>5, <1>8 DEF StateFields
  <1>9. ASSUME EndWith("provider_protocol", a.text) PROVE AgentInv'
    BY <1>9, EndWithInv
  <1>10. QED
    BY <1>2, <1>6, <1>7, <1>8, <1>9

LEMMA RetryAnnouncedInv ==
    ASSUME AgentInv, Runs("call", "stream"), mode' = mode,
           UNCHANGED <<saved, acted, repeated, consented>>, RetryAnnounced
    PROVE  AgentInv'
  <1> DEFINE t == ChargeRetry(state)
             kept == [scratch EXCEPT !.retries = @ + 1]
  <1>1. /\ mode = "up" /\ node = "call" /\ Resumable(state, "call") /\ sent = state.calls
        /\ state.pending = <<>> /\ state.wants = None
        /\ DOMAIN state = StateFields /\ Counted(state)
    BY DEF Runs, AgentInv, Places, Charged, Waiting, Resumable, Typed
  <1>2. \/ EndWith("model_budget_exhausted", FALSE) /\ UNCHANGED sent
        \/ EndWith("provider_retry_budget_exhausted", FALSE) /\ UNCHANGED sent
        \/ /\ ~(state.calls >= ModelCalls) /\ ~(state.retries >= Retries)
           /\ Wait("stream", t, kept) /\ sent' = sent + 1
    BY DEF RetryAnnounced
  <1>3. CASE \/ EndWith("model_budget_exhausted", FALSE) /\ UNCHANGED sent
             \/ EndWith("provider_retry_budget_exhausted", FALSE) /\ UNCHANGED sent
    BY <1>3, EndWithInv
  <1>4. CASE /\ ~(state.calls >= ModelCalls) /\ ~(state.retries >= Retries)
             /\ Wait("stream", t, kept) /\ sent' = sent + 1
    <2>1. Carries(state, t) /\ t.calls = state.calls + 1 /\ t.wants = None /\ t.pending = <<>>
      BY <1>1, <1>4, AgentAssumption DEF ChargeRetry, Carries, Counted, StateFields
    <2> HIDE DEF t
    <2>2. Resumable(t, node)
      BY <1>1, <2>1, CarriesResumable DEF Nodes, Ending
    <2>3. ResultCalls(state) \subseteq ResultCalls(t)
      BY <2>1 DEF Carries, ResultCalls
    <2>4. Charged'
      BY <1>1, <1>4, <2>1 DEF Charged, Wait
    <2>5. Waiting'
      BY <1>1, <1>4, <2>1 DEF AgentInv, Waiting, Wait, ScratchFields
    <2>6. QED
      BY <1>1, <1>4, <2>2, <2>3, <2>4, <2>5, Waited
  <1>5. QED
    BY <1>2, <1>3, <1>4

LEMMA ModelRepliesInv == ASSUME AgentInv, NEW r \in Replies, ModelReplies(r) PROVE AgentInv'
  <1> DEFINE a == Attempt(r)
             s == [state EXCEPT !.wants = "context_length", !.reason = None]
  <1>1. /\ Runs("call", "stream") /\ mode' = mode
        /\ UNCHANGED <<saved, acted, repeated, consented>>
    BY DEF ModelReplies, outside
  <1>2. \/ RetryAnnounced
        \/ UNCHANGED sent /\ Completed(a)
        \/ UNCHANGED sent /\ Return(s)
        \/ UNCHANGED sent /\ EndWith(a.code, a.text)
    BY DEF ModelReplies
  <1>3. IsTuple(a.calls)
    BY ReplyAssumption DEF IsTuple
  <1> HIDE DEF a
  <1>4. CASE RetryAnnounced
    BY <1>1, <1>4, RetryAnnouncedInv
  <1>5. CASE UNCHANGED sent /\ Completed(a)
    BY <1>1, <1>3, <1>5, CompletedInv
  <1>6. CASE UNCHANGED sent /\ EndWith(a.code, a.text)
    BY <1>1, <1>6, EndWithInv
  <1>7. CASE UNCHANGED sent /\ Return(s)
    <2>1. /\ mode = "up" /\ node = "call" /\ Resumable(state, "call") /\ sent = state.calls
          /\ DOMAIN state = StateFields /\ Counted(state)
      BY <1>1 DEF Runs, AgentInv, Places, Charged, Waiting, Resumable, Typed
    <2>2. Carries(state, s) /\ s.wants = "context_length" /\ s.calls = state.calls
      BY <2>1 DEF Carries, Counted, StateFields
    <2> HIDE DEF s
    <2>3. NextNode(s) = "compress"
      BY <2>1, <2>2, AgentAssumption DEF NextNode
    <2>4. Resumable(s, NextNode(s))
      BY <2>1, <2>2, <2>3, CarriesResumable DEF Nodes, Ending
    <2>5. ResultCalls(state) \subseteq ResultCalls(s)
      BY <2>2 DEF Carries, ResultCalls
    <2>6. QED
      BY <1>1, <1>7, <2>1, <2>2, <2>4, <2>5, Returned
  <1>8. QED
    BY <1>2, <1>4, <1>5, <1>6, <1>7

LEMMA ExecuteOneToolInv == ASSUME AgentInv, ExecuteOneTool PROVE AgentInv'
  <1> DEFINE call == state.pending[state.next + 1]
             spent == LoopExhaustion(state)
             s == [state EXCEPT !.reason = spent]
             t == ChargeTool(state)
  <1>1. /\ mode = "up" /\ node = "tool" /\ step = "start" /\ mode' = mode
        /\ UNCHANGED <<saved, consented, sent>> /\ Resumable(state, "tool")
        /\ sent = state.calls /\ DOMAIN state = StateFields /\ Counted(state)
        /\ state.next < Len(state.pending) /\ state.next \in Nat
        /\ Len(state.pending) \in Nat /\ state.wants = None
    BY TupleFacts DEF ExecuteOneTool, Runs, AgentInv, Places, Charged, Resumable, Typed
  <1>2. \/ /\ spent # None /\ Return(Observe(s, FALSE, TRUE))
           /\ UNCHANGED <<acted, repeated>>
        \/ /\ spent = None /\ Wait("tool", t, scratch)
           /\ acted' = acted \cup ({call} \ Replayable)
           /\ repeated' = repeated \cup (acted \cap ({call} \ Replayable))
    BY DEF ExecuteOneTool
  <1>3. CASE /\ spent # None /\ Return(Observe(s, FALSE, TRUE))
             /\ UNCHANGED <<acted, repeated>>
    <2> DEFINE u == Observe(s, FALSE, TRUE)
               n == IF s.next + 1 < Len(s.pending) THEN "tool" ELSE "call"
    <2>1. Carries(state, s) /\ s.wants = None /\ s.calls = state.calls /\ s.tools = state.tools
      BY <1>1 DEF Carries, Counted, StateFields
    <2>2. /\ s.next = state.next /\ s.pending = state.pending /\ s.results = state.results
          /\ s.late = state.late
      BY <1>1, <2>1 DEF Carries, StateFields
    <2> HIDE DEF s
    <2>3. Resumable(s, "tool")
      BY <1>1, <2>1, CarriesResumable DEF Nodes, Ending
    <2>4. LoopExhaustion(s) # None
      BY <1>3, <2>1, <2>2 DEF LoopExhaustion
    <2>5. /\ Resumable(u, n) /\ u.calls = s.calls /\ u.next = s.next + 1
          /\ u.pending = s.pending /\ ResultCalls(u) = ResultCalls(s) \cup {s.pending[s.next + 1]}
      BY <2>3, <2>4, ObserveResumable
    <2> HIDE DEF u
    <2>6. NextNode(u) = n
      BY <1>1, <2>5 DEF NextNode
    <2>7. ResultCalls(state) = ResultCalls(s)
      BY <2>2 DEF ResultCalls
    <2>8. QED
      BY <1>1, <1>3, <2>1, <2>2, <2>5, <2>6, <2>7, Returned DEF u
  <1>4. CASE /\ spent = None /\ Wait("tool", t, scratch)
             /\ acted' = acted \cup ({call} \ Replayable)
             /\ repeated' = repeated \cup (acted \cap ({call} \ Replayable))
    <2>1. state.tools < ToolCalls
      BY <1>1, <1>4, NotExhausted
    <2>2. /\ Carries(state, t) /\ t.wants = None /\ t.calls = state.calls
          /\ t.next = state.next /\ t.pending = state.pending /\ t.results = state.results
      BY <1>1, <2>1, AgentAssumption DEF ChargeTool, Carries, Counted, StateFields
    <2> HIDE DEF t
    <2>3. Resumable(t, "tool")
      BY <1>1, <2>2, CarriesResumable DEF Nodes, Ending
    <2>4. state' = t /\ node' = node /\ latest' = latest /\ step' = "tool" /\ scratch' = scratch
      BY <1>4 DEF Wait
    <2>5. Places'
      BY <1>1, <2>3, <2>4 DEF AgentInv, Places
    <2>6. Charged'
      BY <1>1, <2>2, <2>4 DEF Charged
    <2>7. Waiting'
      BY <1>1, <2>4 DEF AgentInv, Waiting
    <2>8. call \notin ResultCalls(state)
      <3>1. state.next + 1 \in state.next + 1..Len(state.pending)
        BY <1>1
      <3>2. QED
        BY <1>1, <3>1 DEF Resumable, Unanswered, ResultCalls
    <2>9. \A c \in acted : c \in ResultCalls(state) \cup consented
      BY <1>1, <1>4 DEF AgentInv, Known
    <2>10. Known'
      BY <1>1, <1>4, <2>2, <2>4, <2>9 DEF Known, ResultCalls
    <2>11. RepeatsConsented'
      BY <1>1, <1>4, <2>8, <2>9 DEF AgentInv, RepeatsConsented
    <2>12. Judged'
      BY <1>1 DEF Judged
    <2>13. QED
      BY <2>5, <2>6, <2>7, <2>10, <2>11, <2>12 DEF AgentInv
  <1>5. QED
    BY <1>2, <1>3, <1>4

LEMMA ToolReturnsInv == ASSUME AgentInv, NEW error \in BOOLEAN, ToolReturns(error) PROVE AgentInv'
  <1> DEFINE t == Observe(state, TRUE, error)
             n == IF state.next + 1 < Len(state.pending) THEN "tool" ELSE "call"
  <1>1. /\ mode = "up" /\ node = "tool" /\ step = "tool" /\ mode' = mode
        /\ UNCHANGED <<saved, acted, repeated, consented, sent>> /\ Return(t)
        /\ Resumable(state, "tool") /\ sent = state.calls
    BY DEF ToolReturns, Runs, outside, AgentInv, Places, Charged
  <1>2. /\ Resumable(t, n) /\ t.calls = state.calls /\ t.next = state.next + 1
        /\ t.pending = state.pending
        /\ ResultCalls(t) = ResultCalls(state) \cup {state.pending[state.next + 1]}
    BY <1>1, ObserveResumable
  <1> HIDE DEF t
  <1>3. NextNode(t) = n
    BY <1>1, <1>2 DEF NextNode
  <1>4. QED
    BY <1>1, <1>2, <1>3, Returned

\* The smaller of two numbers.
LEMMA MinOfTwo ==
    ASSUME NEW x \in Nat, NEW y \in Nat
    PROVE  Min({x, y}) \in Nat /\ Min({x, y}) <= x /\ Min({x, y}) <= y
  <1>1. \E z \in {x, y} : \A w \in {x, y} : z <= w
    OBVIOUS
  <1>2. Min({x, y}) \in {x, y} /\ \A w \in {x, y} : Min({x, y}) <= w
    BY <1>1 DEF Min
  <1>3. QED
    BY <1>2

\* A node of the compression returns a state whose chain is the one it had.
LEMMA CompressionReturned ==
    ASSUME AgentInv, mode = "up", node = "compress", mode' = mode,
           UNCHANGED <<saved, acted, repeated, consented>>,
           NEW s, Return(s), Carries(state, s), s.wants = None, sent' = s.calls
    PROVE  AgentInv'
  <1>1. Resumable(state, "compress")
    BY DEF AgentInv, Places
  <1>2. NextNode(s) = IF s.reason # None THEN "finalize" ELSE "call"
    BY DEF NextNode
  <1>3. Resumable(s, NextNode(s))
    BY <1>1, <1>2, CarriesResumable DEF Nodes, Ending
  <1>4. ResultCalls(state) \subseteq ResultCalls(s)
    BY DEF Carries, ResultCalls
  <1>5. QED
    BY <1>3, <1>4, Returned

LEMMA CompressionFailedInv ==
    ASSUME AgentInv, mode = "up", node = "compress", mode' = mode,
           UNCHANGED <<saved, acted, repeated, consented>>,
           NEW s, NEW code, Carries(state, s), CompressionFailed(s, code), sent' = s.calls
    PROVE  AgentInv'
  <1> DEFINE t == [NoCompression(s) EXCEPT
                     !.reason = IF \/ code = "context_unrecoverable"
                                   \/ s.wants = "context_length"
                                   \/ s.size > InputLimit
                                THEN "context_unrecoverable" ELSE @]
  <1>1. Return(t)
    BY DEF CompressionFailed
  <1>2. Carries(state, t) /\ t.wants = None /\ t.calls = s.calls
    BY DEF Carries, Counted, NoCompression, StateFields
  <1> HIDE DEF t
  <1>3. QED
    BY <1>1, <1>2, CompressionReturned

LEMMA SkipCompressionInv == ASSUME AgentInv, SkipCompression PROVE AgentInv'
  <1> DEFINE t == [NoCompression(state) EXCEPT
                     !.reason = IF state.wants = "context_length"
                                THEN "context_unrecoverable" ELSE @]
  <1>1. /\ mode = "up" /\ node = "compress" /\ step = "start" /\ mode' = mode
        /\ UNCHANGED <<saved, acted, repeated, consented, sent>> /\ Return(t)
        /\ sent = state.calls /\ DOMAIN state = StateFields /\ Counted(state)
    BY DEF SkipCompression, Runs, outside, AgentInv, Places, Charged, Resumable, Typed
  <1>2. Carries(state, t) /\ t.wants = None /\ t.calls = state.calls
    BY <1>1 DEF Carries, Counted, NoCompression, StateFields
  <1> HIDE DEF t
  <1>3. QED
    BY <1>1, <1>2, CompressionReturned

LEMMA CompressContextInv == ASSUME AgentInv, CompressContext PROVE AgentInv'
  <1> DEFINE plan == PlanCompression(thread)
             limit == Min({Min0(Retries - state.retries), Min0(ModelCalls - state.calls - 2)})
             kept == [scratch EXCEPT !.limit = limit, !.from = thread.summary, !.plan = plan]
  <1>1. /\ mode = "up" /\ node = "compress" /\ step = "start" /\ mode' = mode
        /\ UNCHANGED <<saved, acted, repeated, consented>> /\ Resumable(state, "compress")
        /\ sent = state.calls /\ DOMAIN state = StateFields /\ Counted(state)
        /\ state.calls < ModelCalls - 1 /\ state.comps < Compressions
    BY DEF CompressContext, Runs, outside, AgentInv, Places, Charged, Resumable, Typed
  <1>2. \/ CompressionFailed(state, "context_unrecoverable") /\ UNCHANGED sent
        \/ CompressionFailed(state, "compression_unavailable") /\ UNCHANGED sent
        \/ Wait("summary", state, kept) /\ sent' = sent + 1
    BY DEF CompressContext
  <1> HIDE DEF plan
  <1>3. Carries(state, state)
    BY <1>1 DEF Carries, Counted
  <1>4. CASE \/ CompressionFailed(state, "context_unrecoverable") /\ UNCHANGED sent
             \/ CompressionFailed(state, "compression_unavailable") /\ UNCHANGED sent
    BY <1>1, <1>3, <1>4, CompressionFailedInv
  <1>5. CASE Wait("summary", state, kept) /\ sent' = sent + 1
    <2>1. /\ Min0(Retries - state.retries) = Retries - state.retries
          /\ Min0(ModelCalls - state.calls - 2) = ModelCalls - state.calls - 2
          /\ Retries - state.retries \in Nat /\ ModelCalls - state.calls - 2 \in Nat
      BY <1>1, AgentAssumption DEF Min0, Counted
    <2>2. /\ limit \in Nat /\ limit <= Retries - state.retries
          /\ limit <= ModelCalls - state.calls - 2
      BY <2>1, MinOfTwo
    <2> HIDE DEF limit
    <2>3. /\ state' = state /\ node' = node /\ step' = "summary" /\ scratch' = kept
          /\ DOMAIN kept = ScratchFields /\ kept.retries = 0 /\ kept.limit = limit
      BY <1>1, <1>5 DEF AgentInv, Waiting, Wait, ScratchFields
    <2> HIDE DEF kept
    <2>4. Charged'
      BY <1>1, <1>5, <2>1, <2>2, <2>3, AgentAssumption DEF Charged, Counted
    <2>5. Waiting'
      BY <1>1, <2>3 DEF Waiting
    <2>6. QED
      BY <1>1, <1>5, <2>4, <2>5, Waited
  <1>6. QED
    BY <1>2, <1>4, <1>5

\* What a compression that was asked for costs.
LEMMA ChargeCompressionCarries ==
    ASSUME AgentInv, mode = "up", step \in {"summary", "store", "rebuild"}
    PROVE  LET s == ChargeCompression(state, scratch.retries)
           IN  Carries(state, s) /\ s.calls = sent /\ s.wants = state.wants
  <1>1. /\ DOMAIN state = StateFields /\ Counted(state) /\ scratch.retries \in Nat
        /\ sent = state.calls + 1 + scratch.retries /\ sent < ModelCalls
        /\ state.retries + scratch.retries <= Retries /\ state.comps < Compressions
    BY DEF AgentInv, Places, Resumable, Typed, Charged, Waiting
  <1>2. QED
    BY <1>1, AgentAssumption
    DEF ChargeCompression, ChargeAttempt, Carries, Counted, StateFields

LEMMA SummaryRepliesInv == ASSUME AgentInv, NEW r \in Replies, SummaryReplies(r) PROVE AgentInv'
  <1> DEFINE a == Attempt(r)
             kept == [scratch EXCEPT !.retries = @ + 1]
             s == ChargeCompression(state, scratch.retries)
  <1>1. /\ mode = "up" /\ node = "compress" /\ step = "summary" /\ mode' = mode
        /\ UNCHANGED <<saved, acted, repeated, consented>> /\ Resumable(state, "compress")
    BY DEF SummaryReplies, Runs, outside, AgentInv, Places
  <1>2. \/ /\ scratch.retries < scratch.limit
           /\ Wait("summary", state, kept) /\ sent' = sent + 1
        \/ UNCHANGED sent /\ Wait("store", state, scratch)
        \/ UNCHANGED sent /\ CompressionFailed(s, "compression_failed")
    BY DEF SummaryReplies
  <1>3. Carries(state, s) /\ s.calls = sent
    BY <1>1, ChargeCompressionCarries
  <1> HIDE DEF s
  <1>4. CASE /\ scratch.retries < scratch.limit
             /\ Wait("summary", state, kept) /\ sent' = sent + 1
    <2>1. /\ state' = state /\ node' = node /\ step' = "summary" /\ scratch' = kept
          /\ DOMAIN kept = ScratchFields /\ kept.retries = scratch.retries + 1
          /\ kept.limit = scratch.limit /\ scratch.retries \in Nat
      BY <1>1, <1>4 DEF AgentInv, Waiting, Wait, ScratchFields
    <2> HIDE DEF kept
    <2>2. Charged'
      <3>1. /\ Charged /\ Counted(state)
        BY <1>1 DEF AgentInv, Resumable, Typed
      <3>2. QED
        BY <1>1, <1>4, <2>1, <3>1, AgentAssumption DEF Charged, Counted
    <2>3. Waiting'
      BY <1>1, <2>1 DEF Waiting
    <2>4. QED
      BY <1>1, <1>4, <2>2, <2>3, Waited
  <1>5. CASE UNCHANGED sent /\ Wait("store", state, scratch)
    <2>1. state' = state /\ node' = node /\ step' = "store" /\ scratch' = scratch
      BY <1>5 DEF Wait
    <2>2. Charged' /\ Waiting'
      BY <1>1, <1>5, <2>1 DEF AgentInv, Charged, Waiting
    <2>3. QED
      BY <1>1, <1>5, <2>2, Waited
  <1>6. CASE UNCHANGED sent /\ CompressionFailed(s, "compression_failed")
    BY <1>1, <1>3, <1>6, CompressionFailedInv
  <1>7. QED
    BY <1>2, <1>4, <1>5, <1>6

LEMMA StoreSummaryInv == ASSUME AgentInv, StoreSummary PROVE AgentInv'
  <1> DEFINE s == ChargeCompression(state, scratch.retries)
  <1>1. /\ mode = "up" /\ node = "compress" /\ step = "store" /\ mode' = mode
        /\ UNCHANGED <<saved, acted, repeated, consented, sent>>
        /\ Resumable(state, "compress")
    BY DEF StoreSummary, Runs, AgentInv, Places
  <1>2. Wait("rebuild", state, scratch) \/ CompressionFailed(s, "compression_conflict")
    BY DEF StoreSummary
  <1>3. Carries(state, s) /\ s.calls = sent
    BY <1>1, ChargeCompressionCarries
  <1> HIDE DEF s
  <1>4. CASE Wait("rebuild", state, scratch)
    <2>1. state' = state /\ node' = node /\ step' = "rebuild" /\ scratch' = scratch
      BY <1>4 DEF Wait
    <2>2. Charged' /\ Waiting'
      BY <1>1, <2>1 DEF AgentInv, Charged, Waiting
    <2>3. QED
      BY <1>1, <1>4, <2>2, Waited
  <1>5. CASE CompressionFailed(s, "compression_conflict")
    BY <1>1, <1>3, <1>5, CompressionFailedInv
  <1>6. QED
    BY <1>2, <1>4, <1>5

LEMMA RebuildContextInv == ASSUME AgentInv, RebuildContext PROVE AgentInv'
  <1> DEFINE base == IF captured # None THEN captured ELSE Anchors(state.items)
             built == Prepare(base \cup HistorySources(thread, Current), SizeOf(state.tail))
             s == ChargeCompression(state, scratch.retries)
             t == Adopt(NoCompression(s), built, state.tail)
  <1>1. /\ mode = "up" /\ node = "compress" /\ step = "rebuild" /\ mode' = mode
        /\ UNCHANGED <<saved, acted, repeated, consented, sent>>
        /\ Resumable(state, "compress")
    BY DEF RebuildContext, Runs, outside, AgentInv, Places
  <1>2. Wait("record", t, scratch) \/ CompressionFailed(s, "context_unrecoverable")
    BY DEF RebuildContext
  <1>3. Carries(state, s) /\ s.calls = sent
    BY <1>1, ChargeCompressionCarries
  <1> HIDE DEF s, built
  <1>4. CASE Wait("record", t, scratch)
    <2>1. Carries(state, t) /\ t.wants = None /\ t.calls = sent
      BY <1>3 DEF Carries, Counted, NoCompression, Adopt, StateFields
    <2> HIDE DEF t
    <2>2. state' = t /\ node' = node /\ step' = "record" /\ scratch' = scratch
      BY <1>4 DEF Wait
    <2>3. Resumable(t, node)
      BY <1>1, <2>1, CarriesResumable DEF Nodes, Ending
    <2>4. ResultCalls(state) \subseteq ResultCalls(t)
      BY <2>1 DEF Carries, ResultCalls
    <2>5. Charged' /\ Waiting'
      BY <1>1, <2>1, <2>2 DEF AgentInv, Charged, Waiting
    <2>6. QED
      BY <1>1, <1>4, <2>3, <2>4, <2>5, Waited
  <1>5. CASE CompressionFailed(s, "context_unrecoverable")
    BY <1>1, <1>3, <1>5, CompressionFailedInv
  <1>6. QED
    BY <1>2, <1>4, <1>5

LEMMA CompressionRecordedInv == ASSUME AgentInv, CompressionRecorded PROVE AgentInv'
  <1>1. /\ mode = "up" /\ node = "compress" /\ step = "record" /\ mode' = mode
        /\ UNCHANGED <<saved, acted, repeated, consented, sent>> /\ Return(state)
        /\ sent = state.calls /\ state.wants = None
        /\ DOMAIN state = StateFields /\ Counted(state)
    BY DEF CompressionRecorded, Runs, outside, AgentInv, Places, Charged, Waiting,
       Resumable, Typed
  <1>2. Carries(state, state)
    BY <1>1 DEF Carries, Counted
  <1>3. QED
    BY <1>1, <1>2, CompressionReturned

-----------------------------------------------------------------------------
(* The end of a Turn.                                                      *)

LEMMA FinalizeReturned ==
    ASSUME AgentInv, mode = "up", node = "finalize", mode' = mode,
           UNCHANGED <<saved, acted, repeated, consented>>,
           NEW s, Carries(state, s), Return(Finished(s)), sent' = s.calls
    PROVE  AgentInv'
  <1> DEFINE t == Finished(s)
  <1>1. Resumable(state, "finalize")
    BY DEF AgentInv, Places
  <1>2. Carries(state, t) /\ t.calls = s.calls
    BY DEF Finished, Carries, Counted, StateFields
  <1> HIDE DEF t
  <1>3. NextNode(t) = "end"
    BY DEF NextNode
  <1>4. Resumable(t, NextNode(t))
    BY <1>1, <1>2, <1>3, CarriesResumable DEF Nodes, Ending
  <1>5. ResultCalls(state) \subseteq ResultCalls(t)
    BY <1>2 DEF Carries, ResultCalls
  <1>6. Return(t)
    BY DEF t
  <1>7. QED
    BY <1>2, <1>4, <1>5, <1>6, Returned

LEMMA FinalizeInv == ASSUME AgentInv, Finalize PROVE AgentInv'
  <1>1. /\ mode = "up" /\ node = "finalize" /\ step = "start" /\ mode' = mode
        /\ UNCHANGED <<saved, acted, repeated, consented>> /\ Resumable(state, "finalize")
        /\ sent = state.calls /\ DOMAIN state = StateFields /\ Counted(state)
        /\ scratch.retries = 0
    BY DEF Finalize, Runs, outside, AgentInv, Places, Charged, Waiting, Resumable, Typed
  <1>2. \/ Distills(state) /\ Wait("distil", state, scratch) /\ sent' = sent + 1
        \/ Return(Finished(state)) /\ UNCHANGED sent
    BY DEF Finalize
  <1>3. CASE Distills(state) /\ Wait("distil", state, scratch) /\ sent' = sent + 1
    <2>1. state' = state /\ node' = node /\ step' = "distil" /\ scratch' = scratch
      BY <1>3 DEF Wait
    <2>2. state.calls < ModelCalls
      BY <1>1, <1>3, AgentAssumption DEF Distills, RemainingCalls, Min0, Counted
    <2>3. Charged'
      BY <1>1, <1>3, <2>1, <2>2, AgentAssumption DEF Charged, Counted
    <2>4. Waiting'
      BY <1>1, <2>1 DEF AgentInv, Waiting
    <2>5. QED
      BY <1>1, <1>3, <2>3, <2>4, Waited
  <1>4. CASE Return(Finished(state)) /\ UNCHANGED sent
    <2>1. Carries(state, state)
      BY <1>1 DEF Carries, Counted
    <2>2. QED
      BY <1>1, <1>4, <2>1, FinalizeReturned
  <1>5. QED
    BY <1>2, <1>3, <1>4

LEMMA DistillationRepliesInv ==
    ASSUME AgentInv, NEW r \in Replies, DistillationReplies(r) PROVE AgentInv'
  <1> DEFINE kept == [scratch EXCEPT !.retries = @ + 1]
             s == Distilled(state, scratch.retries)
  <1>1. /\ mode = "up" /\ node = "finalize" /\ step = "distil" /\ mode' = mode
        /\ UNCHANGED <<saved, acted, repeated, consented>> /\ Resumable(state, "finalize")
        /\ DOMAIN state = StateFields /\ Counted(state)
        /\ scratch.retries \in Nat /\ DOMAIN scratch = ScratchFields
        /\ sent = state.calls + 1 + scratch.retries /\ sent <= ModelCalls
        /\ state.retries + scratch.retries <= Retries
    BY DEF DistillationReplies, Runs, outside, AgentInv, Places, Charged, Waiting,
       Resumable, Typed
  <1>2. \/ /\ MoreDistillation(state, scratch.retries)
           /\ Wait("distil", state, kept) /\ sent' = sent + 1
        \/ Return(Finished(s)) /\ UNCHANGED sent
    BY DEF DistillationReplies
  <1>3. CASE /\ MoreDistillation(state, scratch.retries)
             /\ Wait("distil", state, kept) /\ sent' = sent + 1
    <2>1. /\ state' = state /\ node' = node /\ step' = "distil" /\ scratch' = kept
          /\ DOMAIN kept = ScratchFields /\ kept.retries = scratch.retries + 1
      BY <1>1, <1>3 DEF Wait, ScratchFields
    <2> HIDE DEF kept
    <2>2. scratch.retries < Retries - state.retries /\ sent < ModelCalls
      BY <1>1, <1>3, AgentAssumption DEF MoreDistillation, RemainingCalls, Min0, Counted
    <2>3. Charged'
      BY <1>1, <1>3, <2>1, <2>2, AgentAssumption DEF Charged, Counted
    <2>4. Waiting'
      BY <1>1, <2>1 DEF Waiting
    <2>5. QED
      BY <1>1, <1>3, <2>3, <2>4, Waited
  <1>4. CASE Return(Finished(s)) /\ UNCHANGED sent
    <2>1. Carries(state, s) /\ s.calls = sent
      BY <1>1, AgentAssumption DEF Distilled, ChargeAttempt, Carries, Counted, StateFields
    <2> HIDE DEF s
    <2>2. QED
      BY <1>1, <1>4, <2>1, FinalizeReturned
  <1>5. QED
    BY <1>2, <1>3, <1>4

LEMMA ConcludeInv == ASSUME AgentInv, Conclude PROVE AgentInv'
  <1>1. /\ saved' = None /\ mode' = "done" /\ acted' = acted
        /\ UNCHANGED <<node, step, state, scratch, latest, sent, repeated, consented>>
    BY DEF Conclude
  <1>2. Judged'
    BY <1>1 DEF Judged
  <1>3. QED
    BY <1>1, <1>2, Unmoved

-----------------------------------------------------------------------------
(* Checkpoints, crashes and what happens beside the graph.                 *)

LEMMA CheckpointSavedInv == ASSUME AgentInv, CheckpointSaved PROVE AgentInv'
  <1>1. /\ saved' = latest /\ mode = "up" /\ mode' = mode /\ acted' = acted
        /\ UNCHANGED <<node, step, state, scratch, latest, sent, repeated, consented>>
    BY DEF CheckpointSaved
  <1>2. Judged'
    BY <1>1 DEF Judged
  <1>3. QED
    BY <1>1, <1>2, Unmoved

LEMMA CrashInv == ASSUME AgentInv, Crash PROVE AgentInv'
  <1>1. /\ mode' = "down" /\ acted' = acted /\ saved' = saved
        /\ UNCHANGED <<node, step, state, scratch, latest, sent, repeated, consented>>
    BY DEF Crash
  <1>2. Judged'
    BY <1>1 DEF Judged
  <1>3. QED
    BY <1>1, <1>2, Unmoved

\* The user is asked about a checkpoint that is there, and no call that acted
\* is remembered but those it knows of.
LEMMA RecoverInv == ASSUME AgentInv, Recover PROVE AgentInv'
  <1>1. /\ saved' = saved /\ acted' = acted \cap Remembered
        /\ mode' = IF Verdict(saved) = "resumable" THEN "asked" ELSE "done"
        /\ UNCHANGED <<node, step, state, scratch, latest, sent, repeated, consented>>
    BY DEF Recover
  <1>2. saved = None => Verdict(saved) = "checkpoint_missing"
    BY DEF Verdict
  <1>3. Remembered' = Remembered
    BY <1>1 DEF Remembered
  <1>4. Judged'
    BY <1>1, <1>2, <1>3 DEF Judged
  <1>5. QED
    BY <1>1, <1>4, Unmoved

LEMMA UserRetriesInv == ASSUME AgentInv, UserRetries PROVE AgentInv'
  <1> DEFINE s == saved.state
  <1>1. /\ state' = s /\ node' = saved.node /\ latest' = saved /\ saved' = saved
        /\ step' = "start" /\ scratch' = Unset /\ sent' = s.calls /\ mode' = "up"
        /\ acted' = acted /\ repeated' = repeated
        /\ consented' = consented \cup
             IF BudgetInterrupted(s) THEN {} ELSE UncertainCalls(s)
    BY DEF UserRetries
  <1>2. saved # None /\ acted \subseteq Remembered /\ Resumable(s, saved.node)
    BY DEF UserRetries, AgentInv, Judged, Places
  <1>3. acted \subseteq ResultCalls(s) \cup UncertainCalls(s)
    BY <1>2 DEF Remembered, ResultCalls
  <1>4. ASSUME NEW c \in UncertainCalls(s)
        PROVE  /\ s.next < Len(s.pending) /\ c = s.pending[s.next + 1]
               /\ c \in consented' \/ LoopExhaustion(s) # None
    <2>1. ~(s.next >= Len(s.pending)) /\ c = s.pending[s.next + 1]
      BY <1>4 DEF UncertainCalls
    <2>2. s.next < Len(s.pending)
      BY <1>2, <2>1, TupleFacts DEF Resumable, Typed
    <2>3. BudgetInterrupted(s) => LoopExhaustion(s) # None
      BY <1>2 DEF BudgetInterrupted, Resumable, Skipped
    <2>4. QED
      BY <1>1, <1>4, <2>1, <2>2, <2>3
  <1> HIDE DEF s
  <1>5. Known'
    BY <1>1, <1>3, <1>4 DEF Known
  <1>6. Places'
    BY <1>1, <1>2 DEF Places, s
  <1>7. Charged'
    BY <1>1 DEF Charged
  <1>8. Waiting'
    BY <1>1 DEF Waiting, Unset, ScratchFields
  <1>9. RepeatsConsented' /\ Judged'
    BY <1>1 DEF AgentInv, RepeatsConsented, Judged
  <1>10. QED
    BY <1>5, <1>6, <1>7, <1>8, <1>9 DEF AgentInv

LEMMA UserAbortsInv == ASSUME AgentInv, UserAborts PROVE AgentInv'
  <1>1. /\ mode' = "done" /\ saved' = None /\ acted' = acted
        /\ UNCHANGED <<node, step, state, scratch, latest, sent, repeated, consented>>
    BY DEF UserAborts
  <1>2. Judged'
    BY <1>1 DEF Judged
  <1>3. QED
    BY <1>1, <1>2, Unmoved

LEMMA TimeRunsOutInv == ASSUME AgentInv, TimeRunsOut PROVE AgentInv'
  <1> DEFINE t == [state EXCEPT !.late = TRUE]
  <1>1. /\ mode = "up" /\ mode' = mode /\ step \in {"stream", "tool"} /\ state' = t
        /\ UNCHANGED <<node, step, scratch, latest, saved, sent, acted, repeated, consented>>
        /\ Resumable(state, node) /\ DOMAIN state = StateFields /\ Counted(state)
    BY DEF TimeRunsOut, AgentInv, Places, Resumable, Typed
  <1>2. /\ Carries(state, t) /\ t.wants = state.wants /\ t.calls = state.calls
        /\ t.pending = state.pending /\ t.next = state.next
    BY <1>1 DEF Carries, Counted, StateFields
  <1>3. ResultCalls(t) = ResultCalls(state)
    BY <1>2 DEF Carries, ResultCalls
  <1> HIDE DEF t
  <1>4. node \in Nodes /\ (node \in {"call", "tool"} => t.wants = None)
    BY <1>1, <1>2 DEF Resumable
  <1>5. Resumable(t, node)
    BY <1>1, <1>2, <1>4, CarriesResumable
  <1>6. Places'
    BY <1>1, <1>5 DEF AgentInv, Places
  <1>7. Charged' /\ Waiting'
    BY <1>1, <1>2 DEF AgentInv, Charged, Waiting
  <1>8. LoopExhaustion(state) # None => LoopExhaustion(t) # None
    BY <1>1, <1>2, ExhaustionStays DEF Carries
  <1>9. Known'
    BY <1>1, <1>2, <1>3, <1>8 DEF AgentInv, Known
  <1>10. RepeatsConsented' /\ Judged'
    BY <1>1 DEF AgentInv, RepeatsConsented, Judged
  <1>11. QED
    BY <1>6, <1>7, <1>9, <1>10 DEF AgentInv

LEMMA OtherCompactsInv == ASSUME AgentInv, OtherCompacts PROVE AgentInv'
  <1>1. /\ mode' = mode /\ saved' = saved /\ acted' = acted
        /\ UNCHANGED <<node, step, state, scratch, latest, sent, repeated, consented>>
    BY DEF OtherCompacts
  <1>2. Judged'
    BY <1>1 DEF AgentInv, Judged, Remembered
  <1>3. QED
    BY <1>1, <1>2, Unmoved

-----------------------------------------------------------------------------
(* The invariant, and what follows from it.                                *)

LEMMA AgentInit == Init => AgentInv
  <1> SUFFICES ASSUME Init PROVE AgentInv
    OBVIOUS
  <1> DEFINE s == NewState
  <1>1. /\ mode = "up" /\ node = "prepare" /\ step = "start" /\ state = s /\ scratch = Unset
        /\ latest = [state |-> s, node |-> "prepare"] /\ saved = None /\ sent = 0
        /\ acted = {} /\ repeated = {}
    BY DEF Init
  <1>2. /\ DOMAIN s = StateFields /\ s.tail = <<>> /\ s.pending = <<>> /\ s.next = 0
        /\ s.results = <<>> /\ s.calls = 0 /\ s.tools = 0 /\ s.retries = 0 /\ s.comps = 0
        /\ s.late = FALSE
    BY DEF NewState, StateFields
  <1> HIDE DEF s
  <1>3. Typed(s)
    <2>1. /\ 0 \in 0..ModelCalls /\ 0 \in 0..ToolCalls
          /\ 0 \in 0..Retries /\ 0 \in 0..Compressions
      BY AgentAssumption
    <2>4. Counted(s)
      BY <1>2, <2>1 DEF Counted
    <2>2. IsTuple(s.tail) /\ IsTuple(s.pending) /\ IsTuple(s.results) /\ Len(s.pending) = 0
      BY <1>2, EmptyTuple
    <2>3. QED
      BY <1>2, <2>2, <2>4 DEF Typed
  <1>4. Unanswered(s) /\ Skipped(s)
    BY <1>2, EmptyTuple DEF Unanswered, IsInjective, Skipped
  <1>5. Chained(s)
    BY <1>2, EmptyTuple DEF Chained, Batches
  <1>6. Resumable(s, "prepare")
    BY <1>2, <1>3, <1>4, <1>5, EmptyTuple DEF Resumable, Nodes
  <1>7. Places
    BY <1>1, <1>6 DEF Places
  <1>8. Charged /\ Waiting
    BY <1>1, <1>2 DEF Charged, Waiting, Unset, ScratchFields
  <1>9. Known /\ RepeatsConsented /\ Judged
    BY <1>1 DEF Known, RepeatsConsented, Judged
  <1>10. QED
    BY <1>7, <1>8, <1>9 DEF AgentInv

LEMMA AgentStep == AgentInv /\ [Next]_vars => AgentInv'
  <1> SUFFICES ASSUME AgentInv, [Next]_vars PROVE AgentInv'
    OBVIOUS
  <1>1. CASE GraphStep
    BY <1>1, PrepareContextInv, ContextRecordedInv, CallModelInv, ModelRepliesInv,
       ExecuteOneToolInv, ToolReturnsInv, SkipCompressionInv, CompressContextInv,
       SummaryRepliesInv, StoreSummaryInv, RebuildContextInv, CompressionRecordedInv,
       FinalizeInv, DistillationRepliesInv, ConcludeInv
    DEF GraphStep
  <1>2. CASE RecoveryStep
    BY <1>2, RecoverInv, UserRetriesInv, UserAbortsInv DEF RecoveryStep
  <1>3. CASE CheckpointSaved \/ Crash \/ TimeRunsOut \/ OtherCompacts
    BY <1>3, CheckpointSavedInv, CrashInv, TimeRunsOutInv, OtherCompactsInv
  <1>4. CASE UNCHANGED vars
    <2>1. Judged'
      BY <1>4 DEF vars, AgentInv, Judged, Remembered
    <2>2. QED
      BY <1>4, <2>1, Unmoved DEF vars
  <1>5. QED
    BY <1>1, <1>2, <1>3, <1>4 DEF Next, Done

\* The inductive invariant.  A Turn may go on from the state a node works on,
\* from its last checkpoint and from the one in the database.
THEOREM AgentInvariant == Spec => []AgentInv
  <1>1. QED
    BY AgentInit, AgentStep, PTL DEF Spec

\* Whatever the provider streams and whenever the process dies, a request to
\* the provider carries exactly one observation of every earlier tool call,
\* right behind the answer that emitted it.
THEOREM AgentRequests == Spec => []RequestsWellFormed
  <1>1. AgentInv => RequestsWellFormed
    <2> SUFFICES ASSUME AgentInv, Runs("call", "stream")
                 PROVE  EveryCallObserved(state.tail)
      BY DEF RequestsWellFormed
    <2>1. Chained(state) /\ state.pending = <<>>
      BY DEF AgentInv, Places, Waiting, Runs, Resumable, Ending
    <2>2. \A i \in Batches(state.tail) : Answered(state.tail, i)
      BY <2>1 DEF Chained, Open
    <2>3. QED
      BY <2>1, <2>2 DEF Chained, EveryCallObserved
  <1>2. QED
    BY AgentInvariant, <1>1, PTL

\* Every request is charged, and no budget is exceeded, for any budget and
\* however often the Turn is resumed.
THEOREM AgentBudgets == Spec => []BudgetsKept
  <1>1. AgentInv => BudgetsKept
    <2> SUFFICES ASSUME AgentInv, mode = "up"
                 PROVE  /\ sent <= ModelCalls
                        /\ step = "start" => sent = state.calls
                        /\ state.tools <= ToolCalls
                        /\ state.retries <= Retries
                        /\ state.comps <= Compressions
                        /\ step = "summary" => sent < ModelCalls
      BY DEF BudgetsKept
    <2>1. Counted(state) /\ Charged /\ Waiting
      BY DEF AgentInv, Places, Resumable, Typed
    <2>2. /\ ModelCalls \in Nat /\ ToolCalls \in Nat /\ Retries \in Nat
          /\ Compressions \in Nat /\ state.calls \in Nat /\ state.calls <= ModelCalls
          /\ state.tools <= ToolCalls /\ state.retries <= Retries
          /\ state.comps <= Compressions /\ scratch.retries \in Nat
      BY <2>1, AgentAssumption DEF Counted, Waiting
    <2>3. sent \in Nat /\ sent <= ModelCalls
      BY <2>1, <2>2 DEF Charged, Waiting
    <2>4. QED
      BY <2>1, <2>2, <2>3 DEF Charged
  <1>2. QED
    BY AgentInvariant, <1>1, PTL

\* A call that cannot be repeated acts again only when the user was told that
\* it may have acted: the half of SafeToResume that no recursion is part of.
THEOREM AgentRepeats == Spec => []RepeatsConsented
  <1>1. AgentInv => RepeatsConsented
    BY DEF AgentInv
  <1>2. QED
    BY AgentInvariant, <1>1, PTL
=============================================================================
