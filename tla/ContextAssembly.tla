--------------------------- MODULE ContextAssembly ---------------------------
(***************************************************************************)
(* What a Turn's model request is made of.                                 *)
(*                                                                         *)
(* The history of a Thread is its entries, in sequence order, and at most  *)
(* one summary that stands for a prefix of them.  A source is a piece of   *)
(* context with the number of tokens its message is estimated at; the      *)
(* builder orders the sources, removes duplicates, gives long-term memory  *)
(* its share, keeps mandatory sources whole and cuts optional ones to the  *)
(* room that is left.  What it keeps is the manifest, one item a message.  *)
(* Contents are named by a text value - a summary by the entries it tells  *)
(* of - and only their sizes are counted.                                  *)
(***************************************************************************)
EXTENDS Integers, Sequences, SequencesExt, FiniteSetsExt

CONSTANTS
    RecentTurns,    \* completed Turns a compression leaves verbatim (4)
    InputLimit,     \* effective input limit, in tokens
    EntrySize,      \* tokens of one Thread entry
    SummarySize     \* tokens of a summary

ASSUME ContextAssumption ==
    /\ {RecentTurns, InputLimit, EntrySize, SummarySize}
         \subseteq Nat \ {0}

(***************************************************************************)
(* The Thread: entries |-> sequence of [kind, turn], status |-> the status *)
(* of each Turn, summary |-> [end, turns, tells], where tells is the set   *)
(* of sequence numbers its text was made from.                             *)
(***************************************************************************)
NoSummary == [end |-> 0, turns |-> 0, tells |-> {}]
NoPlan == [end |-> 0, turns |-> 0, entries |-> {}]

CompletedTurns(thread) ==
    {t \in DOMAIN thread.status : thread.status[t] = "completed"}

EntriesOf(thread, turns) ==
    {n \in DOMAIN thread.entries :
        thread.entries[n].kind # "direct" /\ thread.entries[n].turn \in turns}

\* The completed Turns that are not among the most recent ones.
Candidates(thread) ==
    LET completed == CompletedTurns(thread)
    IN  {t \in completed :
            Cardinality({u \in completed : u > t}) >= RecentTurns}

\* What a compression would summarise: every entry between the end of the
\* previous summary and the last entry of a candidate.
PlanCompression(thread) ==
    LET old == Candidates(thread)
        end == Max(EntriesOf(thread, old) \cup {0})
    IN  IF old = {}
        THEN [entries |-> {}, end |-> thread.summary.end,
              turns |-> thread.summary.turns]
        ELSE [entries |-> {n \in DOMAIN thread.entries :
                             thread.summary.end < n /\ n <= end},
              end |-> end, turns |-> Cardinality(old)]
\* Faulty: the new summary forgets the previous one.
Summarize_Fresh(thread, plan) ==
    [end |-> plan.end, turns |-> plan.turns, tells |-> plan.entries]

\* The summary the model writes from the previous summary and the plan.
Summarize(thread, plan) ==
    [end |-> plan.end, turns |-> plan.turns,
     tells |-> thread.summary.tells \cup plan.entries]

(***************************************************************************)
(* Sources and their order.                                                *)
(***************************************************************************)
KindRank ==
    [product_instructions |-> 1, workspace_instructions |-> 2, skill |-> 3,
     user_memory |-> 4, workspace_memory |-> 5, mem0 |-> 6,
     thread_summary |-> 7, recent_turns |-> 8, explicit_path |-> 9,
     current_input |-> 10]

Mandatory == {"product_instructions", "workspace_instructions", "skill",
              "explicit_path", "current_input"}
Memories == {"user_memory", "workspace_memory", "mem0"}
\* The kinds a checkpoint's manifest can rebuild a context from.
FrozenKinds == Mandatory \cup Memories

Source(kind, text, size, seq) ==
    [kind |-> kind, text |-> text, size |-> size, seq |-> seq, cut |-> FALSE]

\* Sources sort by kind, and the entries of the Thread by sequence.
Precedes(a, b) ==
    \/ KindRank[a.kind] < KindRank[b.kind]
    \/ a.kind = b.kind /\ a.seq < b.seq

InOrder(sources) ==
    [n \in 1..Cardinality(sources) |->
        CHOOSE s \in sources :
            Cardinality({r \in sources : Precedes(r, s)}) = n - 1]

\* The summary, then the entries after it that belong to completed Turns or
\* to direct commands and come before the current input.
HistorySources(thread, current) ==
    LET told == thread.summary
        shown == {n \in DOMAIN thread.entries :
                    /\ n < current /\ n > told.end
                    /\ \/ thread.entries[n].kind = "direct"
                       \/ n \in EntriesOf(thread, CompletedTurns(thread))}
        entry(n) == Source("recent_turns", n, EntrySize, n)
    IN  (IF told.end = 0 THEN {}
         ELSE {Source("thread_summary", told.tells, SummarySize, told.end)})
        \cup {entry(n) : n \in shown}

\* Long-term memory may repeat the same text in another layer: the first
\* one stands.  Mandatory sources and Thread entries are never collapsed.
Unique(ordered) ==
    SelectSeq(ordered,
        LAMBDA s : s.kind \in Memories =>
            ~\E r \in ToSet(ordered) :
                r.kind \in Memories /\ r.text = s.text /\ Precedes(r, s))

\* The share of the room each layer of memory may take.
MemoryShare(kind, room) ==
    LET total == room \div 10
    IN  IF kind = "workspace_memory" THEN total \div 2 ELSE total \div 4

\* F at x, where TLC evaluates x once.
Given(x, F(_)) == CHOOSE y \in {F(v) : v \in {x}} : TRUE

(***************************************************************************)
(* The builder.                                                            *)
(***************************************************************************)
SizeOf(items) == FoldLeft(LAMBDA n, i : n + i.size, 0, items)

\* What a source takes of the room that is left: a mandatory one has its
\* tokens set aside, an optional one takes what fits of it.
Taken(source, limit, room) ==
    LET share == IF source.kind \in Memories
                 THEN Min({room, MemoryShare(source.kind, limit)})
                 ELSE room
    IN  IF source.kind \in Mandatory THEN 0
        ELSE IF source.size <= share THEN source.size
        ELSE IF share > 1 THEN share
        ELSE 0

\* The sources that are kept, each with the tokens it keeps.
Placed(ordered, limit, free) ==
    LET after[n \in DOMAIN ordered, left \in 0..limit] ==
            left - Taken(ordered[n], limit, left)
        room[n \in 0..Len(ordered)] ==
            IF n = 0 THEN free ELSE after[n, room[n - 1]]
        item(n) ==
            LET took == room[n - 1] - room[n]
            IN  IF ordered[n].kind \in Mandatory THEN <<ordered[n]>>
                ELSE IF took = 0 THEN <<>>
                ELSE <<[ordered[n] EXCEPT !.size = took,
                                          !.cut = took < ordered[n].size]>>
    IN  FlattenSeq([n \in DOMAIN ordered |-> item(n)])

Overflow == [fits |-> FALSE, items |-> <<>>, size |-> 0, wants |-> FALSE]

Build(ordered, reserved) ==
    LET must == SizeOf(SelectSeq(ordered, LAMBDA s : s.kind \in Mandatory))
        limit == InputLimit - reserved
        context(items) ==
            [fits |-> TRUE, items |-> items, size |-> SizeOf(items),
             wants |-> SizeOf(items) + reserved >= (InputLimit * 4) \div 5]
    IN  IF must + reserved > InputLimit THEN Overflow
        ELSE Given(Placed(ordered, limit, limit - must), context)

\* The prepared context, or an overflow when the mandatory sources and the
\* reserved tokens do not fit.
Prepare(sources, reserved) ==
    Given(Given(Given(sources, InOrder), Unique),
          LAMBDA ordered : Build(ordered, reserved))

\* What a manifest holds of the sources captured when the Turn began: a
\* context rebuilt after a restart starts from it, and every manifest of the
\* Turn must share it.
Anchors(items) == {i \in ToSet(items) : i.kind \in FrozenKinds}

(***************************************************************************)
(* The open chain of assistant messages and observations behind the        *)
(* prepared context.                                                       *)
(***************************************************************************)
Batches(tail) == {i \in DOMAIN tail : tail[i].role = "assistant"}

NextBatch(tail, i) ==
    Min({j \in Batches(tail) : j > i} \cup {Len(tail) + 1})

\* The assistant message at i is followed by the observations of its calls,
\* in their order; all of them unless it is the last one.
BatchObserved(tail, i) ==
    LET calls == tail[i].calls
        seen == SubSeq(tail, i + 1, NextBatch(tail, i) - 1)
    IN  /\ Len(seen) <= Len(calls)
        /\ NextBatch(tail, i) <= Len(tail) => Len(seen) = Len(calls)
        /\ calls = <<>> => i = Len(tail)
        /\ \A k \in DOMAIN seen : seen[k].call = calls[k]

Observations(tail) == SelectSeq(tail, LAMBDA m : m.role = "tool")

EmittedCalls(tail) ==
    FlattenSeq([i \in DOMAIN tail |->
                  IF tail[i].role = "assistant" THEN tail[i].calls ELSE <<>>])

\* _frozen_message_tail_is_valid: the chain agrees with the pending calls,
\* the next index and the recorded results.
TailValid(tail, pending, next, results) ==
    IF tail = <<>>
    THEN pending = <<>> /\ next = 0 /\ results = <<>>
    ELSE LET last == Max(Batches(tail) \cup {0})
             seen == Observations(tail)
         IN  /\ last # 0 /\ tail[1].role = "assistant"
             /\ \A i \in Batches(tail) : BatchObserved(tail, i)
             /\ IsInjective(EmittedCalls(tail))
             /\ pending = tail[last].calls
             /\ next = Len(tail) - last
             /\ Len(results) = Len(seen)
             /\ \A k \in DOMAIN seen :
                    /\ results[k].call = seen[k].call
                    /\ results[k].error = seen[k].error

\* frozen_context_snapshot_is_valid, for the context and the chain.
SnapshotValid(items, size, tail, pending, next, results) ==
    /\ items # <<>>
    /\ \A i \in 1..Len(items) - 1 : Precedes(items[i], items[i + 1])
    /\ \A i \in DOMAIN items : items[i].kind \in Mandatory => ~items[i].cut
    /\ \E i \in DOMAIN items : items[i].kind = "product_instructions"
    /\ \E i \in DOMAIN items : items[i].kind = "current_input"
    /\ TailValid(tail, pending, next, results)
    /\ size = SizeOf(items) + SizeOf(tail)
    /\ size <= InputLimit
=============================================================================
