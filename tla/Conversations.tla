--------------------------- MODULE Conversations ---------------------------
(***************************************************************************)
(* Threads, Entries and Turns: conversation/service.py,                     *)
(* conversation/materialization.py and storage/conversations.py.            *)
(*                                                                          *)
(* A service call reads a whole Thread, decides on what it read, and then   *)
(* commits in one transaction that looks again.  Several processes share    *)
(* application.db, so anything may be committed between a read and its      *)
(* commit.  A Turn is named by its Thread and the sequence number of its    *)
(* user Entry, a text by a number, a context manifest by a number with 0    *)
(* for the empty one.                                                       *)
(***************************************************************************)
EXTENDS Integers, Sequences, FiniteSets

CONSTANTS Threads, Callers, None,
          MaxEntries,  \* bound: Entries of a Thread
          MaxCalls,    \* bound: service calls
          PageLimit

ASSUME ConversationAssumption ==
    /\ {MaxEntries, MaxCalls} \subseteq Nat
    /\ PageLimit \in Nat \ {0}

VARIABLES
    db,      \* the rows of each Thread
    call,    \* what each caller is doing, with the view it has read
    reader,  \* a client that pages backwards through a Thread
    calls    \* service calls so far

transcriptVars == <<db, call, reader, calls>>

-----------------------------------------------------------------------------

Kinds == {"user", "assistant", "direct"}
TurnStatuses == {"in_progress", "completed", "failed", "cancelled"}
Answers == {1, 2}
Manifests == {0, 1, 2}
Choices == {"begin", "complete", "fail", "cancel", "manifest", "direct",
            "fork", "retry", "summary"}

Entry(s, form, text) == [sequence |-> s, kind |-> form, text |-> text]

\* One row of turns; assistant 0 is NULL.
Turn(user) == [user |-> user, status |-> "in_progress", assistant |-> 0,
               answer |-> 0, manifest |-> 0]

EmptyThread(present) ==
    [present |-> present, title |-> "new", manual |-> FALSE, model |-> 0,
     entries |-> <<>>, turns |-> {}, summary |-> 0, activities |-> {}, source |-> None]

NoThread == EmptyThread(FALSE)

NoReader == [thread |-> None, before |-> 0, got |-> <<>>, upto |-> 0, more |-> FALSE]

Last(s) == s[Len(s)]
NextSequence(view) == IF view.entries = <<>> THEN 1 ELSE Last(view.entries).sequence + 1
MaxSequence(row) ==
    LET S == {row.entries[i].sequence : i \in DOMAIN row.entries}
    IN  IF S = {} THEN 0 ELSE CHOOSE s \in S : \A r \in S : r <= s

\* Faulty: a second Turn begins beside an unfinished one.
Busy_Never(row) == FALSE

Busy(row) == \E t \in row.turns : t.status = "in_progress"
TerminalTurns(row) == {t \in row.turns : t.status # "in_progress"}

TranscriptInit ==
    /\ db = [t \in Threads |-> NoThread]
    /\ call = [c \in Callers |-> None]
    /\ reader = NoReader
    /\ calls = 0

TranscriptTypeOK ==
    /\ \A t \in Threads :
          /\ Len(db[t].entries) <= MaxEntries
          /\ \A i \in DOMAIN db[t].entries : db[t].entries[i].kind \in Kinds
          /\ \A u \in db[t].turns : u.status \in TurnStatuses /\ u.manifest \in Manifests
    /\ calls \in 0..MaxCalls

-----------------------------------------------------------------------------
(* Reading.                                                                 *)

\* The caller has its view; turn and value are its arguments.
Read(c, what, t) ==
    /\ call[c] = None /\ calls < MaxCalls /\ db[t].present
    /\ calls' = calls + 1
    /\ \E u \in db[t].turns \cup {None}, v \in Answers :
          /\ (u = None) = (what \notin {"complete", "fail", "cancel", "manifest", "fork", "retry"})
          /\ what \notin {"begin", "complete", "manifest"} => v = 1
          /\ call' = [call EXCEPT ![c] =
                 [what |-> what, thread |-> t, view |-> db[t], turn |-> u, value |-> v]]
    /\ UNCHANGED <<db, reader>>

Doing(c, what) == call[c] # None /\ call[c].what = what

Done(c) == call' = [call EXCEPT ![c] = None] /\ UNCHANGED <<reader, calls>>

\* The call ends without a change: what it asks is there already, or it
\* raises TurnBusy, ConversationConflict or InvalidTurnTransition.
Refuse(c) == Done(c) /\ UNCHANGED db

\* Faulty: the cursor is part of the next page.
Older_Inclusive(row, before) ==
    SubSeq(row.entries, 1,
           Cardinality({i \in DOMAIN row.entries : row.entries[i].sequence <= before}))

\* The rows come in the order of their numbers.
Older(row, before) ==
    SubSeq(row.entries, 1,
           Cardinality({i \in DOMAIN row.entries : row.entries[i].sequence < before}))

\* The newest page and then the page before the oldest Entry shown.
ReadPage(t) ==
    /\ db[t].present
    /\ LET first == reader.thread # t
           before == IF first THEN MaxSequence(db[t]) + 1 ELSE reader.before
           older == Older(db[t], before)
           from == IF Len(older) > PageLimit THEN Len(older) - PageLimit + 1 ELSE 1
           page == SubSeq(older, from, Len(older))
       IN  /\ IF first THEN reader.thread = None ELSE reader.more
           /\ page # <<>>
           /\ reader' = [thread |-> t, before |-> page[1].sequence,
                         got |-> page \o reader.got,
                         upto |-> IF first THEN MaxSequence(db[t]) ELSE reader.upto,
                         more |-> Len(older) > PageLimit]
    /\ UNCHANGED <<db, call, calls>>

-----------------------------------------------------------------------------
(* Committing: each is one transaction over the rows as they are now.       *)

Store(t, row) == db' = [db EXCEPT ![t] = row]

\* The unique index on (thread, sequence) and the check before it.
Appends(t, view) == NextSequence(view) = MaxSequence(db[t]) + 1

WithTurn(row, old, new) == [row EXCEPT !.turns = (@ \ {old}) \cup {new}]

Current(c) == CHOOSE u \in db[call[c].thread].turns : u.user = call[c].turn.user

CreateThread(c, t) ==
    /\ call[c] = None /\ calls < MaxCalls /\ calls' = calls + 1
    /\ ~db[t].present
    /\ Store(t, EmptyThread(TRUE))
    /\ UNCHANGED <<call, reader>>

\* Faulty: the title is decided on the view alone.
Titled_Stale(view, row) == ~view.manual /\ view.entries = <<>>

\* The automatic title was computed from the view: it is applied only to a
\* Thread that is still automatic and empty.
Titled(view, row) == ~view.manual /\ view.entries = <<>> /\ ~row.manual

\* The bound on Entries ends a call like a conflict.
OpenTurn(c) ==
    /\ Doing(c, "begin")
    /\ LET t == call[c].thread
           view == call[c].view
           s == NextSequence(view)
       IN  IF Busy(db[t]) THEN Refuse(c)
           ELSE IF ~Appends(t, view) \/ s > MaxEntries THEN Refuse(c)
           ELSE /\ Store(t, [db[t] EXCEPT !.entries = Append(@, Entry(s, "user", call[c].value)),
                                          !.turns = @ \cup {Turn(s)},
                                          !.title = IF Titled(view, db[t]) THEN "suggested" ELSE @])
                /\ Done(c)

Recorded(c, given) == IF given # 0 THEN given ELSE call[c].turn.manifest

ManifestMoved(c, manifest) == Current(c).manifest \notin {0, manifest}

\* Finishing a finished Turn again changes nothing, whether it is answered
\* (the same result) or refused (another one).
CompleteTurn(c, given) ==
    /\ Doing(c, "complete")
    /\ LET t == call[c].thread
           view == call[c].view
           seen == call[c].turn
           s == NextSequence(view)
           manifest == Recorded(c, given)
           done == [user |-> seen.user, status |-> "completed", assistant |-> s,
                   answer |-> call[c].value, manifest |-> manifest]
       IN  IF seen.status # "in_progress" \/ Current(c).status # "in_progress"
           THEN Refuse(c)
           ELSE IF ManifestMoved(c, manifest) \/ ~Appends(t, view) \/ s > MaxEntries
           THEN Refuse(c)
           ELSE /\ Store(t, WithTurn([db[t] EXCEPT !.entries =
                                          Append(@, Entry(s, "assistant", call[c].value))],
                                     Current(c), done))
                /\ Done(c)

\* Failing and cancelling write the Turn alone.
EndTurn(c, what, outcome, given) ==
    /\ Doing(c, what)
    /\ LET t == call[c].thread
           seen == call[c].turn
           manifest == Recorded(c, given)
           done == [seen EXCEPT !.status = outcome, !.manifest = manifest]
       IN  IF seen.status # "in_progress" \/ Current(c).status # "in_progress"
           THEN Refuse(c)
           ELSE IF ManifestMoved(c, manifest) THEN Refuse(c)
           ELSE /\ Store(t, WithTurn(db[t], Current(c), done))
                /\ Done(c)

\* The snapshot of what a running Turn sees replaces the one the caller read.
StoreManifest(c) ==
    /\ Doing(c, "manifest")
    /\ LET t == call[c].thread
           seen == call[c].turn
       IN  IF seen.status # "in_progress" THEN Refuse(c)
           ELSE IF seen.manifest = call[c].value THEN Refuse(c)
           ELSE IF Current(c) # seen THEN Refuse(c)
           ELSE /\ db' = [db EXCEPT ![t] =
                             WithTurn(@, seen, [seen EXCEPT !.manifest = call[c].value])]
                /\ Done(c)

AppendDirect(c) ==
    /\ Doing(c, "direct")
    /\ LET t == call[c].thread
           s == NextSequence(call[c].view)
       IN  IF ~Appends(t, call[c].view) \/ s > MaxEntries THEN Refuse(c)
           ELSE /\ Store(t, [db[t] EXCEPT !.entries =
                                Append(@, Entry(s, "direct", call[c].value))])
                /\ Done(c)

\* Settings are patched field by field over the current row.
Patch(t) ==
    /\ db[t].present /\ calls < MaxCalls /\ calls' = calls + 1
    /\ \/ Store(t, [db[t] EXCEPT !.title = "named", !.manual = TRUE])
       \/ Store(t, [db[t] EXCEPT !.model = 1 - @])
    /\ UNCHANGED <<call, reader>>

\* A compressed summary replaces the one its author had read.
SwapSummary(c) ==
    /\ Doing(c, "summary")
    /\ LET t == call[c].thread
       IN  IF db[t].summary # call[c].view.summary THEN Refuse(c)
           ELSE /\ db' = [db EXCEPT ![t].summary = @ + call[c].value]
                /\ Done(c)

\* The record of a tool call, by operation and call: a second one is ignored.
FinalizeActivity(t, id) ==
    /\ Busy(db[t]) /\ calls < MaxCalls /\ calls' = calls + 1
    /\ db' = [db EXCEPT ![t].activities =
                 IF \E a \in @ : a.call = id THEN @
                 ELSE @ \cup {[call |-> id, sequence |-> Cardinality(@) + 1]}]
    /\ UNCHANGED <<call, reader>>

-----------------------------------------------------------------------------
(* Fork and retry: the destination is built from the view.                  *)

Boundary(u) == IF u.status = "completed" THEN u.assistant ELSE u.user

\* The terminal Turns that go along, in transcript order.
Prefix(view, wanted, form) ==
    {u \in TerminalTurns(view) :
        IF form = "fork" THEN u.user <= wanted.user ELSE u.user < wanted.user}

\* The Entries that go along, by their places in the view.
Included(view, wanted, form) ==
    LET turns == Prefix(view, wanted, form)
        limit == IF form = "fork" THEN Boundary(wanted) ELSE wanted.user - 1
    IN  {i \in DOMAIN view.entries :
            LET e == view.entries[i] IN
            \/ \E u \in turns : e.sequence \in {u.user, Boundary(u)}
            \/ e.kind = "direct" /\ e.sequence <= limit}

\* The n-th of some places.
Nth(places, n) == CHOOSE i \in places : Cardinality({j \in places : j <= i}) = n

\* Entries are numbered anew, and with them what the Turns refer to.
Renumbered(view, places, s) == Cardinality({i \in places : view.entries[i].sequence <= s})

Crosses(view, wanted, form) ==
    \E u \in Prefix(view, wanted, form) :
        IF form = "fork" THEN Boundary(u) > Boundary(wanted)
        ELSE Boundary(u) >= wanted.user

Materialized(t, view, wanted, form) ==
    LET places == Included(view, wanted, form)
        n == Cardinality(places)
        copied == [i \in 1..n |-> [view.entries[Nth(places, i)] EXCEPT !.sequence = i]]
        turns == {[u EXCEPT !.user = Renumbered(view, places, u.user),
                            !.assistant = Renumbered(view, places, u.assistant),
                            !.manifest = 0] : u \in Prefix(view, wanted, form)}
        asked == CHOOSE e \in {view.entries[i] : i \in DOMAIN view.entries} :
                     e.sequence = wanted.user
    IN  [present |-> TRUE, title |-> "copy", manual |-> TRUE, model |-> view.model,
         entries |-> IF form = "fork" THEN copied
                     ELSE Append(copied, Entry(n + 1, "user", asked.text)),
         turns |-> IF form = "fork" THEN turns ELSE turns \cup {Turn(n + 1)},
         summary |-> 0, activities |-> {},
         source |-> [kind |-> form, thread |-> t, turn |-> wanted.user]]

\* Faulty: the settings of the source are left out.
Fingerprint_Transcript(row) == <<row.entries, row.turns>>

\* All source state but the summary and the activities.
Fingerprint(row) == [row EXCEPT !.summary = 0, !.activities = {}]

TerminalTarget(u) == u.status # "in_progress"

\* What validate_destination and validate_preparation ask of the new Thread:
\* a gapless transcript, Turns that own their Entries, nothing of the source's
\* state besides, and for a retry one last Turn that has not begun.
ValidPlan(t, row, form) ==
    /\ row.source.kind = form /\ row.source.thread = t
    /\ row.summary = 0 /\ row.activities = {}
    /\ \A i \in DOMAIN row.entries : row.entries[i].sequence = i
    /\ \A u \in row.turns :
          /\ u.user \in DOMAIN row.entries /\ row.entries[u.user].kind = "user"
          /\ TerminalTarget(u) => u.manifest = 0
          /\ u.assistant # 0 => /\ u.assistant \in DOMAIN row.entries /\ u.assistant > u.user
                                /\ row.entries[u.assistant].kind = "assistant"
    /\ row.turns \ TerminalTurns(row) =
          IF form = "fork" THEN {} ELSE {Turn(Len(row.entries))}

\* The transaction requires a source that is still what the plan was built
\* from.
CommitMaterialized(c, new, row) ==
    LET t == call[c].thread
    IN  IF Fingerprint(db[t]) # Fingerprint(call[c].view) THEN Refuse(c)
        ELSE Store(new, row) /\ Done(c)

\* fork_thread and prepare_retry.
Materialize(c, form, new) ==
    /\ Doing(c, form) /\ ~db[new].present
    /\ LET t == call[c].thread
           view == call[c].view
           wanted == call[c].turn
           row == Materialized(t, view, wanted, form)
       IN  IF ~TerminalTarget(wanted) \/ Crosses(view, wanted, form) THEN Refuse(c)
           ELSE IF ~ValidPlan(t, row, form) THEN Refuse(c)
           ELSE CommitMaterialized(c, new, row)

-----------------------------------------------------------------------------

Commit(c) ==
    \/ OpenTurn(c)
    \/ \E m \in {0, 1} :
          \/ CompleteTurn(c, m)
          \/ EndTurn(c, "fail", "failed", m)
          \/ EndTurn(c, "cancel", "cancelled", m)
    \/ StoreManifest(c) \/ AppendDirect(c) \/ SwapSummary(c)
    \/ \E form \in {"fork", "retry"}, new \in Threads : Materialize(c, form, new)

TranscriptNext ==
    \/ \E c \in Callers :
          \/ \E t \in Threads : CreateThread(c, t) \/ \E what \in Choices : Read(c, what, t)
          \/ Commit(c)
    \/ \E t \in Threads :
          \/ ReadPage(t)
          \/ Patch(t)
          \/ \E id \in Answers : FinalizeActivity(t, id)

TranscriptSpec == TranscriptInit /\ [][TranscriptNext]_transcriptVars

-----------------------------------------------------------------------------
(* Properties.                                                              *)

KindAt(row, s) == row.entries[s].kind

\* A transcript is a gapless sequence in which every Turn owns its own user
\* Entry and, once completed, a later assistant Entry of its own; nothing
\* else is a user or assistant Entry, one Turn at most is unfinished, and
\* the tool calls on record are numbered without a gap and without a double.
TranscriptWellFormed ==
    \A t \in Threads :
        LET row == db[t] IN
        /\ \A i \in DOMAIN row.entries : row.entries[i].sequence = i
        /\ \A u \in row.turns :
              /\ u.user \in DOMAIN row.entries /\ KindAt(row, u.user) = "user"
              /\ (u.status = "completed") = (u.assistant # 0)
              /\ u.assistant # 0 => /\ u.assistant > u.user
                                    /\ u.assistant \in DOMAIN row.entries
                                    /\ KindAt(row, u.assistant) = "assistant"
                                    /\ row.entries[u.assistant].text = u.answer
        /\ \A i \in DOMAIN row.entries :
              /\ KindAt(row, i) = "user" => Cardinality({u \in row.turns : u.user = i}) = 1
              /\ KindAt(row, i) = "assistant" =>
                     Cardinality({u \in row.turns : u.assistant = i}) = 1
        /\ Cardinality({u \in row.turns : u.status = "in_progress"}) <= 1
        /\ {a.sequence : a \in row.activities} = 1..Cardinality({a.call : a \in row.activities})

\* What was said up to the end of a Turn, or up to its beginning.
SaidUpTo(row, s) ==
    LET texts == [i \in DOMAIN row.entries |-> <<row.entries[i].kind, row.entries[i].text>>]
    IN  SubSeq(texts, 1, s)

\* A fork is what the source says at the commit up to the end of its Turn, a
\* retry what it says up to the Turn's question, asked once more; the source
\* is left alone.
MaterializedIsPrefix ==
    [][\A n \in Threads :
          (~db[n].present /\ db'[n].present /\ db'[n].source # None) =>
              LET src == db'[n].source
                  u == CHOOSE x \in db[src.thread].turns : x.user = src.turn
                  end == IF src.kind = "fork" THEN Boundary(u) ELSE u.user
              IN  /\ SaidUpTo(db[n]', Len(db[n]'.entries)) = SaidUpTo(db[src.thread], end)
                  /\ db'[src.thread] = db[src.thread]
                  /\ db'[n].model = db[src.thread].model]_transcriptVars

\* What is decided stays: an Entry, a terminal Turn and a title the user
\* gave, whatever was read before the decision and committed after it.
DecisionsKept ==
    [][\A t \in Threads : db[t].present =>
          /\ SubSeq(db[t]'.entries, 1, Len(db[t].entries)) = db[t].entries
          /\ TerminalTurns(db[t]) \subseteq db[t]'.turns
          /\ db[t].manual => db[t]'.manual
          /\ db[t].title = "named" => db[t]'.title = "named"]_transcriptVars

\* Paging backwards while Entries are appended shows every Entry there was
\* at the first page exactly once, in order.
PagesComplete ==
    reader.thread # None =>
        /\ Len(reader.got) <= reader.upto
        /\ \A i \in DOMAIN reader.got :
              reader.got[i] = db[reader.thread].entries[reader.upto - Len(reader.got) + i]
        /\ ~reader.more => Len(reader.got) = reader.upto

=============================================================================
