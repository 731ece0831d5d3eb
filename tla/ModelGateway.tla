---------------------------- MODULE ModelGateway ----------------------------
(***************************************************************************)
(* One attempt of a model provider, and what the gateway makes of it.      *)
(*                                                                         *)
(* A provider reads the chunks of one streamed response and ends in        *)
(* exactly one of two events: a completed turn, or a failure.  The two     *)
(* adapters (Kimi and DeepSeek) assemble a response in the same way.  The  *)
(* gateway retries a failed attempt only when the error is retryable and   *)
(* nothing of the attempt has been shown yet.                              *)
(*                                                                         *)
(* A chunk is a record with a "kind":                                      *)
(*   "reasoning", "text"   a delta of the reasoning or of the answer       *)
(*   "call"                a fragment of a tool call: its index and any of *)
(*                         its id, its name and its arguments              *)
(*   "finish"              the finish reason                               *)
(*   "fails"               the connection or the provider raises an error  *)
(* Texts, token counts and wire names are left out; of the arguments only  *)
(* whether they are a JSON object is kept.                                 *)
(***************************************************************************)
EXTENDS Integers, Sequences, SequencesExt

CONSTANT
    None,           \* no value
    PolicyRetries   \* RetryPolicy.max_retries

ASSUME PolicyRetriesAssumption == PolicyRetries \in Nat

RetryableCodes == {"connection", "timeout", "rate_limit", "transient"}

\* A tool call nothing has been heard of (_ToolAssembly).
NoFragment == [id |-> None, name |-> None, args |-> None, started |-> FALSE]

\* What has been assembled of a response before its first chunk.
NothingHeard ==
    [calls |-> <<>>, text |-> FALSE, visible |-> FALSE, finish |-> None,
     failed |-> None]

\* A fragment of a tool call extends the call at its index; the call starts
\* once both its id and its name are known.
AbsorbCall(heard, f) ==
    LET known == Len(heard.calls)
        old == IF f.index <= known THEN heard.calls[f.index] ELSE NoFragment
        id == IF f.id # None THEN f.id ELSE old.id
        name == IF f.name # None THEN f.name ELSE old.name
        new == [id |-> id, name |-> name,
                args |-> IF f.args # None THEN f.args ELSE old.args,
                started |-> old.started \/ (id # None /\ name # None)]
        shown == (new.started /\ ~old.started) \/ f.args # None
        calls == [i \in 1..(IF f.index > known THEN f.index ELSE known) |->
                    IF i = f.index THEN new
                    ELSE IF i <= known THEN heard.calls[i] ELSE NoFragment]
    IN  [heard EXCEPT !.calls = calls, !.visible = @ \/ shown]

\* One chunk of the stream; nothing follows an exception.
Absorb(heard, chunk) ==
    IF heard.failed # None THEN heard
    ELSE CASE chunk.kind = "fails" -> [heard EXCEPT !.failed = chunk.code]
           [] chunk.kind = "finish" -> [heard EXCEPT !.finish = chunk.reason]
           [] chunk.kind = "reasoning" -> [heard EXCEPT !.visible = TRUE]
           [] chunk.kind = "text" ->
                [heard EXCEPT !.visible = TRUE, !.text = TRUE]
           [] chunk.kind = "call" -> AbsorbCall(heard, chunk)

\* A call can be completed when it started and its arguments are an object.
WholeCall(c) == c.started /\ c.args = "object"

\* The one event the provider ends the attempt with, with what was shown.
Attempt(chunks) ==
    LET heard == FoldLeft(Absorb, NothingHeard, chunks)
        ends(kind, code) ==
            [kind |-> kind, code |-> code, visible |-> heard.visible,
             text |-> heard.text, finish |-> heard.finish,
             calls |-> [i \in DOMAIN heard.calls |-> heard.calls[i].id]]
    IN  IF heard.failed # None THEN ends("failed", heard.failed)
        ELSE IF heard.finish = None
                \/ \E i \in DOMAIN heard.calls : ~WholeCall(heard.calls[i])
             THEN ends("failed", "provider_protocol")
             ELSE ends("completed", None)

\* The gateway tries again instead of passing a failure on.
GatewayRetries(attempt, retries) ==
    /\ attempt.kind = "failed"
    /\ attempt.code \in RetryableCodes
    /\ ~attempt.visible
    /\ retries < PolicyRetries
=============================================================================
