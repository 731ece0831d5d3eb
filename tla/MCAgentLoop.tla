---------------------------- MODULE MCAgentLoop ----------------------------
(* Small instances of AgentLoop: a provider with seven ways to answer, and  *)
(* Threads that are empty, long, compressed before, or hold a direct        *)
(* command and a failed Turn.                                               *)
EXTENDS AgentLoop

Call(index, id, args) ==
    [kind |-> "call", index |-> index, id |-> id, name |-> "n", args |-> args]
Fails(code) == [kind |-> "fails", code |-> code]
Ends(reason) == [kind |-> "finish", reason |-> reason]
Text == [kind |-> "text"]

MCReplies ==
    { <<[kind |-> "reasoning"], Text, Ends("stop")>>,
      <<Call(1, "c1", None), Call(1, None, "object"), Ends("tool_calls")>>,
      <<Call(1, "c2", "object"), Call(2, "c3", "object"), Ends("tool_calls")>>,
      <<Call(2, "c3", "object"), Ends("tool_calls")>>,
      <<Fails("connection")>>,
      <<Text, Fails("connection")>>,
      <<Fails("context_length")>> }

Said(t) == <<[kind |-> "user", turn |-> t],
                [kind |-> "assistant", turn |-> t]>>
Asked(t) == <<[kind |-> "user", turn |-> t]>>
Ran(t) == <<[kind |-> "direct", turn |-> t]>>

MCThreads ==
    { [entries |-> Asked(1), status |-> <<"in_progress">>,
       summary |-> NoSummary],
      [entries |-> Said(1) \o Ran(2) \o Asked(3) \o Said(4) \o Asked(5),
       status |-> <<"completed", "completed", "failed", "completed",
                    "in_progress">>,
       summary |-> NoSummary],
      [entries |-> Said(1) \o Said(2) \o Said(3) \o Asked(4),
       status |-> <<"completed", "completed", "completed", "in_progress">>,
       summary |-> [end |-> 2, turns |-> 1, tells |-> {1, 2}]] }

Product == Source("product_instructions", "product", 3, 0)
Input == Source("current_input", "input", 4, 0)
File(size) == Source("explicit_path", "file", size, 1)
MCCaptures ==
    { {Product, Input},
      {Product, Input, File(14), Source("user_memory", "likes", 2, 0),
       Source("workspace_memory", "likes", 2, 0)},
      {Product, Input, File(40)} }
=============================================================================
