-------------------------- MODULE MCClientSession --------------------------
EXTENDS ClientSession

\* Four short Operations fill the queue, /new and /retry replace the view with
\* and without an Operation of their own, and an exit meets a Turn.
MCScripts == {<<"turn", "direct", "quit">>, <<"direct", "direct", "direct", "direct">>,
              <<"direct", "new", "turn">>, <<"turn", "retry">>, <<"turn", "exit">>}
MCFrail == {<<"turn", "exit">>}
MCBodies == {<<"delta">>, <<"interaction.required", "delta">>}
=============================================================================
