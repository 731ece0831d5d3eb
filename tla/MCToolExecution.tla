--------------------------- MODULE MCToolExecution ---------------------------
(* A command, or two calls of MCP tools one after the other.                *)
EXTENDS ToolExecution

MCCalls == {1, 2}
MCWorkloads == {<<"command", "none">>, <<"mcp", "mcp">>}
=============================================================================
