---------------------------- MODULE MCMcpClient -----------------------------
(* The MCP client on small instances.                                         *)
EXTENDS McpClient
=============================================================================
