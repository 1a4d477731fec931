---------------------------- MODULE MCMcpServers ----------------------------
(* McpServers alone, with the callers and rows of McpFixtures. *)
EXTENDS McpServers, McpFixtures
=============================================================================
