---------------------------- MODULE MCMcpClient ----------------------------
(***************************************************************************)
(* Two tool runs, which may overlap: two calls, or a call and a list.  The *)
(* other queries differ from that list only in what answers them.          *)
(***************************************************************************)
EXTENDS McpClient

MCRuns == <<{"tools/call"}, {"tools/call", "resources/list"}>>
=============================================================================
