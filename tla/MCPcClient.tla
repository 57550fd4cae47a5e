---------------------------- MODULE MCPcClient ----------------------------
(* The values are in the configuration. *)
EXTENDS PcClient
=============================================================================
