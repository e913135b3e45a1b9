---------------------------- MODULE MCPcmBuffer ----------------------------
(* The ring with at most three chunks of three units, full at less than two. *)
EXTENDS PcmBuffer
=============================================================================
