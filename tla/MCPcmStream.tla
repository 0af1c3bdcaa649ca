----------------------------- MODULE MCPcmStream -----------------------------
(* The constants are given by the cfg files.                                *)
EXTENDS PcmStream
=============================================================================
