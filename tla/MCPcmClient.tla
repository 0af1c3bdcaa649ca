----------------------------- MODULE MCPcmClient -----------------------------
(* The constants are given by the cfg file.                                 *)
EXTENDS PcmClient, TLC

(* No step tells one frame of the client from another.                     *)
FrameSymmetry == Permutations(Frames)
=============================================================================
