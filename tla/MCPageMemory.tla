---------------------------- MODULE MCPageMemory ----------------------------
(* The constants are given by the cfg files.                               *)
EXTENDS PageMemory
=============================================================================
