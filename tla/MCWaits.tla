------------------------------ MODULE MCWaits ------------------------------
(* The constants are given by the cfg files.                               *)
EXTENDS Waits
=============================================================================
