------------------------------ MODULE MCRawmidi ------------------------------
(* The instance is given by the configurations.                            *)
EXTENDS Rawmidi
=============================================================================
