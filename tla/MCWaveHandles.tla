--------------------------- MODULE MCWaveHandles ---------------------------
(* Clients, PCMs and the addresses of handles are interchangeable.         *)
EXTENDS WaveHandles, TLC

Symmetry == Permutations(Files) \cup Permutations(Pcms) \cup Permutations(Handles)
=============================================================================
