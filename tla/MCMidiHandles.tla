--------------------------- MODULE MCMidiHandles ---------------------------
(* Clients, addresses and files are interchangeable.                       *)
EXTENDS MidiHandles, TLC

Symmetry == Permutations(Clients) \cup Permutations(Addrs) \cup Permutations(Files)
=============================================================================
