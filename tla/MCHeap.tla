------------------------------- MODULE MCHeap -------------------------------
(***************************************************************************)
(* Heap with the header and the fragment size of the build, a heap of six  *)
(* smallest blocks and a half, and requests of one, one aligned and three  *)
(* dwords.  The mutants are plausible slips in the code.                   *)
(***************************************************************************)
EXTENDS HeapClients
=============================================================================
