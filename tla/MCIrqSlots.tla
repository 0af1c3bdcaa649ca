----------------------------- MODULE MCIrqSlots -----------------------------
EXTENDS IrqSlots, TLC

CONSTANTS d1, d2, d3, i1, i2

(* Two devices share a line, the third has one of its own.                  *)
MCIrqOf == (d1 :> i1) @@ (d2 :> i1) @@ (d3 :> i2)
=============================================================================
